----------------------------- MODULE GameClient -----------------------------
(***************************************************************************)
(* The page of the web client (frontend/src/App.tsx with the hook useGame  *)
(* of lib/game.ts and the requests of lib/api.ts) against the sessions of  *)
(* the server, which another browser uses as well.                         *)
(*                                                                         *)
(* A request is sent, served and its answer delivered; the page may give   *)
(* it up or be reloaded before that, and the server may serve it still.    *)
(* The server serves requests side by side: it reads for one, and writes   *)
(* for it later what it made of that.  Answers arrive in any order.  React *)
(* applies the state an action sets in one render and then runs the        *)
(* effects; both are part of the action.                                   *)
(*                                                                         *)
(* The board is a sequence, as its cards are submitted by their indices    *)
(* (from 1 here).  A selection is a set of indices: their order only shows *)
(* in the gallery.  `cleared` of the code is left out: it is for play      *)
(* without a session, and SessionWhileStarted says there is none.  All is  *)
(* of one day.                                                             *)
(***************************************************************************)
EXTENDS Integers, FiniteSets, Sequences, SequencesExt

CONSTANTS
  Players,      \* players of the server
  Cards,        \* cards of the boards
  ValidSets,    \* the sets of three cards that game.is_set accepts
  Deal,         \* the board of the day, in the order of /api/daily
  Slots,        \* bound: requests that may be under way
  MaxRounds,    \* bound: sessions of one player
  Picks,        \* bound: the selections players make, as sets of indices
  None          \* no player, no session, no snapshot

HasSet(board) == \E S \in ValidSets : S \subseteq board

Sessions == Players \X (1 .. MaxRounds)    \* a player, and a number by start_ts
Indices == DOMAIN Deal

ASSUME DealAssumption ==
  /\ ValidSets \subseteq SUBSET Cards
  /\ Deal \in Seq(Cards)
  /\ HasSet(ToSet(Deal))
  /\ \A i, j \in DOMAIN Deal : Deal[i] = Deal[j] => i = j
ASSUME PicksAssumption == Picks \subseteq SUBSET Indices
ASSUME RoundsAssumption == MaxRounds \in Nat
ASSUME NoneIsNothing == None \notin Players \cup Sessions

VARIABLES
  sess,         \* the sessions in the database
  done,         \* the players who have a time
  registered,   \* players that exist
  cookie,       \* the player whose player_token this browser holds
  page,         \* what useGame and App hold
  saved,        \* the snapshot in localStorage
  net,          \* the request in each slot
  drift         \* history: the boards may be apart

serverVars == <<sess, done, registered>>
vars == <<sess, done, registered, cookie, page, saved, net, drift>>

Row ==
  [state : {"absent", "drawn",       \* its start_ts is taken, no more
            "active", "finished"},
   table : SUBSET Cards,
   rows : Nat]                       \* the found sets recorded for it

Page ==
  [loading : BOOLEAN,
   completedToday : BOOLEAN,                   \* null, at first, reads as false
   asking : Players \cup {None},    \* whose status the page waits for
   board : Seq(Cards),
   selected : {S \in SUBSET Indices : Cardinality(S) <= 3},
   startAt : BOOLEAN,                          \* the clock has been started
   sessionId : Sessions \cup {None},
   sessionToken : Sessions \cup {None},
   foundSets : Seq(ValidSets),
   left : Sessions \cup {None},    \* history: the session before the reload,
                                  \* until /api/session cannot be reached
   switched : BOOLEAN]            \* history: the page went from one session to
                                  \* another

Snapshot ==
  [startAt : BOOLEAN, board : Seq(Cards), sessionId : Sessions \cup {None},
   sessionToken : Sessions \cup {None}, foundSets : Seq(ValidSets)]

Reply ==
  [ok : BOOLEAN, sid : Sessions \cup {None}, board : Seq(Cards),
   cookie : Players \cup {None}]

Request ==
  [what : {"free", "session", "start", "daily", "submit"},
   heard : BOOLEAN,                    \* the page still waits for the answer
   stage : {"asked", "begun", "served"},   \* begun: read for, not written for
   cookie : Players \cup {None},
   user : Players \cup {None},
   sid : Sessions \cup {None},         \* of the token, else of the id
   at : SUBSET Indices, cards : SUBSET Cards,
   copy : SUBSET Cards,                \* the board that its handler has loaded
   reply : Reply]

NoReply ==
  [ok |-> FALSE, sid |-> None, board |-> <<>>, cookie |-> None]
Free ==
  [what |-> "free", heard |-> FALSE, stage |-> "asked", cookie |-> None,
   user |-> None, sid |-> None, at |-> {}, cards |-> {}, copy |-> {},
   reply |-> NoReply]

TypeOK ==
  /\ sess \in [Sessions -> Row]
  /\ done \subseteq Players /\ registered \subseteq Players
  /\ cookie \in Players \cup {None}
  /\ page \in Page
  /\ saved \in Snapshot \cup {None}
  /\ net \in [Slots -> Request]
  /\ drift \in BOOLEAN

-----------------------------------------------------------------------------
(* The board *)

\* The entries of q at the indices in A, from the lowest up.
Entries(q, A) ==
  [n \in 1 .. Cardinality(A) |->
     q[CHOOSE i \in A : Cardinality({j \in A : j <= i}) = n]]

\* The cards of S in the order they were dealt: the server keeps that order.
Ordered(S) == Entries(Deal, {i \in DOMAIN Deal : Deal[i] \in S})
CardsAt(board, at) == {board[i] : i \in at \cap DOMAIN board}

\* What is left of a board without the indices in `at`, in its order.
Without(board, at) == Entries(board, DOMAIN board \ at)

\* Mutant of Splice: removes the lowest index first, and so shifts the others.
SpliceUpwards(board, at) ==
  Without(board, {i + Cardinality({j \in at : j < i}) : i \in at})

\* applySetState splices the indices from the highest down; an index beyond
\* the board removes nothing.
Splice(board, at) == Without(board, at)

\* Mutant of Complete: a board too small for a set is complete as well.
CompleteWhenSmall(p) == p.startAt /\ ~HasSet(ToSet(p.board))

\* `complete` of useGame.
Complete(p) == p.startAt /\ Len(p.board) >= 3 /\ ~HasSet(ToSet(p.board))

-----------------------------------------------------------------------------
(* Requests *)

FreeSlots(n) == {s \in Slots : n[s].what = "free"}
Place(n, r) == {[n EXCEPT ![s] = r] : s \in FreeSlots(n)}

Send(what) ==
  [Free EXCEPT !.what = what, !.heard = TRUE, !.cookie = cookie]

Submissions(n) == {s \in Slots : n[s].what = "submit"}
Waiting(what) == {s \in Slots : net[s].what = what /\ net[s].heard}

\* buildPayload: the token wins over the id at the server.
Submission(p) ==
  [Send("submit") EXCEPT
     !.sid = IF p.sessionToken # None THEN p.sessionToken ELSE p.sessionId,
     !.at = p.selected, !.cards = CardsAt(p.board, p.selected)]

\* submitSelected sends three selected cards that make a set.
Submits(p) ==
  Cardinality(p.selected) = 3 /\ CardsAt(p.board, p.selected) \in ValidSets

\* The effect of App that submits runs when the selection or anything that
\* submitSelected depends on has changed: nothing asks whether a submission
\* is under way.  Bound: with no free slot, the change waits.
SubmitEffect(new, rerun, n) ==
  IF rerun /\ Submits(new)
  THEN /\ net' \in Place(n, Submission(new))
       /\ drift' = (drift \/ Submissions(n) # {})
  ELSE net' = n /\ UNCHANGED drift

\* The effect that keeps the snapshot, and the one that drops it when the game
\* is complete.
Kept(p) ==
  [startAt |-> p.startAt, board |-> p.board, sessionId |-> p.sessionId,
   sessionToken |-> p.sessionToken, foundSets |-> p.foundSets]
PersistEffect(new) == saved' = IF Complete(new) THEN None ELSE Kept(new)

-----------------------------------------------------------------------------
(* The page *)

EmptyPage(session) ==
  [loading |-> TRUE, completedToday |-> FALSE, asking |-> cookie,
   board |-> <<>>,
   selected |-> {}, startAt |-> FALSE, sessionId |-> None,
   sessionToken |-> None, foundSets |-> <<>>, left |-> session,
   switched |-> FALSE]

\* The effects of a mount: the snapshot is overwritten with that of the empty
\* page, and only then are the session and the status asked for.  Without a
\* cookie the status is no news, and so it is before its answer: it needs no
\* moment of its own at the server, nor a slot.
Mount(session, n) ==
  /\ page' = EmptyPage(session)
  /\ saved' = Kept(EmptyPage(session))
  /\ net' \in Place(n, Send("session"))

\* What a page that goes away leaves behind: requests that the server has yet
\* to serve and that change something there.
Abandoned(r) ==
  IF r.what \in {"start", "submit"} /\ r.stage # "served"
  THEN [r EXCEPT !.heard = FALSE] ELSE Free

\* A session to play: no other was started after it, and its player has no time.
Current(sid) ==
  /\ sid # None
  /\ sess[sid].state = "active" /\ sid[1] \notin done
  /\ \A o \in Sessions :
       o[1] = sid[1] /\ sess[o].state \in {"active", "finished"} =>
         o[2] <= sid[2]

\* The player had a session to come back to.
ToResume == IF Current(page.sessionId) THEN page.sessionId ELSE None

Reload ==
  LET n == [s \in Slots |-> Abandoned(net[s])]
  IN /\ Mount(ToResume, n)
     /\ drift' = (Submissions(n) # {})
     /\ UNCHANGED <<serverVars, cookie>>

\* The overlay with the name and the start button is there while no session
\* is known and the day is not known to be completed.
OverlayShown ==
  page.sessionId = None /\ ~page.startAt /\ ~page.completedToday

\* Mutant of ClickStart: the clock starts with the click.
ClickStartAtOnce(u) ==
  /\ OverlayShown
  /\ net' \in Place(net, [Send("start") EXCEPT !.user = u])
  /\ page' = [page EXCEPT !.startAt = TRUE]
  /\ drift' = TRUE
  /\ UNCHANGED <<serverVars, cookie, saved>>

\* onStart; nothing keeps the button from being clicked again, or before the
\* session that was asked for at the mount is known.
ClickStart(u) ==
  /\ OverlayShown
  /\ net' \in Place(net, [Send("start") EXCEPT !.user = u])
  /\ drift' = (drift \/ page.loading \/ Waiting("start") # {})
  /\ UNCHANGED <<serverVars, cookie, page, saved>>

BoardShown == ~page.loading /\ page.startAt /\ ~Complete(page)

\* toggleSelect of a card on the board; a fourth is not selected.
Toggle(i) ==
  LET new == [page EXCEPT !.selected =
                IF i \in @ THEN @ \ {i}
                ELSE IF Cardinality(@) >= 3 THEN @ ELSE @ \cup {i}]
  IN /\ BoardShown
     /\ i \in DOMAIN page.board
     /\ new.selected \in Picks
     /\ page' = new
     /\ SubmitEffect(new, new.selected # page.selected, net)
     /\ UNCHANGED <<serverVars, cookie, saved>>

-----------------------------------------------------------------------------
(* The server *)

Active(sid) == sess[sid].state = "active"

\* The unfinished session of player p that was started last.
Latest(p) ==
  {sid \in Sessions :
     /\ sid[1] = p /\ Active(sid)
     /\ \A o \in Sessions : o[1] = p /\ Active(o) => o[2] <= sid[2]}

\* The numbers follow the clock.
Fresh(p) ==
  {sid \in Sessions :
     /\ sid[1] = p
     /\ \A o \in Sessions :
          o[1] = p => (sess[o].state = "absent" <=> o[2] >= sid[2])}

\* An answer that nobody waits for goes nowhere, its cookie included.
Answer(s, reply) ==
  net' = [net EXCEPT ![s] =
    IF @.heard
    THEN [@ EXCEPT !.stage = "served", !.cookie = None, !.user = None,
                   !.copy = {}, !.reply = reply]
    ELSE Free]

\* GET /api/session: the unfinished session of the cookie's player.
ServeSession(s) ==
  LET p == net[s].cookie
  IN /\ net[s].what = "session"
     /\ \/ /\ p \notin done
           /\ \E sid \in Latest(p) :
                Answer(s, [NoReply EXCEPT !.ok = TRUE, !.sid = sid,
                                          !.board = Ordered(sess[sid].table)])
        \/ /\ p \in done \/ Latest(p) = {}
           /\ Answer(s, NoReply)
     /\ UNCHANGED <<serverVars, drift>>

\* POST /api/start_session, as far as create_session: a known name goes before
\* the cookie; a player is created, and its cookie sent, when there is neither.
StartSession(s) ==
  LET r == net[s]
      known == r.user \in registered
      p == IF known \/ r.cookie = None THEN r.user ELSE r.cookie
      Started(sid) ==
        [NoReply EXCEPT !.ok = TRUE, !.sid = sid,
           !.cookie = IF ~known /\ r.cookie = None THEN p ELSE None]
  IN /\ r.what = "start" /\ r.stage = "asked"
     /\ registered' = registered \cup {p}
     /\ \/ /\ p \in done
           /\ Answer(s, NoReply)
           /\ UNCHANGED <<sess, drift>>
        \/ /\ p \notin done
           /\ \E sid \in Latest(p) :
                /\ Answer(s, Started(sid))
                /\ drift' = (drift \/ sess[sid].table # ToSet(Deal))
           /\ UNCHANGED sess
        \/ /\ p \notin done /\ Latest(p) = {}
           /\ \E sid \in Fresh(p) :
                /\ sess' = [sess EXCEPT ![sid].state = "drawn"]
                /\ net' = [net EXCEPT ![s].stage = "begun",
                                      ![s].reply = Started(sid)]
           /\ UNCHANGED drift
     /\ UNCHANGED done

\* create_session: the commit, whatever has been inserted since.
CreateSession(s) ==
  LET r == net[s]
  IN /\ r.what = "start" /\ r.stage = "begun"
     /\ sess' = [sess EXCEPT ![r.reply.sid] =
          [state |-> "active", table |-> ToSet(Deal), rows |-> 0]]
     /\ Answer(s, r.reply)
     /\ UNCHANGED <<done, registered, drift>>

\* POST /api/submit_set, as far as _validate_and_get_cards: the indices name
\* cards of the board that is loaded.
LoadBoard(s) ==
  LET r == net[s]
      board == Ordered(sess[r.sid].table)
  IN /\ r.what = "submit" /\ r.stage = "asked"
     /\ IF /\ Active(r.sid) /\ r.sid[1] \notin done
           /\ r.at \subseteq DOMAIN board
           /\ CardsAt(board, r.at) \in ValidSets
        THEN net' = [net EXCEPT ![s].stage = "begun",
                                ![s].copy = sess[r.sid].table]
        ELSE Answer(s, NoReply)
     /\ UNCHANGED <<serverVars, drift>>

\* _apply_session_changes: what was loaded is written back without the set,
\* which is recorded; a session without a set left is finished, and stays so.
ApplySessionChanges(s) ==
  LET r == net[s]
      rest == r.copy \ CardsAt(Ordered(r.copy), r.at)
  IN /\ r.what = "submit" /\ r.stage = "begun"
     /\ sess' = [sess EXCEPT
          ![r.sid] = [state |-> IF HasSet(rest) THEN @.state ELSE "finished",
                      table |-> rest, rows |-> @.rows + 1]]
     /\ Answer(s, [NoReply EXCEPT !.ok = TRUE])
     /\ UNCHANGED <<done, registered, drift>>

Serve(s) ==
  /\ net[s].stage # "served"
  /\ \/ ServeSession(s) \/ StartSession(s) \/ CreateSession(s)
     \/ LoadBoard(s) \/ ApplySessionChanges(s)
  /\ UNCHANGED <<cookie, page, saved>>

\* A request never reaches the server, or its handler dies.
Drop(s) ==
  /\ net[s].what # "free" /\ ~net[s].heard
  /\ net' = [net EXCEPT ![s] = Free]
  /\ UNCHANGED <<serverVars, cookie, page, saved, drift>>

\* Another browser plays for player p.  Bound: what it submits to a session that
\* is not there to play is refused.
Elsewhere(p) ==
  /\ \/ /\ net' \in Place(net, [Free EXCEPT !.what = "start", !.user = p])
        /\ UNCHANGED drift
     \/ /\ \E sid \in Sessions, at \in Picks :
             /\ sid[1] = p /\ Active(sid) /\ Cardinality(at) = 3
             /\ net' \in Place(net, [Free EXCEPT !.what = "submit", !.sid = sid,
                                                 !.at = at])
        /\ drift' = TRUE
  /\ UNCHANGED <<serverVars, cookie, page, saved>>

\* The server records a time, for the end of the session or for another client.
RecordTime(p) ==
  /\ p \in registered \ done
  /\ done' = done \cup {p}
  /\ UNCHANGED <<sess, registered, cookie, page, saved, net, drift>>

-----------------------------------------------------------------------------
(* The answers *)

\* The page after a change: with new values, the effects run.
Becomes(new, rerun, n) ==
  /\ page' = new
  /\ PersistEffect(new)
  /\ SubmitEffect(new, rerun, n)

Switches(sid) == page.switched \/ page.sessionId \notin {None, sid}

\* restoreFromStorage, with which load falls back on the snapshot.
Restore(left, n) ==
  IF saved # None /\ saved.startAt /\ saved.board # <<>>
  THEN Becomes([page EXCEPT
         !.loading = FALSE, !.left = left, !.board = saved.board,
         !.selected = {},
         !.startAt = TRUE, !.sessionId = saved.sessionId,
         !.sessionToken = saved.sessionToken, !.foundSets = saved.foundSets,
         !.switched = Switches(saved.sessionId)],
         TRUE, n)
  ELSE /\ page' = [page EXCEPT !.loading = FALSE, !.left = left]
       /\ net' = n
       /\ UNCHANGED <<saved, drift>>

\* Mutant of ResumeSession: the session is not taken over, only its board.
ResumeBoardOnly(reply) ==
  [page EXCEPT !.loading = FALSE, !.board = reply.board, !.startAt = TRUE]

\* loadServerSession takes over the session, and keeps the rest.
ResumeSession(reply) ==
  [page EXCEPT !.loading = FALSE, !.board = reply.board,
               !.sessionId = reply.sid, !.startAt = TRUE,
               !.switched = Switches(reply.sid)]

DeliverSession(s) ==
  LET reply == net[s].reply
      n == [net EXCEPT ![s] = Free]
  IN /\ net[s].what = "session"
     /\ IF reply.ok THEN Becomes(ResumeSession(reply), TRUE, n)
        ELSE Restore(page.left, n)

\* The first half of start: the session is set, and the board asked for.  The
\* page takes the full board, whatever has been found in the session.
DeliverStart(s) ==
  LET reply == net[s].reply
      new == [page EXCEPT !.sessionId = reply.sid, !.sessionToken = reply.sid,
                          !.startAt = TRUE, !.switched = Switches(reply.sid)]
      daily == [Send("daily") EXCEPT !.sid = reply.sid, !.cookie = None]
  IN /\ net[s].what = "start" /\ reply.cookie = None
     /\ IF reply.ok
        THEN Becomes(new, new # page, [net EXCEPT ![s] = daily])
        ELSE net' = [net EXCEPT ![s] = Free] /\ UNCHANGED <<page, saved, drift>>

\* The second half of start.
DeliverDaily(s) ==
  /\ net[s].what = "daily"
  /\ Becomes([page EXCEPT !.board = Deal], TRUE, [net EXCEPT ![s] = Free])

\* Mutants of Accept: the selection stays; the cards are read from the board
\* when they are gone from it.
AcceptKeepingSelection(r) ==
  [page EXCEPT !.foundSets = Append(@, r.cards),
               !.board = Splice(@, r.at)]
AcceptThenRead(r) ==
  [page EXCEPT !.foundSets =
                 Append(@, CardsAt(Splice(page.board, r.at), r.at)),
               !.board = Splice(@, r.at), !.selected = {}]

\* submitSelected after the answer: the set is one that was found, and its
\* indices leave the board that is there now.
Accept(r) ==
  [page EXCEPT !.foundSets = Append(@, r.cards),
               !.board = Splice(@, r.at), !.selected = {}]

\* Mutant of DeliverSubmit: the answer is not asked whether it accepts.
DeliverSubmitAlways(s) ==
  /\ net[s].what = "submit"
  /\ Becomes(Accept(net[s]), TRUE, [net EXCEPT ![s] = Free])

\* A submission that is refused leaves the page as it is, with its selection.
DeliverSubmit(s) ==
  /\ net[s].what = "submit"
  /\ IF net[s].reply.ok
     THEN Becomes(Accept(net[s]), TRUE, [net EXCEPT ![s] = Free])
     ELSE net' = [net EXCEPT ![s] = Free] /\ UNCHANGED <<page, saved, drift>>

\* /api/daily gives the same answer whenever it is served.
Deliver(s) ==
  /\ net[s].heard
  /\ net[s].stage = "served" \/ net[s].what = "daily"
  /\ \/ DeliverSession(s) \/ DeliverStart(s)
     \/ DeliverDaily(s) \/ DeliverSubmit(s)
  /\ UNCHANGED <<serverVars, cookie>>

\* The headers of an answer arrive: the browser keeps the cookie, whatever
\* becomes of the answer.
Headers(s) ==
  /\ net[s].heard /\ net[s].reply.cookie # None /\ net[s].stage = "served"
  /\ cookie' = net[s].reply.cookie
  /\ net' = [net EXCEPT ![s].reply.cookie = None]
  /\ UNCHANGED <<serverVars, page, saved, drift>>

FailSession(s) ==
  /\ net[s].what = "session"
  /\ Restore(None, [net EXCEPT ![s] = Free])

\* start without a board keeps the session, and writes a snapshot with the
\* board and the found sets of the page as it was first rendered.
FailDaily(s) ==
  /\ net[s].what = "daily"
  /\ saved' = [startAt |-> TRUE, board |-> <<>>, sessionId |-> net[s].sid,
               sessionToken |-> net[s].sid, foundSets |-> <<>>]
  /\ net' = [net EXCEPT ![s] = Free]
  /\ drift' = TRUE
  /\ UNCHANGED page

\* A request that was given up may reach the server still.
FailCommand(s) ==
  /\ net[s].what \in {"start", "submit"}
  /\ net' = [net EXCEPT ![s] = Abandoned(@)]
  /\ drift' = (drift \/ /\ net[s].what = "submit"
                        /\ net[s].stage = "served" => net[s].reply.ok)
  /\ UNCHANGED <<page, saved>>

\* The network fails, or no answer came in the time that enhancedFetch allows.
Fail(s) ==
  /\ net[s].heard
  /\ FailSession(s) \/ FailDaily(s) \/ FailCommand(s)
  /\ UNCHANGED <<serverVars, cookie>>

\* GET /api/status: whether the player has a time.  A failure counts as no.
LearnStatus ==
  /\ page.asking # None
  /\ \E yes \in {FALSE, page.asking \in done} :
       page' = [page EXCEPT !.asking = None, !.completedToday = yes]
  /\ UNCHANGED <<serverVars, cookie, saved, net, drift>>

-----------------------------------------------------------------------------
Init ==
  /\ sess = [sid \in Sessions |->
       [state |-> "absent", table |-> {}, rows |-> 0]]
  /\ done = {}
  /\ registered \in SUBSET Players
  /\ cookie = None
  /\ page = EmptyPage(None)
  /\ saved = Kept(EmptyPage(None))
  /\ net \in Place([s \in Slots |-> Free], Send("session"))
  /\ drift = FALSE

Next ==
  \/ \E u \in Players : ClickStart(u)
  \/ \E i \in Indices : Toggle(i)
  \/ Reload \/ LearnStatus
  \/ \E s \in Slots : Serve(s) \/ Drop(s) \/ Headers(s)
  \/ \E s \in Slots : Deliver(s) \/ Fail(s)
  \/ \E p \in Players : Elsewhere(p) \/ RecordTime(p)

Spec == Init /\ [][Next]_vars

-----------------------------------------------------------------------------
\* While one thing is asked at a time, no answer is lost and nobody plays the
\* game elsewhere, the board of the page is that of the session, card for card
\* (applySetState against _apply_session_changes): the indices it submits name
\* the cards the player sees.
BoardsAgree ==
  LET sid == page.sessionId
  IN (/\ ~drift /\ Current(sid)
      /\ \A s \in Slots : ~net[s].heard) =>
       /\ page.board = Ordered(sess[sid].table)
       /\ page.sessionToken \in {None, sid}

\* Whatever is lost, repeated or answered out of order, each set that the page
\* counts is one that was recorded for its session (submitSelected takes a set
\* when it is accepted); so of a set that two overlapping submissions were both
\* accepted for, which the server records twice as well.  Only a page that goes
\* from one session to another, as when a start is clicked before the session of
\* the cookie is known, takes the sets of the first along.
NeverOverclaims ==
  page.sessionId # None /\ ~page.switched =>
    Len(page.foundSets) <= sess[page.sessionId].rows

\* The selection names cards that are there (toggleSelect, applySetState): no
\* card is marked, or submitted, that the player did not touch.
SelectionOnBoard == ~drift => page.selected \subseteq DOMAIN page.board

\* The clock runs exactly while a session is known: so a page never plays on a
\* board without a session, for which submitSelected has a second mode.
SessionWhileStarted == page.startAt <=> page.sessionId # None

\* canViewLeaderboard of App: the leaderboard opens to players whose game of
\* the day has ended.
GateSound ==
  /\ page.completedToday => done # {}
  /\ ~drift /\ Complete(page) => ~Current(page.sessionId)

\* A page that knows its player by cookie comes back, after a reload, to the
\* session it played, if that is still the one to play; a start that is clicked
\* before it is known may take the page to another player's.
ResumesByCookie ==
  LET sid == page.left
  IN ~page.loading /\ Current(sid) /\ cookie = sid[1] =>
       page.startAt /\ (page.sessionId = sid \/ page.switched)

\* The promise of the overlay, "Your game will resume if you reload this page".
Resumes ==
  Current(page.left) /\ ~page.loading => page.startAt
=============================================================================
