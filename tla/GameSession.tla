---------------------------- MODULE GameSession ----------------------------
(***************************************************************************)
(* The play of the daily puzzle: /api/start_session, /api/session,         *)
(* /api/submit_set and /api/complete (app/main.py) over the tables         *)
(* GameSession, FoundSet, Completion and Player (app/models.py), through   *)
(* the operations of app/crud.py.                                          *)
(*                                                                         *)
(* The handlers are plain `def`s: the server runs each in a thread of a    *)
(* pool, with a database session of its own, so one handler is a sequence  *)
(* of steps of its thread.  A step is a statement another handler can      *)
(* observe or be observed by: a query, or a commit.  A handler keeps the   *)
(* row it loaded first (the identity map of its database session), so      *)
(* what it checks and writes later may be stale; a commit writes only the  *)
(* columns the handler assigned and checks no version.                     *)
(*                                                                         *)
(* A board is the set of its remaining cards: removing a set keeps the     *)
(* order of the others, and three distinct indices into a loaded board     *)
(* name any three of its cards.                                            *)
(***************************************************************************)
EXTENDS Integers, Sequences, FiniteSets

CONSTANTS
  Threads,      \* the threads of the pool that run the handlers
  Players,      \* ids the database can give to rows of Player
  Names,        \* usernames requests carry
  Dates,        \* days a puzzle exists for
  Cards,        \* cards of the boards
  ValidSets,    \* the sets of three cards that game.is_set accepts
  Daily,        \* Daily[d] is game.daily_board(d), as a set of cards
  Exclusive,    \* TRUE: no two requests of one player are in flight together
  Faults,       \* TRUE: a handler may die between two of its steps
  MaxSessions,  \* bound: rows of GameSession
  MaxFound,     \* bound: rows of FoundSet per session
  MaxDirect,    \* bound: completions when a direct one is still accepted
  None,         \* no player, no name, no session, no day
  Absent,       \* in the table of players: no row with this id
  Anonymous     \* a generated username; at 13 characters, no request has it

HasSet(board) == \E S \in ValidSets : S \subseteq board

ASSUME DeckAssumption ==
  /\ ValidSets \subseteq SUBSET Cards
  /\ {} \notin ValidSets
  /\ Daily \in [Dates -> SUBSET Cards]
  /\ \A d \in Dates : HasSet(Daily[d])

ASSUME NoneAssumption ==
  /\ None \notin Players \cup Names \cup Dates
  /\ {Absent, Anonymous} \cap (Names \cup {None}) = {}
  /\ Absent # Anonymous

ASSUME BoundAssumption ==
  /\ {MaxSessions, MaxFound, MaxDirect} \subseteq Nat
  /\ {Exclusive, Faults} \subseteq BOOLEAN
  /\ None \notin Nat

Sids == 1 .. MaxSessions    \* session ids, in the order of start_ts

VARIABLES
  name,         \* Player: the username of each row
  sess,         \* GameSession: the row of each session
  found,        \* FoundSet: the sets found in each session, in row order
  completions,  \* Completion: the rows, in row order
  cookies,      \* players whose player_token some client holds
  handed,       \* sessions whose id some client holds
  th            \* what the handler in each thread is doing

vars == <<name, sess, found, completions, cookies, handed, th>>
tables == <<name, sess, found, completions>>
clients == <<cookies, handed>>

Session ==
  [state : {"absent", "active", "finished"},
   player : Players \cup {None}, date : Dates \cup {None},
   board : SUBSET Cards]
Completion ==
  [player : Players, date : Dates, by : Sids \cup {None}]
Stages ==
  {"idle", "resolve", "register", "check", "find", "new", "create",
   "load", "guard", "apply", "record", "standalone"}
Handler ==
  [pc : Stages,
   user : Names \cup {None},       \* username of the request
   cookie : Players \cup {None},   \* player its player_token identifies
   date : Dates \cup {None},
   sid : Sids \cup {None},
   solo : BOOLEAN,                 \* seconds given, and no session_id
   pid : Players \cup {None},      \* the player the handler settled on
   fresh : BOOLEAN,                \* this handler inserted that player
   board : SUBSET Cards]           \* the board it loaded

TypeOK ==
  /\ name \in [Players -> Names \cup {Anonymous, Absent}]
  /\ sess \in [Sids -> Session]
  /\ found \in [Sids -> Seq(ValidSets)]
  /\ completions \in Seq(Completion)
  /\ cookies \subseteq Players
  /\ handed \subseteq Sids
  /\ th \in [Threads -> Handler]

NoSession == [state |-> "absent", player |-> None, date |-> None, board |-> {}]
Idle ==
  [pc |-> "idle", user |-> None, cookie |-> None, date |-> None,
   sid |-> None, solo |-> FALSE, pid |-> None, fresh |-> FALSE, board |-> {}]

Init ==
  /\ name = [p \in Players |-> Absent]
  /\ sess = [s \in Sids |-> NoSession]
  /\ found = [s \in Sids |-> <<>>]
  /\ completions = <<>>
  /\ cookies = {}
  /\ handed = {}
  /\ th = [t \in Threads |-> Idle]

-----------------------------------------------------------------------------
(* Queries *)

Named(u) == {p \in Players : u # None /\ name[p] = u}

\* Mutant of HasCompleted: off by one in the number of rows it asks for.
HasCompletedTwice(p, d) ==
  \E i, j \in DOMAIN completions :
    /\ i # j
    /\ \A k \in {i, j} : completions[k].player = p /\ completions[k].date = d

HasCompleted(p, d) ==
  \E i \in DOMAIN completions :
    completions[i].player = p /\ completions[i].date = d

ActiveSessions(p, d) ==
  {s \in Sids : sess[s].state = "active" /\ sess[s].player = p
                                         /\ sess[s].date = d}

\* The row order_by(desc(start_ts)).first() returns.
IsLatest(s, active) == s \in active /\ \A r \in active : r <= s

InFlight == {t \in Threads : th[t].pc # "idle"}

(***************************************************************************)
(* A request may be admitted when its thread is idle and, if requests of   *)
(* one player are exclusive, no handler in flight acts for a player or a   *)
(* name this one acts for.                                                 *)
(***************************************************************************)
ActsFor(h) ==
  ({h.pid, h.cookie} \cup Named(h.user)
     \cup (IF h.sid = None THEN {} ELSE {sess[h.sid].player})) \ {None}

Admissible(t, h) ==
  /\ th[t].pc = "idle"
  /\ Exclusive => \A r \in InFlight :
       /\ ActsFor(th[r]) \cap ActsFor(h) = {}
       /\ h.user # None => th[r].user # h.user

Goto(t, stage) == th' = [th EXCEPT ![t].pc = stage]
Return(t) == th' = [th EXCEPT ![t] = Idle]

-----------------------------------------------------------------------------
(* POST /api/start_session *)

StartRequest(t) ==
  \E u \in Names \cup {None}, c \in cookies \cup {None}, d \in Dates :
    LET h == [Idle EXCEPT !.pc = "resolve", !.user = u, !.cookie = c,
                          !.date = d]
    IN /\ Admissible(t, h)
       /\ th' = [th EXCEPT ![t] = h]
       /\ UNCHANGED <<tables, clients>>

\* The handler goes on with the player it settled on.
Settle(t, p, inserted) ==
  th' = [th EXCEPT ![t] = [@ EXCEPT !.pc = "check", !.pid = p, !.user = None,
                                    !.cookie = None, !.fresh = inserted]]

\* _resolve_player_id: the username if it exists, else the cookie, else none.
Resolve(t) ==
  LET settle(p) == Settle(t, p, FALSE)
  IN /\ th[t].pc = "resolve"
     /\ \/ \E p \in Named(th[t].user) : settle(p)
        \/ Named(th[t].user) = {} /\ th[t].cookie # None /\ settle(th[t].cookie)
        \/ Named(th[t].user) = {} /\ th[t].cookie = None /\ Goto(t, "register")
     /\ UNCHANGED <<tables, clients>>

\* Mutant of Register: an anonymous player is stored without a username.
RegisterNameless(t) ==
  /\ th[t].pc = "register"
  /\ \E p \in Players :
       /\ name[p] = Absent
       /\ name' = [name EXCEPT ![p] = th[t].user]
       /\ Settle(t, p, TRUE)
  /\ UNCHANGED <<sess, found, completions, clients>>

\* _create_player_and_set_cookie: nothing keeps two handlers from inserting
\* the same username.  Bound: with no id left, the insert fails.
Register(t) ==
  LET free == {p \in Players : name[p] = Absent}
  IN /\ th[t].pc = "register"
     /\ \/ \E p \in free :
             /\ name' = [name EXCEPT ![p] = IF th[t].user = None
                                            THEN Anonymous ELSE th[t].user]
             /\ Settle(t, p, TRUE)
        \/ free = {} /\ Return(t) /\ UNCHANGED name
     /\ UNCHANGED <<sess, found, completions, clients>>

\* Mutant of CheckStart: the check for a completion is gone.
CheckStartNothing(t) ==
  /\ th[t].pc = "check"
  /\ Goto(t, "find")
  /\ UNCHANGED <<tables, clients>>

\* 403 "Already completed today's game" drops the response, cookie included.
CheckStart(t) ==
  /\ th[t].pc = "check"
  /\ IF HasCompleted(th[t].pid, th[t].date) THEN Return(t) ELSE Goto(t, "find")
  /\ UNCHANGED <<tables, clients>>

\* The response hands out the session, and the cookie of a new player.
Reply(t, s) ==
  /\ handed' = handed \cup {s}
  /\ cookies' = cookies \cup (IF th[t].fresh THEN {th[t].pid} ELSE {})
  /\ Return(t)

\* Mutant of FindActive: an unfinished session is never reused.
FindNone(t) ==
  /\ th[t].pc = "find"
  /\ Goto(t, "new")
  /\ UNCHANGED <<tables, clients>>

FindActive(t) ==
  LET active == ActiveSessions(th[t].pid, th[t].date)
  IN /\ th[t].pc = "find"
     /\ \/ \E s \in Sids : IsLatest(s, active) /\ Reply(t, s)
        \/ active = {} /\ Goto(t, "new") /\ UNCHANGED clients
     /\ UNCHANGED tables

\* Mutant of NewSession: counts only the rows that are committed.
NewSessionCommitted(t) ==
  /\ th[t].pc = "new"
  /\ \E s \in Sids :
       /\ \A r \in Sids : sess[r].state # "absent" <=> r < s
       /\ th' = [th EXCEPT ![t].sid = s, ![t].pc = "create"]
  /\ UNCHANGED <<tables, clients>>

\* create_session draws the id and the start time, then commits the row.
\* Bound: with no id left, the insert fails.
NewSession(t) ==
  LET taken == {s \in Sids : sess[s].state # "absent"}
                 \cup {th[r].sid : r \in {q \in Threads : th[q].pc = "create"}}
  IN /\ th[t].pc = "new"
     /\ \/ \E s \in Sids :
             /\ \A r \in taken : r < s
             /\ s = 1 \/ s - 1 \in taken
             /\ th' = [th EXCEPT ![t].sid = s, ![t].pc = "create"]
        \/ MaxSessions \in taken \cup {0} /\ Return(t)
     /\ UNCHANGED <<tables, clients>>

CreateSession(t) ==
  /\ th[t].pc = "create"
  /\ sess' = [sess EXCEPT ![th[t].sid] =
       [state |-> "active", player |-> th[t].pid, date |-> th[t].date,
        board |-> Daily[th[t].date]]]
  /\ Reply(t, th[t].sid)
  /\ UNCHANGED <<name, found, completions>>

-----------------------------------------------------------------------------
(* GET /api/session: the holder of a player cookie learns of the player's   *)
(* session of the day.  It writes nothing.                                  *)
GetCurrentSession ==
  /\ \E p \in cookies, d \in Dates, s \in Sids :
       /\ ~HasCompleted(p, d)
       /\ IsLatest(s, ActiveSessions(p, d))
       /\ handed' = handed \cup {s}
  /\ UNCHANGED <<tables, cookies, th>>

-----------------------------------------------------------------------------
(* POST /api/submit_set *)

\* Bounds: what the requests in flight may still insert counts as inserted.
Room(s) ==
  Len(found[s]) + Cardinality({t \in Threads : th[t].sid = s /\ th[t].pc \in
                                 {"load", "guard", "apply"}}) < MaxFound
DirectRoom ==
  Len(completions) + Cardinality({t \in Threads : th[t].solo}) < MaxDirect

\* _get_sid_from_body: a request names a session by its id or by its token, or
\* none, and is then about the whole board of a day.  An unknown session or a
\* bad token is an error that changes nothing.  Beside a session, a day means
\* nothing, and a username only with a standalone time.
SubmitRequest(t) ==
  \E s \in handed \cup {None}, u \in Names \cup {None},
     d \in Dates \cup {None}, solo \in BOOLEAN :
    LET h == [Idle EXCEPT !.pc = "load", !.user = u, !.date = d, !.sid = s,
                          !.solo = solo]
    IN /\ solo => u # None /\ DirectRoom
       /\ s = None <=> d # None
       /\ s # None => Room(s) /\ (u # None => solo)
       /\ Admissible(t, h)
       /\ th' = [th EXCEPT ![t] = h]
       /\ UNCHANGED <<tables, clients>>

\* _load_session_board: the row is read once; 400 when it is finished.
Load(t) ==
  LET s == th[t].sid
  IN /\ th[t].pc = "load"
     /\ \/ s = None
           /\ th' = [th EXCEPT ![t].board = Daily[th[t].date], ![t].pc = "guard"]
        \/ s # None /\ sess[s].state = "finished" /\ Return(t)
        \/ s # None /\ sess[s].state = "active"
           /\ th' = [th EXCEPT ![t].board = sess[s].board,
                               ![t].date = sess[s].date,
                               ![t].pid = sess[s].player, ![t].pc = "guard"]
     /\ UNCHANGED <<tables, clients>>

\* Mutant of Guard: only requests that carry a username are checked.
GuardByName(t) ==
  /\ th[t].pc = "guard"
  /\ IF \E p \in Named(th[t].user) : HasCompleted(p, th[t].date)
     THEN Return(t) ELSE Goto(t, "apply")
  /\ UNCHANGED <<tables, clients>>

\* The replay guard: 403 when the player of the session, or of the username
\* when there is no session, has completed the day.
Guard(t) ==
  LET checked == IF th[t].sid # None THEN {th[t].pid} ELSE Named(th[t].user)
  IN /\ th[t].pc = "guard"
     /\ \/ \E p \in checked : HasCompleted(p, th[t].date) /\ Return(t)
        \/ /\ checked = {} \/ \E p \in checked : ~HasCompleted(p, th[t].date)
           /\ Goto(t, "apply")
     /\ UNCHANGED <<tables, clients>>

\* _validate_and_get_cards refuses indices that are out of range or no set.
Reject(t) ==
  /\ th[t].pc = "apply"
  /\ Return(t)
  /\ UNCHANGED <<tables, clients>>

Continue(t) == IF th[t].solo THEN Goto(t, "standalone") ELSE Return(t)

\* A valid submission without a session changes no table.
ApplyToDaily(t) ==
  /\ th[t].pc = "apply" /\ th[t].sid = None
  /\ HasSet(th[t].board)
  /\ Continue(t)
  /\ UNCHANGED <<tables, clients>>

\* The commit of a valid submission, for the mutants of Play: what it makes of
\* the row, whether it adds the FoundSet row, and whether it ends the game.
PlayWith(t, S, row, rows, last) ==
  LET s == th[t].sid
  IN /\ th[t].pc = "apply" /\ s # None
     /\ S \subseteq th[t].board
     /\ sess' = [sess EXCEPT ![s] = row]
     /\ found' = [found EXCEPT ![s] = rows]
     /\ IF last THEN Goto(t, "record") ELSE Continue(t)
     /\ UNCHANGED <<name, completions, clients>>

PlayedRow(t, S, state) ==
  [sess[th[t].sid] EXCEPT !.board = th[t].board \ S, !.state = state]
StateAfter(t, last) ==
  IF last THEN "finished" ELSE sess[th[t].sid].state
Exhausts(t, S) == ~HasSet(th[t].board \ S)
RowsWith(t, S) == Append(found[th[t].sid], S)

\* Mutant of Play: the FoundSet row is lost, as its try/except would allow.
PlayUnrecorded(t, S) ==
  PlayWith(t, S, PlayedRow(t, S, StateAfter(t, Exhausts(t, S))),
           found[th[t].sid], Exhausts(t, S))

\* Mutant of Play: looks for remaining sets before it removes the cards.
PlayLookingFirst(t, S) ==
  LET last == ~HasSet(th[t].board)
  IN PlayWith(t, S, PlayedRow(t, S, StateAfter(t, last)), RowsWith(t, S), last)

\* Mutant of Play: the finished flag is left to a later commit.
PlayUnfinished(t, S) ==
  PlayWith(t, S, PlayedRow(t, S, StateAfter(t, FALSE)), RowsWith(t, S),
           Exhausts(t, S))

\* Mutant of Play: writes the whole row, the loaded flag included.
PlayWholeRow(t, S) ==
  PlayWith(t, S,
           PlayedRow(t, S, IF Exhausts(t, S) THEN "finished" ELSE "active"),
           RowsWith(t, S), Exhausts(t, S))

\* Mutant of Play: the cards stay on the board when sets remain.
PlayKeepingCards(t, S) ==
  LET last == Exhausts(t, S)
  IN PlayWith(t, S,
              IF last THEN PlayedRow(t, S, "finished") ELSE sess[th[t].sid],
              RowsWith(t, S), last)

\* Mutant of Play: fewer than six cards left count as the end of the game.
PlayToSix(t, S) ==
  LET last == Exhausts(t, S) \/ Cardinality(th[t].board \ S) < 6
  IN PlayWith(t, S, PlayedRow(t, S, StateAfter(t, last)), RowsWith(t, S), last)

\* _apply_session_changes: one commit writes the loaded board without the set,
\* the FoundSet row and, when no set remains, the finished flag.
Play(t, S) ==
  LET s    == th[t].sid
      rest == th[t].board \ S
      last == ~HasSet(rest)
  IN /\ th[t].pc = "apply" /\ s # None
     /\ S \subseteq th[t].board
     /\ sess' = [sess EXCEPT ![s].board = rest,
                             ![s].state = IF last THEN "finished" ELSE @]
     /\ found' = [found EXCEPT ![s] = Append(@, S)]
     /\ IF last THEN Goto(t, "record") ELSE Continue(t)
     /\ UNCHANGED <<name, completions, clients>>

\* crud.record_time: one row, one commit.
Record(p, d, s) ==
  completions' = Append(completions, [player |-> p, date |-> d, by |-> s])

\* Mutant of RecordSession: no time unless the request brought its seconds.
RecordSessionIfTimed(t) ==
  /\ th[t].pc = "record"
  /\ \/ th[t].solo /\ Record(th[t].pid, th[t].date, th[t].sid)
     \/ ~th[t].solo /\ UNCHANGED completions
  /\ Continue(t)
  /\ UNCHANGED <<name, sess, found, clients>>

\* The end of _handle_session_completion, a second commit.
RecordSession(t) ==
  /\ th[t].pc = "record"
  /\ Record(th[t].pid, th[t].date, th[t].sid)
  /\ Continue(t)
  /\ UNCHANGED <<name, sess, found, clients>>

\* _maybe_record_standalone: a time for the player of the username, if any.
RecordStandalone(t) ==
  /\ th[t].pc = "standalone"
  /\ \/ \E p \in Named(th[t].user) : Record(p, th[t].date, None)
     \/ Named(th[t].user) = {} /\ UNCHANGED completions
  /\ Return(t)
  /\ UNCHANGED <<name, sess, found, clients>>

-----------------------------------------------------------------------------
(* POST /api/complete: the lookup of the player and the commit of the row.   *)
(* A player once found stays, so the lookup may as well happen last.         *)
CompleteDaily(t) ==
  /\ \E u \in Names, d \in Dates :
       /\ Admissible(t, [Idle EXCEPT !.user = u])
       /\ DirectRoom
       /\ \E p \in Named(u) : Record(p, d, None)
  /\ UNCHANGED <<name, sess, found, clients, th>>

-----------------------------------------------------------------------------
\* The database raises (a locked file, a dropped connection) or the process
\* dies: what the handler has not committed is lost, and its response.
Die(t) ==
  /\ Faults
  /\ th[t].pc # "idle"
  /\ Return(t)
  /\ UNCHANGED <<tables, clients>>

Request(t) == StartRequest(t) \/ SubmitRequest(t) \/ CompleteDaily(t)
StartStep(t) ==
  \/ Resolve(t) \/ Register(t) \/ CheckStart(t) \/ FindActive(t)
  \/ NewSession(t) \/ CreateSession(t)
SubmitStep(t) ==
  \/ Load(t) \/ Guard(t) \/ Reject(t) \/ ApplyToDaily(t)
  \/ \E S \in ValidSets : Play(t, S)
  \/ RecordSession(t) \/ RecordStandalone(t)
Next ==
  \/ \E t \in Threads : Request(t) \/ StartStep(t) \/ SubmitStep(t) \/ Die(t)
  \/ GetCurrentSession

Spec == Init /\ [][Next]_vars

\* The pool runs the handlers it admitted; nothing obliges a client to ask.
Fairness == \A t \in Threads : WF_vars(StartStep(t) \/ SubmitStep(t))
FairSpec == Spec /\ Fairness

-----------------------------------------------------------------------------
(* What holds however the requests interleave, deaths included *)

FoundIn(s) == {found[s][i] : i \in DOMAIN found[s]}

Disjoint(won) == \A S, T \in won : S # T => S \cap T = {}

Reachable(board, s) ==
  \E won \in SUBSET FoundIn(s) :
    /\ Disjoint(won)
    /\ UNION won \subseteq Daily[sess[s].date]
    /\ board = Daily[sess[s].date] \ UNION won

\* Every stored board is one that play can reach: the day's board without some
\* of the sets found in the session, pairwise disjoint.  Lost updates put
\* cards back on a board; they never make up a board.  (main.py:1034-1040)
LegalBoards ==
  \A s \in Sids : sess[s].state # "absent" => Reachable(sess[s].board, s)

\* A session a player can still be given back has a set left to find: no
\* interleaving strands a player on a board that cannot be finished, since
\* the commit that writes such a board writes the flag.  (main.py:1058-1063)
NeverStranded ==
  \A s \in Sids : sess[s].state = "active" => HasSet(sess[s].board)

\* A finished session stays finished, whatever stale copy of its row another
\* handler commits later: the commit writes the board alone.  (crud.py:183)
FinishedForGood ==
  [][\A s \in Sids : sess[s].state = "finished" => sess'[s].state = "finished"]_vars

\* A session's time is recorded for its player and day, and only once the
\* session is finished.  (main.py:980-1006)
TimeAfterFinish ==
  \A i \in DOMAIN completions : completions[i].by # None =>
    LET row == sess[completions[i].by]
    IN /\ row.state = "finished"
       /\ row.player = completions[i].player
       /\ row.date = completions[i].date

\* What a handler holds agrees with the tables: it works for a player and a
\* day that exist, it inserts under an id no row and no other handler has, the
\* row it submits to exists and is the player's, the copy of the board it
\* loaded is one that play can reach, however stale, and what it records is
\* the end of a finished session.
InStep(h) ==
  /\ h.pc # "idle" /\ (h.sid = None \/ h.pc = "create") => h.date \in Dates
  /\ h.pc \in {"check", "find", "new", "create"} => h.pid \in Players
  /\ h.pc = "create" => h.sid \in Sids /\ sess[h.sid].state = "absent"
  /\ h.pc \in {"resolve", "register", "check", "find", "new"} => h.sid = None
  /\ h.pc \in {"load", "guard", "apply", "record", "standalone"}
       /\ h.sid # None => sess[h.sid].state # "absent"
  /\ h.pc \in {"guard", "apply", "record", "standalone"} /\ h.sid # None =>
       h.pid = sess[h.sid].player /\ h.date = sess[h.sid].date
  /\ h.pc \in {"guard", "apply"} /\ h.sid # None => Reachable(h.board, h.sid)
  /\ h.pc = "record" => h.sid # None /\ sess[h.sid].state = "finished"

HandlersInStep ==
  /\ \A t \in Threads : InStep(th[t])
  /\ \A t, r \in Threads :
       th[t].pc = "create" /\ th[r].pc = "create" /\ th[t].sid = th[r].sid
         => t = r

\* Rows that exist are complete, and clients only hold sessions that exist.
RowsComplete ==
  /\ \A s \in Sids : sess[s].state # "absent" =>
       sess[s].player \in Players /\ sess[s].date \in Dates
  /\ \A s \in handed : sess[s].state # "absent"

\* The inductive invariant behind the four properties of states above.
Inv ==
  /\ TypeOK
  /\ RowsComplete
  /\ HandlersInStep
  /\ LegalBoards
  /\ NeverStranded
  /\ TimeAfterFinish

-----------------------------------------------------------------------------
(* What holds when the requests of one player do not overlap *)

\* The sets recorded for a session are disjoint, and with the cards left they
\* make up the day's board: no set is counted twice, and none is lost.  The
\* leaderboard rewards a player by the count of these rows.  (main.py:1044-1053)
CardsAccountedFor ==
  \A s \in Sids : sess[s].state # "absent" =>
    LET rows == found[s]
    IN /\ \A i, j \in DOMAIN rows : i # j => rows[i] \cap rows[j] = {}
       /\ sess[s].board = Daily[sess[s].date] \ UNION FoundIn(s)

\* A finished session has no set left on its board.  (main.py:1058-1060)
FinishedIsExhausted ==
  \A s \in Sids : sess[s].state = "finished" => ~HasSet(sess[s].board)

\* A player has one unfinished session a day at most.  (main.py:798-804)
OneActiveSession ==
  \A s, r \in Sids :
    /\ sess[s].state = "active" /\ sess[r].state = "active"
    /\ sess[s].player = sess[r].player /\ sess[s].date = sess[r].date
    => s = r

\* Sessions give a player one time a day at most, even when a death between
\* the two commits of a completion lets the player start anew.
\* (main.py:795, main.py:981, main.py:1006)
OneSessionTimePerDay ==
  \A i, j \in DOMAIN completions :
    /\ completions[i].by # None /\ completions[j].by # None
    /\ completions[i].player = completions[j].player
    /\ completions[i].date = completions[j].date
    => i = j

\* No set is accepted in a session once its player has completed the day.
\* (main.py:1084)
NoPlayAfterCompletion ==
  [][\A s \in Sids : found'[s] # found[s] =>
       ~HasCompleted(sess[s].player, sess[s].date)]_vars

\* No session is created once its player has completed the day.  (main.py:794)
NoSessionAfterCompletion ==
  [][\A s \in Sids : sess[s].state = "absent" /\ sess'[s].state # "absent" =>
       ~HasCompleted(sess'[s].player, sess'[s].date)]_vars

-----------------------------------------------------------------------------
(* The abstract play that this implements when the requests of one player   *)
(* do not overlap.  A game is the last session of its player and day; what   *)
(* handlers hold, rows of players and who holds which session are hidden.    *)

SessionsOf(g) ==
  {s \in Sids : /\ sess[s].state # "absent"
                /\ sess[s].player = g[1] /\ sess[s].date = g[2]}

Phase(state) ==
  CASE state = "active"   -> "playing"
    [] state = "finished" -> "over"
    [] OTHER              -> "none"

GameOf(g) ==
  LET mine == SessionsOf(g)
      last == CHOOSE s \in mine : \A r \in mine : r <= s
      row  == IF mine = {} THEN NoSession ELSE sess[last]
  IN [phase |-> IF HasCompleted(g[1], g[2]) THEN "done" ELSE Phase(row.state),
      round |-> Cardinality(mine),
      table |-> row.board,
      won   |-> IF mine = {} THEN {} ELSE FoundIn(last)]

games == [g \in Players \X Dates |-> GameOf(g)]

Atomic == INSTANCE AtomicPlay WITH game <- games

\* Every step of the handlers, seen as above, is a step of the abstract play or
\* none at all: each request takes effect at one moment, at a board and a
\* completion that are current at that moment.  (main.py:785-811, 1076-1097)
PlaysAtomically == Atomic!GameSpec

-----------------------------------------------------------------------------
\* While nothing dies, the time of a finished session is recorded in the end:
\* whoever finishes a session goes on to record it.  (main.py:979-1006)
FinishedGetsTime ==
  \A s \in Sids : sess[s].state = "finished" ~>
    \E i \in DOMAIN completions : completions[i].by = s
=============================================================================
