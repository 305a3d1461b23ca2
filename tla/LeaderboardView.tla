--------------------------- MODULE LeaderboardView ---------------------------
(***************************************************************************)
(* The leaderboard of the web client (frontend/src/components/            *)
(* Leaderboard.tsx in LeaderboardPanel.tsx): it fetches when it is mounted *)
(* and again when its WebSocket tells of a change, and it shows the sets   *)
(* of the player that is clicked.                                          *)
(*                                                                         *)
(* GET /api/leaderboard answers from its cache, as in LeaderboardCache; a  *)
(* completion is committed, drops the cached leaderboard and is told of,   *)
(* in three steps, and its handler may go no further after any of them.    *)
(*                                                                         *)
(* A leaderboard is known by the number of completions it counts, the sets *)
(* of a player by the player.  Answers arrive in any order, or fail, or    *)
(* stop in the middle.  What arrives for a component that is no longer     *)
(* mounted changes nothing.                                                *)
(***************************************************************************)
EXTENDS Integers, Sequences, FiniteSetsExt

CONSTANTS
  Users,        \* players on the leaderboard
  Fetches,      \* bound: reads of the leaderboard under way
  MaxAsks,      \* bound: fetches of found sets under way
  Sockets,      \* bound: sockets that are not quite gone
  MaxRows,      \* bound: completions
  RetryFirst,   \* the first delay before a new connection, 800 ms
  RetryLast,    \* the longest delay, 5000 ms
  None          \* no leaderboard, no player

ASSUME RetryAssumption ==
  /\ RetryFirst \in Nat /\ RetryLast \in Nat
  /\ RetryFirst <= RetryLast
ASSUME RowsAssumption == MaxRows \in Nat
ASSUME NoneIsNothing == None \notin Users

VARIABLES
  rows,         \* the completions the server has
  stage,        \* how far the handler of each completion is
  cache,        \* the cached leaderboard
  mounted,      \* the leaderboard is on the page
  view,         \* what it holds of the leaderboard
  panel,        \* what it holds of a player's sets
  fetches,      \* requests to /api/leaderboard, other clients' included
  asks,         \* the requests to /api/found_sets for each player
  refetchTimer, \* a fetch is due
  sockets,      \* the WebSockets
  wsRetryTimer, \* a connection is due
  retryDelay,
  inbox,        \* events that are under way to the open socket
  seen          \* history: what the leaderboard could know

serverVars == <<rows, stage, cache>>
socketVars == <<sockets, wsRetryTimer, retryDelay, inbox>>
vars == <<rows, stage, cache, mounted, view, panel, fetches, asks, refetchTimer,
          sockets, wsRetryTimer, retryDelay, inbox, seen>>

Counts == 0 .. MaxRows
View == [data : Counts \cup {None}, loading : BOOLEAN, error : BOOLEAN]
Panel ==
  [selectedUser : Users \cup {None}, userSets : Users \cup {None},
   userSetsError : BOOLEAN, userSetsLoading : BOOLEAN,
   mixed : BOOLEAN]    \* history: another player's sets were under way
Entry ==
  [rows : Counts,
   late : BOOLEAN]     \* history: a completion it does not count had dropped
                       \* the cached leaderboard before it was put there
Fetch ==
  [what : {"free", "asked", "missed", "read", "served", "stalled"},
   heard : BOOLEAN,    \* this page waits for the answer
   rows : Counts]
Socket ==
  [state : {"none", "connecting", "open", "closing"},
   alive : BOOLEAN]    \* of the effect that opened it
Seen ==
  [owed : Counts,      \* the completions that events told of, until an answer
                       \* counts them or a fetch fails
   told : Counts,      \* the most that an event told of
   newest : Counts,    \* the most that an answer counted
   late : BOOLEAN]     \* an answer came from a late entry

TypeOK ==
  /\ rows \in Counts
  /\ stage \in [1 .. MaxRows -> {"none", "committed", "dropped", "told"}]
  /\ cache \in Entry \cup {None}
  /\ mounted \in BOOLEAN
  /\ view \in View
  /\ panel \in Panel
  /\ fetches \in [Fetches -> Fetch]
  /\ asks \in [Users -> Nat]
  /\ refetchTimer \in BOOLEAN
  /\ sockets \in [Sockets -> Socket]
  /\ wsRetryTimer \in BOOLEAN
  /\ retryDelay \in RetryFirst .. RetryLast
  /\ inbox \in Seq(Counts)
  /\ seen \in Seen

NewView == [data |-> None, loading |-> TRUE, error |-> FALSE]
NewPanel ==
  [selectedUser |-> None, userSets |-> None, userSetsError |-> FALSE,
   userSetsLoading |-> FALSE, mixed |-> FALSE]
NoFetch == [what |-> "free", heard |-> FALSE, rows |-> 0]
NoSocket == [state |-> "none", alive |-> FALSE]
NothingSeen == [owed |-> 0, told |-> 0, newest |-> 0, late |-> FALSE]

Init ==
  /\ rows = 0
  /\ stage = [n \in 1 .. MaxRows |-> "none"]
  /\ cache = None
  /\ mounted = FALSE
  /\ view = NewView
  /\ panel = NewPanel
  /\ fetches = [f \in Fetches |-> NoFetch]
  /\ asks = [u \in Users |-> 0]
  /\ refetchTimer = FALSE
  /\ sockets = [w \in Sockets |-> NoSocket]
  /\ wsRetryTimer = FALSE
  /\ retryDelay = RetryFirst
  /\ inbox = <<>>
  /\ seen = NothingSeen

Pending == {f \in Fetches : fetches[f].heard}
Gone == {w \in Sockets : sockets[w].state = "none"}
Alive == {w \in Sockets : sockets[w].alive}
Connected == {w \in Alive : sockets[w].state = "open"}

-----------------------------------------------------------------------------
(* The connection *)

\* Mutant of Longer: the delay grows without bound.
LongerUncapped(delay) == (delay * 3) \div 2

Longer(delay) ==
  IF (delay * 3) \div 2 < RetryLast THEN (delay * 3) \div 2 ELSE RetryLast

\* A socket is made, or cannot be: then it is tried again later.
Connect(delay) ==
  \/ /\ Gone # {}
     /\ sockets' = [sockets EXCEPT ![CHOOSE w \in Gone : TRUE] =
          [state |-> "connecting", alive |-> TRUE]]
     /\ wsRetryTimer' = FALSE
     /\ retryDelay' = delay
  \/ /\ wsRetryTimer' = TRUE
     /\ retryDelay' = Longer(delay)
     /\ UNCHANGED sockets

RetryTimer ==
  /\ wsRetryTimer
  /\ Connect(retryDelay)
  /\ UNCHANGED <<serverVars, mounted, view, panel, fetches, asks, refetchTimer,
                 inbox, seen>>

\* onopen
SocketOpens(w) ==
  /\ sockets[w].state = "connecting"
  /\ sockets' = [sockets EXCEPT ![w].state = "open"]
  /\ retryDelay' = RetryFirst
  /\ UNCHANGED <<serverVars, mounted, view, panel, fetches, asks, refetchTimer,
                 wsRetryTimer, inbox, seen>>

\* onclose; what was under way is lost.  The socket of an effect that was
\* cleaned up is not replaced.
SocketCloses(w) ==
  /\ sockets[w].state # "none"
  /\ sockets' = [sockets EXCEPT ![w] = NoSocket]
  /\ IF sockets[w].alive
     THEN /\ wsRetryTimer' = TRUE
          /\ retryDelay' = Longer(retryDelay)
          /\ inbox' = <<>>
     ELSE UNCHANGED <<wsRetryTimer, retryDelay, inbox>>
  /\ UNCHANGED <<serverVars, mounted, view, panel, fetches, asks, refetchTimer,
                 seen>>

\* onPageHide, and onerror: the socket is closed, and its onclose follows.
Hang(w) ==
  /\ sockets[w].alive /\ sockets[w].state \in {"connecting", "open"}
  /\ sockets' = [sockets EXCEPT ![w].state = "closing"]
  /\ UNCHANGED <<serverVars, mounted, view, panel, fetches, asks, refetchTimer,
                 wsRetryTimer, retryDelay, inbox, seen>>

-----------------------------------------------------------------------------
(* The leaderboard *)

\* Where the next request is kept: a free place if there is one.
Room ==
  CHOOSE f \in Fetches \ Pending :
    \A g \in Fetches \ Pending :
      fetches[f].what = "free" \/ fetches[g].what # "free"

\* fetchNow.  Bound: where the page does not wait for a read, its handler may die
\* to make room.
FetchNow ==
  /\ Fetches \ Pending # {}
  /\ fetches' = [fetches EXCEPT
       ![Room] = [what |-> "asked", heard |-> TRUE, rows |-> 0]]
  /\ view' = [view EXCEPT !.loading = TRUE, !.error = FALSE]

\* The panel is opened, or its daily tab chosen: both effects run.
Mount ==
  /\ ~mounted
  /\ mounted' = TRUE
  /\ FetchNow
  /\ Connect(RetryFirst)
  /\ UNCHANGED <<serverVars, panel, asks, refetchTimer, inbox, seen>>

\* Mutant of Cleanup: the socket still counts as the effect's when it closes.
CleanupUnmarked ==
  sockets' = [w \in Sockets |->
    IF sockets[w].alive THEN [state |-> "closing", alive |-> TRUE]
    ELSE sockets[w]]

\* alive is cleared, and the socket closed.
Cleanup ==
  sockets' = [w \in Sockets |->
    IF sockets[w].alive THEN [state |-> "closing", alive |-> FALSE]
    ELSE sockets[w]]

\* What is left of a fetch that the page has given up: a handler that reads on.
Abandoned(r) ==
  IF r.what \in {"asked", "missed", "read"}
  THEN [r EXCEPT !.heard = FALSE] ELSE NoFetch

\* Escape, the backdrop, or another tab: the cleanups of both effects.
Unmount ==
  /\ mounted
  /\ mounted' = FALSE
  /\ view' = NewView
  /\ panel' = NewPanel
  /\ fetches' = [f \in Fetches |-> Abandoned(fetches[f])]
  /\ asks' = [u \in Users |-> 0]
  /\ refetchTimer' = FALSE
  /\ Cleanup
  /\ wsRetryTimer' = FALSE
  /\ retryDelay' = RetryFirst
  /\ inbox' = <<>>
  /\ seen' = NothingSeen
  /\ UNCHANGED serverVars

\* Mutant of ScheduleRefetch: nothing is scheduled while a fetch is under way.
ScheduleUnlessLoading == refetchTimer' = (refetchTimer \/ ~view.loading)

\* A refetch that is scheduled already is the one.
ScheduleRefetch == refetchTimer' = TRUE

Larger(m, n) == IF m > n THEN m ELSE n

\* onmessage, of a completion or a leaderboard_change.
Message ==
  /\ Connected # {} /\ inbox # <<>>
  /\ inbox' = Tail(inbox)
  /\ seen' = [seen EXCEPT !.owed = Larger(@, Head(inbox)),
                          !.told = Larger(@, Head(inbox))]
  /\ ScheduleRefetch
  /\ UNCHANGED <<serverVars, mounted, view, panel, fetches, asks, sockets,
                 wsRetryTimer, retryDelay>>

RefetchTimer ==
  /\ refetchTimer
  /\ refetchTimer' = FALSE
  /\ FetchNow
  /\ UNCHANGED <<serverVars, mounted, panel, asks, socketVars, seen>>

DeliverFetch(f) ==
  /\ fetches[f].what = "served"
  /\ fetches' = [fetches EXCEPT ![f] = NoFetch]
  /\ view' = [view EXCEPT !.data = fetches[f].rows, !.loading = FALSE]
  /\ seen' = [seen EXCEPT
       !.newest = Larger(@, fetches[f].rows),
       !.owed = IF fetches[f].rows >= @ THEN 0 ELSE @]
  /\ UNCHANGED <<serverVars, mounted, panel, asks, refetchTimer, socketVars>>

\* Mutant of Failed: the skeleton stays.
FailedLoading == [view EXCEPT !.error = TRUE]

Failed == [view EXCEPT !.error = TRUE, !.loading = FALSE]

\* The request fails, or its headers do not come in time.
FailFetch(f) ==
  /\ f \in Pending /\ fetches[f].what # "stalled"
  /\ fetches' = [fetches EXCEPT ![f] = Abandoned(@)]
  /\ view' = Failed
  /\ seen' = [seen EXCEPT !.owed = 0]
  /\ UNCHANGED <<serverVars, mounted, panel, asks, refetchTimer, socketVars>>

\* The headers come and the body never ends: enhancedFetch has dropped its
\* timeout with the headers.
Stall(f) ==
  /\ fetches[f].what = "served"
  /\ fetches' = [fetches EXCEPT ![f].what = "stalled"]
  /\ UNCHANGED <<serverVars, mounted, view, panel, asks, refetchTimer,
                 socketVars, seen>>

-----------------------------------------------------------------------------
(* The server *)

pageVars == <<mounted, view, panel, asks, refetchTimer, socketVars>>

\* A leaderboard of v completions was out of date at the last invalidation.
Stale(v) ==
  \E n \in 1 .. MaxRows : n > v /\ stage[n] \in {"dropped", "told"}

\* Another client asks for the leaderboard.
AskElsewhere ==
  /\ \E f \in Fetches \ Pending : fetches[f].what = "free"
  /\ fetches' = [fetches EXCEPT
       ![Room] = [what |-> "asked", heard |-> FALSE, rows |-> 0]]
  /\ UNCHANGED <<serverVars, pageVars, seen>>

Answer(f, v) ==
  fetches' = [fetches EXCEPT
    ![f] = IF @.heard THEN [what |-> "served", heard |-> TRUE, rows |-> v]
           ELSE NoFetch]

\* The handler looks into the cache.
Hit(f) ==
  /\ fetches[f].what = "asked"
  /\ cache # None
  /\ Answer(f, cache.rows)
  /\ seen' = [seen EXCEPT !.late = @ \/ (fetches[f].heard /\ cache.late)]
  /\ UNCHANGED <<serverVars, pageVars>>

Miss(f) ==
  /\ fetches[f].what = "asked"
  /\ cache = None
  /\ fetches' = [fetches EXCEPT ![f].what = "missed"]
  /\ UNCHANGED <<serverVars, pageVars, seen>>

\* crud.get_leaderboard
Query(f) ==
  /\ fetches[f].what = "missed"
  /\ fetches' = [fetches EXCEPT ![f].what = "read", ![f].rows = rows]
  /\ UNCHANGED <<serverVars, pageVars, seen>>

Fill(f) ==
  /\ fetches[f].what = "read"
  /\ cache' = [rows |-> fetches[f].rows, late |-> Stale(fetches[f].rows)]
  /\ Answer(f, fetches[f].rows)
  /\ UNCHANGED <<rows, stage, pageVars, seen>>

\* Five minutes are over, or the server was restarted.
Expire ==
  /\ cache # None
  /\ cache' = None
  /\ UNCHANGED <<rows, stage, pageVars, fetches, seen>>

\* record_time, in the handler of the submission that ends a session or in that
\* of complete_daily: the commit.
Complete ==
  /\ rows < MaxRows
  /\ rows' = rows + 1
  /\ stage' = [stage EXCEPT ![rows + 1] = "committed"]
  /\ UNCHANGED <<cache, pageVars, fetches, seen>>

\* Mutant of Invalidate: the cached leaderboard stays.
InvalidateNothing(n) ==
  /\ stage[n] = "committed"
  /\ stage' = [stage EXCEPT ![n] = "dropped"]
  /\ UNCHANGED <<rows, cache, pageVars, fetches, seen>>

\* Then the cached leaderboard of the day is dropped ...
Invalidate(n) ==
  /\ stage[n] = "committed"
  /\ stage' = [stage EXCEPT ![n] = "dropped"]
  /\ cache' = None
  /\ UNCHANGED <<rows, pageVars, fetches, seen>>

\* ... and the completion told of, to the sockets that are open; the
\* leaderboard_change that may follow at once is one event with it.  A handler that
\* finds no event loop in its thread, as in the thread of a pool, tells nobody.
Tell(n) ==
  /\ stage[n] = "dropped"
  /\ stage' = [stage EXCEPT ![n] = "told"]
  /\ \/ inbox' = inbox
     \/ Connected # {} /\ inbox' = Append(inbox, n)
  /\ UNCHANGED <<rows, cache, mounted, view, panel, fetches, asks, refetchTimer,
                 sockets, wsRetryTimer, retryDelay, seen>>

-----------------------------------------------------------------------------
(* The sets of a player *)

TableShown == mounted /\ ~view.loading /\ ~view.error /\ view.data \notin {None, 0}

\* Mutant of Selected: the sets of the player before stay until the answer.
SelectedKeeping(u) ==
  [panel EXCEPT !.selectedUser = u, !.userSetsError = FALSE,
                !.userSetsLoading = TRUE,
                !.mixed = \E v \in Users \ {u} : asks[v] > 0]

Selected(u) ==
  [panel EXCEPT !.selectedUser = u, !.userSets = None,
                !.userSetsError = FALSE, !.userSetsLoading = TRUE,
                !.mixed = \E v \in Users \ {u} : asks[v] > 0]

\* onClickUser; a click on the name is one on the row as well, and asks twice.
ClickUser(u) ==
  /\ TableShown
  /\ panel' = Selected(u)
  /\ \E k \in {1, 2} :
       /\ k + MapThenSumSet(LAMBDA v : asks[v], Users) <= MaxAsks
       /\ asks' = [asks EXCEPT ![u] = @ + k]
  /\ UNCHANGED <<serverVars, mounted, view, fetches, refetchTimer, socketVars, seen>>

CloseUser ==
  /\ TableShown /\ panel.selectedUser # None
  /\ panel' = [panel EXCEPT !.selectedUser = None, !.userSets = None,
                            !.mixed = FALSE]
  /\ UNCHANGED <<serverVars, mounted, view, fetches, asks, refetchTimer, socketVars,
                 seen>>

\* An answer is taken whoever is selected by then.
AnswerSets(u) ==
  /\ asks[u] > 0
  /\ asks' = [asks EXCEPT ![u] = @ - 1]
  /\ \/ panel' = [panel EXCEPT !.userSets = u, !.userSetsLoading = FALSE]
     \/ panel' = [panel EXCEPT !.userSetsError = TRUE, !.userSetsLoading = FALSE]
  /\ UNCHANGED <<serverVars, mounted, view, fetches, refetchTimer, socketVars, seen>>

-----------------------------------------------------------------------------
Next ==
  \/ RetryTimer \/ Mount \/ Unmount \/ Message \/ RefetchTimer
  \/ \E w \in Sockets : SocketOpens(w) \/ SocketCloses(w) \/ Hang(w)
  \/ \E f \in Fetches : DeliverFetch(f) \/ FailFetch(f) \/ Stall(f)
  \/ AskElsewhere \/ Expire \/ Complete
  \/ \E f \in Fetches : Hit(f) \/ Miss(f) \/ Query(f) \/ Fill(f)
  \/ \E n \in 1 .. MaxRows : Invalidate(n) \/ Tell(n)
  \/ \E u \in Users : ClickUser(u) \/ AnswerSets(u)
  \/ CloseUser

Spec == Init /\ [][Next]_vars

\* The browser fires its timers, and enhancedFetch ends every request whose
\* headers do not come; one whose body does not end is left.
FairSpec ==
  /\ Spec
  /\ WF_vars(RefetchTimer)
  /\ \A f \in Fetches : WF_vars(DeliverFetch(f) \/ FailFetch(f) \/ Stall(f))

-----------------------------------------------------------------------------
\* A mounted leaderboard has one socket or one connection due, an unmounted one
\* has neither (connect, onclose and the cleanup of the effect, with closes
\* that come late): no socket is left behind, none is doubled, and the line is
\* never given up.
OneLine ==
  IF mounted
  THEN IF wsRetryTimer THEN Alive = {} ELSE \E w \in Sockets : Alive = {w}
  ELSE Alive = {} /\ ~wsRetryTimer

\* When nothing is under way, what is shown counts every completion that an
\* event told of: one that arrives during a fetch is not lost (scheduleRefetch,
\* fetchNow), and the cache does not hide it, as it is dropped before the event
\* is sent (record_time).  Not so when an older answer came after a newer one, or
\* when the cache answered with a leaderboard that a slow read had put back after
\* the invalidation (main.py:598): the code has nothing against either.
ShowsCurrent ==
  (/\ mounted /\ Pending = {} /\ ~refetchTimer
   /\ ~view.error /\ ~seen.late /\ view.data = seen.newest) =>
    view.data >= seen.told

\* The skeleton is shown only while an answer is to come (the finally of
\* fetchNow), though fetches overlap.
LoadingHasCause == mounted /\ view.loading => Pending # {}

\* Unless another player's sets were still under way at the click, the panel
\* shows those of the player it names, and has something to say when it has
\* stopped loading (onClickUser, which asks twice when the name is clicked).
PanelMatches ==
  panel.selectedUser # None /\ ~panel.mixed =>
    /\ panel.userSets \in {None, panel.selectedUser}
    /\ \/ panel.userSetsLoading /\ asks[panel.selectedUser] > 0
       \/ panel.userSets # None \/ panel.userSetsError

\* What an event told of is shown in the end, or an error, or the leaderboard is
\* closed: a refetch that is due already serves for later events too.  Only a
\* late entry of the cache, or an answer that stops in the middle, keeps it away.
NotifiedIsShown ==
  seen.owed # 0 ~>
    \/ seen.owed = 0
    \/ seen.late
    \/ \E f \in Fetches : fetches[f].what = "stalled"
=============================================================================
