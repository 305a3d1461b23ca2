----------------------- MODULE LeaderboardView_proofs -----------------------
(***************************************************************************)
(* The promises of the leaderboard on the page, for any number of players, *)
(* requests and sockets and any delays of the reconnection.                *)
(***************************************************************************)
EXTENDS LeaderboardView, FiniteSetTheorems, SequenceTheorems, TLAPS

-----------------------------------------------------------------------------
(* Types *)

\* The delay stays within its bounds.
LEMMA DelayType ==
  \A d \in RetryFirst .. RetryLast : Longer(d) \in RetryFirst .. RetryLast
<1> SUFFICES ASSUME NEW d \in RetryFirst .. RetryLast
             PROVE  Longer(d) \in RetryFirst .. RetryLast
  OBVIOUS
<1>1. d \in Nat /\ RetryFirst <= d
  BY RetryAssumption
<1>2. (d * 3) \div 2 \in Nat /\ (d * 3) \div 2 >= d
  BY <1>1
<1> QED BY <1>1, <1>2, RetryAssumption DEF Longer

\* A connection is made, or due.
LEMMA ConnectType ==
  ASSUME TypeOK, NEW d \in RetryFirst .. RetryLast, Connect(d)
  PROVE  /\ sockets' \in [Sockets -> Socket]
         /\ wsRetryTimer' \in BOOLEAN
         /\ retryDelay' \in RetryFirst .. RetryLast
         /\ \/ ~wsRetryTimer' /\ \E w \in Sockets : Alive' = Alive \cup {w}
            \/ wsRetryTimer' /\ Alive' = Alive
<1>1. ASSUME Gone # {}, NEW w \in Sockets, w = (CHOOSE v \in Gone : TRUE),
             sockets' = [sockets EXCEPT
               ![w] = [state |-> "connecting", alive |-> TRUE]]
      PROVE  sockets' \in [Sockets -> Socket] /\ Alive' = Alive \cup {w}
  <2>1. [state |-> "connecting", alive |-> TRUE] \in Socket
    BY DEF Socket
  <2>2. sockets' \in [Sockets -> Socket]
    BY <1>1, <2>1 DEF TypeOK
  <2>3. sockets'[w].alive /\ \A v \in Sockets \ {w} : sockets'[v] = sockets[v]
    BY <1>1 DEF TypeOK
  <2> QED BY <2>2, <2>3 DEF Alive
<1>2. Gone # {} => (CHOOSE v \in Gone : TRUE) \in Sockets
  BY DEF Gone
<1> QED BY <1>1, <1>2, DelayType DEF Connect, TypeOK, Alive

\* A request is kept where no other one is waited for.
LEMMA RoomType == Fetches \ Pending # {} => Room \in Fetches \ Pending
<1> SUFFICES ASSUME Fetches \ Pending # {} PROVE Room \in Fetches \ Pending
  OBVIOUS
<1>1. \E f \in Fetches \ Pending : \A g \in Fetches \ Pending :
        fetches[f].what = "free" \/ fetches[g].what # "free"
  <2>1. CASE \E f \in Fetches \ Pending : fetches[f].what = "free"
    BY <2>1
  <2>2. CASE \A g \in Fetches \ Pending : fetches[g].what # "free"
    BY <2>2
  <2> QED BY <2>1, <2>2
<1> QED BY <1>1 DEF Room

\* A request is made: the others that are waited for stay.
LEMMA AskType ==
  ASSUME TypeOK, Fetches \ Pending # {}, NEW b \in BOOLEAN,
         fetches' = [fetches EXCEPT
           ![Room] = [what |-> "asked", heard |-> b, rows |-> 0]]
  PROVE  /\ fetches' \in [Fetches -> Fetch]
         /\ Room \in Fetches \ Pending
         /\ fetches'[Room] = [what |-> "asked", heard |-> b, rows |-> 0]
         /\ \A f \in Fetches \ {Room} : fetches'[f] = fetches[f]
         /\ \A f \in Pending : f \in Pending' /\ fetches'[f] = fetches[f]
<1>1. Room \in Fetches \ Pending
  BY RoomType
<1>2. [what |-> "asked", heard |-> b, rows |-> 0] \in Fetch
  BY RowsAssumption DEF Fetch, Counts
<1>3. fetches' \in [Fetches -> Fetch]
  BY <1>1, <1>2 DEF TypeOK
<1>4. /\ fetches'[Room] = [what |-> "asked", heard |-> b, rows |-> 0]
      /\ \A f \in Fetches \ {Room} : fetches'[f] = fetches[f]
  BY <1>1 DEF TypeOK
<1>5. \A f \in Pending : f \in Pending' /\ fetches'[f] = fetches[f]
  BY <1>1, <1>4 DEF Pending
<1> QED BY <1>1, <1>3, <1>4, <1>5

\* fetchNow
LEMMA FetchType ==
  ASSUME TypeOK, FetchNow
  PROVE  /\ fetches' \in [Fetches -> Fetch]
         /\ view' \in View /\ view'.data = view.data /\ ~view'.error
         /\ \E f \in Pending' : fetches'[f].what = "asked"
<1>1. /\ fetches' \in [Fetches -> Fetch] /\ Room \in Fetches
      /\ fetches'[Room] = [what |-> "asked", heard |-> TRUE, rows |-> 0]
  BY AskType DEF FetchNow
<1>2. view' \in View /\ view'.data = view.data /\ ~view'.error
  BY DEF FetchNow, TypeOK, View
<1> QED BY <1>1, <1>2 DEF Pending

\* The values that the page starts with.
LEMMA StartType ==
  /\ NewView \in View /\ NewPanel \in Panel /\ NothingSeen \in Seen
  /\ NoFetch \in Fetch /\ NoSocket \in Socket /\ <<>> \in Seq(Counts)
  /\ RetryFirst \in RetryFirst .. RetryLast
<1>1. 0 \in Counts
  BY RowsAssumption DEF Counts
<1>2. NothingSeen \in Seen /\ NoFetch \in Fetch
  BY <1>1 DEF NothingSeen, Seen, NoFetch, Fetch
<1>3. NewView \in View /\ NewPanel \in Panel /\ NoSocket \in Socket
  BY DEF NewView, View, NewPanel, Panel, NoSocket, Socket
<1> QED BY <1>2, <1>3, RetryAssumption

LEMMA InitType == Init => TypeOK
<1> SUFFICES ASSUME Init PROVE TypeOK
  OBVIOUS
<1>1. /\ fetches \in [Fetches -> Fetch]
      /\ asks \in [Users -> Nat]
      /\ sockets \in [Sockets -> Socket]
  BY StartType DEF Init
<1>2. /\ view \in View /\ panel \in Panel /\ seen \in Seen
      /\ inbox \in Seq(Counts) /\ retryDelay \in RetryFirst .. RetryLast
  BY StartType DEF Init
<1>3. rows \in Counts /\ cache \in Entry \cup {None}
  BY RowsAssumption DEF Init, Counts
<1> QED BY <1>1, <1>2, <1>3 DEF Init, TypeOK

\* What is left of a fetch.
LEMMA AbandonedType ==
  \A r \in Fetch : Abandoned(r) \in Fetch /\ ~Abandoned(r).heard
BY StartType DEF Abandoned, Fetch, NoFetch

LEMMA LargerType == \A m, n \in Counts : Larger(m, n) \in Counts
BY DEF Larger

\* The server answers.
LEMMA AnswerType ==
  ASSUME TypeOK, NEW f \in Fetches, NEW v \in Counts, Answer(f, v)
  PROVE  /\ fetches' \in [Fetches -> Fetch]
         /\ fetches'[f] = (IF fetches[f].heard
              THEN [what |-> "served", heard |-> TRUE, rows |-> v] ELSE NoFetch)
         /\ \A e \in Fetches \ {f} : fetches'[e] = fetches[e]
<1> DEFINE new == IF fetches[f].heard
                  THEN [what |-> "served", heard |-> TRUE, rows |-> v] ELSE NoFetch
<1>2. new \in Fetch
  <2>1. [what |-> "served", heard |-> TRUE, rows |-> v] \in Fetch
    BY DEF Fetch
  <2> QED BY <2>1, StartType
<1>3. fetches' = [fetches EXCEPT ![f] = new]
  BY DEF Answer
<1> QED BY <1>2, <1>3 DEF TypeOK

LEMMA TypeStep == TypeOK /\ [Next]_vars => TypeOK'
<1> SUFFICES ASSUME TypeOK, [Next]_vars PROVE TypeOK'
  OBVIOUS
<1> USE DEF TypeOK
<1>1. CASE RetryTimer
  BY <1>1, ConnectType DEF RetryTimer, serverVars
<1>2. CASE Mount
  BY <1>2, ConnectType, FetchType, StartType DEF Mount, serverVars
<1>3. CASE Unmount
  <2>1. sockets' \in [Sockets -> Socket]
    BY <1>3 DEF Unmount, Cleanup, Socket
  <2>2. fetches' \in [Fetches -> Fetch]
    BY <1>3, AbandonedType DEF Unmount
  <2> QED BY <1>3, <2>1, <2>2, StartType DEF Unmount, serverVars
<1>4. CASE Message
  <2>1. inbox' \in Seq(Counts) /\ Head(inbox) \in Counts
    BY <1>4, HeadTailProperties DEF Message
  <2>2. seen' \in Seen
    BY <1>4, <2>1, LargerType DEF Message, Seen
  <2> QED BY <1>4, <2>1, <2>2 DEF Message, ScheduleRefetch, serverVars
<1>5. CASE RefetchTimer
  BY <1>5, FetchType DEF RefetchTimer, socketVars, serverVars
<1>6. CASE Complete
  <2>1. rows' \in Counts /\ rows + 1 \in 1 .. MaxRows
    BY <1>6, RowsAssumption DEF Complete, Counts
  <2> QED BY <1>6, <2>1 DEF Complete, pageVars, socketVars
<1>7. ASSUME NEW w \in Sockets, SocketOpens(w) PROVE TypeOK'
  <2>1. sockets' \in [Sockets -> Socket]
    BY <1>7 DEF SocketOpens, Socket
  <2> QED BY <1>7, <2>1, StartType DEF SocketOpens, serverVars
<1>8. ASSUME NEW w \in Sockets, SocketCloses(w) PROVE TypeOK'
  <2>1. sockets' \in [Sockets -> Socket]
    BY <1>8, StartType DEF SocketCloses
  <2>3. retryDelay' \in RetryFirst .. RetryLast
    BY <1>8, DelayType DEF SocketCloses
  <2> QED BY <1>8, <2>1, <2>3, StartType DEF SocketCloses, serverVars
<1>9. ASSUME NEW w \in Sockets, Hang(w) PROVE TypeOK'
  <2>1. sockets' \in [Sockets -> Socket]
    BY <1>9 DEF Hang, Socket
  <2> QED BY <1>9, <2>1 DEF Hang, serverVars
<1>10. ASSUME NEW f \in Fetches, Hit(f) PROVE TypeOK'
  <2>1. cache \in Entry /\ cache.rows \in Counts
    BY <1>10 DEF Hit, Entry
  <2>2. fetches' \in [Fetches -> Fetch]
    BY <1>10, <2>1, AnswerType DEF Hit
  <2>3. seen' \in Seen
    BY <1>10, <2>1 DEF Hit, Seen, Entry, Fetch
  <2> QED BY <1>10, <2>2, <2>3 DEF Hit, serverVars, pageVars, socketVars
<1>11. ASSUME NEW f \in Fetches, DeliverFetch(f) PROVE TypeOK'
  <2>1. fetches' \in [Fetches -> Fetch]
    BY <1>11, StartType DEF DeliverFetch
  <2>2. fetches[f].rows \in Counts /\ 0 \in Counts
    BY RowsAssumption DEF Fetch, Counts
  <2>3. view' \in View
    BY <1>11, <2>2 DEF DeliverFetch, View
  <2>4. seen' \in Seen
    BY <1>11, <2>2, LargerType DEF DeliverFetch, Seen
  <2> QED BY <1>11, <2>1, <2>3, <2>4 DEF DeliverFetch, serverVars, socketVars
<1>12. ASSUME NEW f \in Fetches, FailFetch(f) PROVE TypeOK'
  <2>1. fetches' \in [Fetches -> Fetch]
    BY <1>12, AbandonedType DEF FailFetch
  <2>2. view' \in View
    BY <1>12 DEF FailFetch, Failed, View
  <2>3. 0 \in Counts
    BY RowsAssumption DEF Counts
  <2>4. seen' \in Seen
    BY <1>12, <2>3 DEF FailFetch, Seen
  <2> QED BY <1>12, <2>1, <2>2, <2>4 DEF FailFetch, serverVars, socketVars
<1>13. ASSUME NEW u \in Users, ClickUser(u) PROVE TypeOK'
  <2>1. panel' \in Panel
    BY <1>13 DEF ClickUser, Selected, Panel
  <2>2. asks' \in [Users -> Nat]
    BY <1>13 DEF ClickUser
  <2> QED BY <1>13, <2>1, <2>2 DEF ClickUser, serverVars, socketVars
<1>14. CASE CloseUser
  <2>1. panel' \in Panel
    BY <1>14 DEF CloseUser, Panel
  <2> QED BY <1>14, <2>1 DEF CloseUser, serverVars, socketVars
<1>15. ASSUME NEW u \in Users, AnswerSets(u) PROVE TypeOK'
  <2>1. asks' \in [Users -> Nat]
    BY <1>15 DEF AnswerSets
  <2>2. panel' \in Panel
    BY <1>15 DEF AnswerSets, Panel
  <2> QED BY <1>15, <2>1, <2>2 DEF AnswerSets, serverVars, socketVars
<1>17. ASSUME NEW f \in Fetches, Stall(f) PROVE TypeOK'
  <2>1. fetches' \in [Fetches -> Fetch]
    BY <1>17 DEF Stall, Fetch
  <2> QED BY <1>17, <2>1 DEF Stall, serverVars, socketVars
<1>18. CASE AskElsewhere
  <2>1. Fetches \ Pending # {} /\ FALSE \in BOOLEAN
    BY <1>18 DEF AskElsewhere
  <2>2. fetches' \in [Fetches -> Fetch]
    BY <1>18, <2>1, AskType DEF AskElsewhere
  <2> QED BY <1>18, <2>2 DEF AskElsewhere, serverVars, pageVars, socketVars
<1>19. CASE Expire
  BY <1>19 DEF Expire, pageVars, socketVars
<1>20. ASSUME NEW f \in Fetches, Miss(f) PROVE TypeOK'
  <2>1. fetches' \in [Fetches -> Fetch]
    BY <1>20 DEF Miss, Fetch
  <2> QED BY <1>20, <2>1 DEF Miss, serverVars, pageVars, socketVars
<1>21. ASSUME NEW f \in Fetches, Query(f) PROVE TypeOK'
  <2>1. fetches' \in [Fetches -> Fetch]
    BY <1>21 DEF Query, Fetch
  <2> QED BY <1>21, <2>1 DEF Query, serverVars, pageVars, socketVars
<1>22. ASSUME NEW f \in Fetches, Fill(f) PROVE TypeOK'
  <2>1. fetches[f].rows \in Counts /\ Stale(fetches[f].rows) \in BOOLEAN
    BY DEF Fetch, Stale
  <2>2. fetches' \in [Fetches -> Fetch]
    BY <1>22, <2>1, AnswerType DEF Fill
  <2>3. cache' \in Entry
    BY <1>22, <2>1 DEF Fill, Entry
  <2> QED BY <1>22, <2>2, <2>3 DEF Fill, pageVars, socketVars
<1>23. ASSUME NEW n \in 1 .. MaxRows, Invalidate(n) PROVE TypeOK'
  BY <1>23 DEF Invalidate, pageVars, socketVars
<1>24. ASSUME NEW n \in 1 .. MaxRows, Tell(n) PROVE TypeOK'
  <2>1. n \in Counts
    BY DEF Counts
  <2>2. inbox' \in Seq(Counts)
    <3>1. inbox' = inbox \/ inbox' = Append(inbox, n)
      BY <1>24 DEF Tell
    <3>2. Append(inbox, n) \in Seq(Counts)
      <4>1. inbox \in Seq(Counts)
        OBVIOUS
      <4> QED BY <2>1, <4>1, AppendProperties
    <3> QED BY <3>1, <3>2
  <2> QED BY <1>24, <2>2 DEF Tell
<1>16. CASE UNCHANGED vars
  BY <1>16 DEF vars
<1> QED BY <1>1, <1>2, <1>3, <1>4, <1>5, <1>6, <1>7, <1>8, <1>9, <1>10,
           <1>11, <1>12, <1>13, <1>14, <1>15, <1>16, <1>17, <1>18, <1>19, <1>20,
           <1>21, <1>22, <1>23, <1>24 DEF Next

\* Every variable keeps its type; the delay stays within its bounds.
THEOREM TypeCorrect == Spec => []TypeOK
BY InitType, TypeStep, PTL DEF Spec

-----------------------------------------------------------------------------
(* One line *)

LEMMA LineStep == TypeOK /\ OneLine /\ [Next]_vars => OneLine'
<1> SUFFICES ASSUME TypeOK, OneLine, [Next]_vars PROVE OneLine'
  OBVIOUS
<1>a. CASE UNCHANGED <<mounted, sockets, wsRetryTimer>>
  BY <1>a DEF OneLine, Alive
<1>b. ASSUME NEW w \in Sockets, UNCHANGED <<mounted, wsRetryTimer>>,
             NEW st \in {"open", "closing"},
             sockets' = [sockets EXCEPT ![w].state = st]
      PROVE  OneLine'
  <2>1. Alive' = Alive
    BY <1>b DEF Alive, TypeOK, Socket
  <2> QED BY <1>b, <2>1 DEF OneLine
<1>1. CASE RetryTimer
  <2>1. mounted /\ Alive = {}
    BY <1>1 DEF RetryTimer, OneLine
  <2> QED BY <1>1, <2>1, ConnectType DEF RetryTimer, OneLine, TypeOK
<1>2. CASE Mount
  <2>1. Alive = {}
    BY <1>2 DEF Mount, OneLine
  <2> QED BY <1>2, <2>1, ConnectType, StartType DEF Mount, OneLine
<1>3. CASE Unmount
  <2>1. Alive' = {}
    BY <1>3 DEF Unmount, Cleanup, Alive, TypeOK, Socket
  <2> QED BY <1>3, <2>1 DEF Unmount, OneLine
<1>4. CASE Message
  BY <1>4, <1>a DEF Message
<1>5. CASE RefetchTimer
  BY <1>5, <1>a DEF RefetchTimer, socketVars
<1>6. CASE Complete \/ AskElsewhere \/ Expire
  BY <1>6, <1>a DEF Complete, AskElsewhere, Expire, pageVars, socketVars
<1>7. ASSUME NEW w \in Sockets, SocketOpens(w) PROVE OneLine'
  BY <1>7, <1>b DEF SocketOpens
<1>8. ASSUME NEW w \in Sockets, SocketCloses(w) PROVE OneLine'
  <2>1. Alive' = Alive \ {w}
    BY <1>8 DEF SocketCloses, Alive, TypeOK, NoSocket
  <2>2. CASE sockets[w].alive
    <3>1. w \in Alive
      BY <2>2 DEF Alive
    <3>2. mounted /\ Alive = {w}
      BY <3>1 DEF OneLine
    <3>3. Alive' = {} /\ mounted' /\ wsRetryTimer'
      BY <1>8, <2>1, <2>2, <3>2 DEF SocketCloses
    <3> QED BY <3>3 DEF OneLine
  <2>3. CASE ~sockets[w].alive
    <3>1. Alive' = Alive
      BY <2>1, <2>3 DEF Alive
    <3> QED BY <1>8, <2>3, <3>1 DEF SocketCloses, OneLine
  <2> QED BY <2>2, <2>3
<1>9. ASSUME NEW w \in Sockets, Hang(w) PROVE OneLine'
  BY <1>9, <1>b DEF Hang
<1>10. ASSUME NEW f \in Fetches, DeliverFetch(f) \/ FailFetch(f) \/ Stall(f)
       PROVE  OneLine'
  BY <1>10, <1>a DEF DeliverFetch, FailFetch, Stall, socketVars
<1>11. ASSUME NEW u \in Users, ClickUser(u) \/ AnswerSets(u) PROVE OneLine'
  BY <1>11, <1>a DEF ClickUser, AnswerSets, socketVars
<1>12. CASE CloseUser
  BY <1>12, <1>a DEF CloseUser, socketVars
<1>13. ASSUME NEW f \in Fetches, Hit(f) \/ Miss(f) \/ Query(f) \/ Fill(f)
       PROVE  OneLine'
  BY <1>13, <1>a DEF Hit, Miss, Query, Fill, pageVars, socketVars
<1>15. ASSUME NEW n \in 1 .. MaxRows, Invalidate(n) \/ Tell(n) PROVE OneLine'
  BY <1>15, <1>a DEF Invalidate, Tell, pageVars, socketVars
<1>14. CASE UNCHANGED vars
  BY <1>14, <1>a DEF vars
<1> QED BY <1>1, <1>2, <1>3, <1>4, <1>5, <1>6, <1>7, <1>8, <1>9, <1>10,
           <1>11, <1>12, <1>13, <1>14, <1>15 DEF Next

\* A mounted leaderboard has one socket that it listens to or one connection
\* due, an unmounted one neither.
THEOREM LineStaysSingle == Spec => []OneLine
<1>1. Init => OneLine
  BY DEF Init, OneLine, Alive, NoSocket
<1> QED BY <1>1, InitType, TypeStep, LineStep, PTL DEF Spec

-----------------------------------------------------------------------------
(* What is shown *)

\* An event told of this completion, or of none.
Told(n) == n = 0 \/ stage[n] = "told"

\* Completions come one after the other, and only what is committed is told of.
Staged ==
  /\ \A n \in 1 .. MaxRows : stage[n] = "none" <=> n > rows
  /\ \A i \in 1 .. Len(inbox) : Told(inbox[i])
  /\ Told(seen.told)

\* An entry of the cache that is not late counts what was told of.
CacheCounts == cache # None => cache.late \/ ~Stale(cache.rows)

\* This fetch will bring, unless it fails, what the events told of so far.
Good(f) ==
  \/ fetches[f].what \in {"asked", "missed", "stalled"}
  \/ fetches[f].what \in {"read", "served"} /\ fetches[f].rows >= seen.told

\* Something will bring, or has brought, the completions that events told of.
Cause == refetchTimer \/ (\E f \in Pending : Good(f)) \/ seen.newest >= seen.told

Informed == mounted /\ ~seen.late /\ ~view.error => Cause

ShownInv == TypeOK /\ Staged /\ CacheCounts /\ Informed /\ LoadingHasCause

\* A read that starts now counts what was told of; so does a leaderboard that was
\* up to date at the last invalidation.
LEMMA ToldCounts ==
  ASSUME TypeOK, Staged
  PROVE  /\ rows >= seen.told
         /\ \A v \in Counts : ~Stale(v) => v >= seen.told
<1>1. seen.told \in Nat /\ rows \in Nat /\ seen.told <= MaxRows
  BY RowsAssumption DEF TypeOK, Seen, Counts
<1>2. CASE seen.told = 0
  BY <1>1, <1>2, RowsAssumption DEF Counts
<1>3. CASE seen.told # 0 /\ stage[seen.told] = "told"
  <2>1. seen.told \in 1 .. MaxRows
    BY <1>1, <1>3, RowsAssumption
  <2>2. ~(seen.told > rows)
    BY <1>3, <2>1 DEF Staged
  <2>3. ASSUME NEW v \in Counts, ~Stale(v) PROVE v >= seen.told
    <3>1. ~(seen.told > v)
      BY <1>3, <2>1, <2>3 DEF Stale
    <3> QED BY <1>1, <2>3, <3>1, RowsAssumption DEF Counts
  <2> QED BY <1>1, <2>2, <2>3
<1> QED BY <1>2, <1>3 DEF Staged, Told

\* The steps that leave the completions and the cache alone.
LEMMA ServerStays ==
  ASSUME Staged, CacheCounts, UNCHANGED <<rows, stage, cache, inbox>>,
         seen'.told = seen.told
  PROVE  Staged' /\ CacheCounts'
BY DEF Staged, Told, CacheCounts, Stale

\* The steps that leave the requests and what is shown alone.
LEMMA PageStays ==
  ASSUME Informed, LoadingHasCause,
         UNCHANGED <<mounted, view, fetches, refetchTimer, seen>>
  PROVE  Informed' /\ LoadingHasCause'
BY DEF Informed, Cause, Good, LoadingHasCause, Pending

\* A handler moves on with a request: who waits, waits on.
LEMMA HandlerStays ==
  ASSUME ShownInv, NEW f \in Fetches,
         UNCHANGED <<mounted, view, refetchTimer>>,
         seen'.told = seen.told, seen'.newest = seen.newest,
         seen.late => seen'.late,
         \A e \in Fetches \ {f} : fetches'[e] = fetches[e],
         fetches'[f].heard = fetches[f].heard,
         fetches[f].heard => Good(f)' \/ ~Good(f) \/ seen'.late
  PROVE  Informed' /\ LoadingHasCause'
<1>1. Pending' = Pending
  BY DEF Pending
<1>2. LoadingHasCause'
  BY <1>1 DEF LoadingHasCause, ShownInv
<1>3. \A e \in Fetches \ {f} : Good(e) => Good(e)'
  BY DEF Good
<1>4. ASSUME ~seen'.late, mounted, ~view.error PROVE Cause'
  <2>1. Cause
    BY <1>4 DEF ShownInv, Informed
  <2>2. ASSUME NEW e \in Pending, Good(e) PROVE Good(e)'
    <3>1. CASE e = f
      BY <1>4, <2>2, <3>1 DEF Pending
    <3>2. CASE e # f
      BY <1>3, <2>2, <3>2 DEF Pending
    <3> QED BY <3>1, <3>2
  <2> QED BY <1>1, <2>1, <2>2 DEF Cause
<1> QED BY <1>2, <1>4 DEF Informed

LEMMA ShownStep == ShownInv /\ [Next]_vars => ShownInv'
<1> SUFFICES ASSUME ShownInv, [Next]_vars
             PROVE  Staged' /\ CacheCounts' /\ Informed' /\ LoadingHasCause'
  BY TypeStep DEF ShownInv
<1> DEFINE Goal == Staged' /\ CacheCounts' /\ Informed' /\ LoadingHasCause'
<1> USE DEF ShownInv
<1>0. /\ rows \in Nat /\ seen.newest \in Nat /\ seen.told \in Nat
      /\ seen.told \in Counts /\ TypeOK'
      /\ \A f \in Fetches : fetches[f].rows \in Nat /\ fetches[f] \in Fetch
  BY RowsAssumption, TypeStep DEF TypeOK, Counts, Seen, Fetch
<1>1. CASE RetryTimer
  BY <1>1, ServerStays, PageStays DEF RetryTimer, serverVars
<1>2. CASE Mount
  <2>1. \E f \in Pending' : fetches'[f].what = "asked"
    BY <1>2, FetchType DEF Mount
  <2>2. Cause' /\ Pending' # {}
    BY <2>1 DEF Cause, Good
  <2>3. Staged' /\ CacheCounts'
    BY <1>2, ServerStays DEF Mount, serverVars
  <2> QED BY <2>2, <2>3 DEF Informed, LoadingHasCause
<1>3. CASE Unmount
  <2>1. ~mounted' /\ UNCHANGED <<rows, stage, cache>> /\ inbox' = <<>>
    BY <1>3 DEF Unmount, serverVars
  <2>2. seen'.told = 0
    BY <1>3 DEF Unmount, NothingSeen
  <2>3. Staged'
    BY <2>1, <2>2 DEF Staged, Told
  <2>4. CacheCounts'
    BY <2>1 DEF CacheCounts, Stale
  <2> QED BY <2>1, <2>3, <2>4 DEF Informed, LoadingHasCause
<1>4. CASE Message
  <2>1. Cause'
    BY <1>4 DEF Message, ScheduleRefetch, Cause
  <2>2. inbox # <<>> /\ inbox' = Tail(inbox) /\ inbox \in Seq(Counts)
    BY <1>4 DEF Message, TypeOK
  <2>3. /\ Len(inbox) \in Nat \ {0} /\ Len(inbox') = Len(inbox) - 1
        /\ \A i \in 1 .. Len(inbox') : inbox'[i] = inbox[i + 1]
        /\ Head(inbox) = inbox[1] /\ Head(inbox) \in Counts
    BY <2>2, HeadTailProperties, EmptySeq
  <2>4. seen'.told \in {seen.told, inbox[1]}
    BY <1>4, <2>3 DEF Message, TypeOK, Seen, Larger
  <2>5. Told(inbox[1]) /\ Told(seen.told)
    BY <2>3 DEF Staged
  <2>6. \A i \in 1 .. Len(inbox') : Told(inbox'[i])
    <3> SUFFICES ASSUME NEW i \in 1 .. Len(inbox') PROVE Told(inbox'[i])
      OBVIOUS
    <3>1. i + 1 \in 1 .. Len(inbox) /\ inbox'[i] = inbox[i + 1]
      BY <2>3
    <3> QED BY <3>1 DEF Staged
  <2>7. UNCHANGED <<rows, stage, cache, mounted, view, fetches>>
    BY <1>4 DEF Message, serverVars
  <2>8. Staged'
    BY <2>4, <2>5, <2>6, <2>7 DEF Staged, Told
  <2>9. CacheCounts'
    BY <2>7 DEF CacheCounts, Stale
  <2> QED BY <2>1, <2>7, <2>8, <2>9 DEF Informed, LoadingHasCause, Pending
<1>5. CASE RefetchTimer
  <2>1. \E f \in Pending' : fetches'[f].what = "asked"
    BY <1>5, FetchType DEF RefetchTimer
  <2>2. Cause' /\ Pending' # {}
    BY <2>1 DEF Cause, Good
  <2>3. Staged' /\ CacheCounts'
    BY <1>5, ServerStays DEF RetryTimer, RefetchTimer, serverVars, socketVars
  <2> QED BY <2>2, <2>3 DEF Informed, LoadingHasCause
<1>6. CASE Complete
  <2>1. /\ rows' = rows + 1 /\ rows + 1 \in 1 .. MaxRows
        /\ stage' = [stage EXCEPT ![rows + 1] = "committed"]
        /\ UNCHANGED <<cache, inbox, mounted, view, fetches, refetchTimer, seen>>
    BY <1>0, <1>6, RowsAssumption DEF Complete, pageVars, socketVars
  <2>2. stage[rows + 1] = "none"
    BY <1>0, <2>1 DEF Staged
  <2>3. \A n \in 1 .. MaxRows : stage'[n] =
          IF n = rows + 1 THEN "committed" ELSE stage[n]
    BY <2>1 DEF TypeOK
  <2>4. \A n \in Counts : Told(n) => Told(n)'
    BY <2>2, <2>3, RowsAssumption DEF Told, Counts
  <2>5. \A i \in 1 .. Len(inbox) : inbox[i] \in Counts
    BY DEF TypeOK
  <2>6. \A n \in 1 .. MaxRows : stage'[n] = "none" <=> n > rows'
    BY <1>0, <2>1, <2>3 DEF Staged
  <2>7. Staged'
    BY <1>0, <2>1, <2>4, <2>5, <2>6 DEF Staged, Told
  <2>8. CacheCounts'
    BY <2>1, <2>2, <2>3 DEF CacheCounts, Stale
  <2> QED BY <2>1, <2>7, <2>8, PageStays
<1>7. ASSUME NEW w \in Sockets, SocketOpens(w) PROVE Goal
  BY <1>7, ServerStays, PageStays DEF SocketOpens, serverVars
<1>8. ASSUME NEW w \in Sockets, SocketCloses(w) PROVE Goal
  <2>1. UNCHANGED <<rows, stage, cache, mounted, view, fetches, refetchTimer, seen>>
    BY <1>8 DEF SocketCloses, serverVars
  <2>2. inbox' \in {inbox, <<>>}
    BY <1>8 DEF SocketCloses
  <2>3. Staged'
    BY <2>1, <2>2 DEF Staged, Told
  <2>4. CacheCounts'
    BY <2>1 DEF CacheCounts, Stale
  <2> QED BY <2>1, <2>3, <2>4, PageStays
<1>9. ASSUME NEW w \in Sockets, Hang(w) PROVE Goal
  BY <1>9, ServerStays, PageStays DEF Hang, serverVars
<1>10. ASSUME NEW f \in Fetches, Hit(f) PROVE Goal
  <2>1. /\ cache # None /\ cache \in Entry /\ cache.rows \in Counts
        /\ Answer(f, cache.rows)
    BY <1>10 DEF Hit, TypeOK, Entry
  <2>2. /\ UNCHANGED <<rows, stage, cache, inbox, mounted, view, refetchTimer>>
        /\ seen'.told = seen.told /\ seen'.newest = seen.newest
        /\ seen'.late = (seen.late \/ (fetches[f].heard /\ cache.late))
    BY <1>10 DEF Hit, TypeOK, Seen, serverVars, pageVars, socketVars
  <2>3. /\ fetches'[f].heard = fetches[f].heard
        /\ \A e \in Fetches \ {f} : fetches'[e] = fetches[e]
        /\ fetches[f].heard =>
             fetches'[f] = [what |-> "served", heard |-> TRUE, rows |-> cache.rows]
    BY <1>0, <2>1, AnswerType DEF NoFetch, Fetch
  <2>4. fetches[f].heard => Good(f)' \/ seen'.late
    <3>1. ~cache.late => cache.rows >= seen.told
      BY <2>1, ToldCounts DEF CacheCounts
    <3>2. ASSUME fetches[f].heard, ~cache.late PROVE Good(f)'
      <4>1. fetches'[f].what = "served" /\ fetches'[f].rows = cache.rows
        BY <2>3, <3>2
      <4> QED BY <2>2, <3>1, <3>2, <4>1 DEF Good
    <3> QED BY <2>2, <3>2
  <2> QED BY <2>2, <2>3, <2>4, ServerStays, HandlerStays
<1>11. ASSUME NEW f \in Fetches, DeliverFetch(f) PROVE Goal
  <2>1. /\ fetches'[f] = NoFetch
        /\ \A e \in Fetches \ {f} : fetches'[e] = fetches[e]
        /\ UNCHANGED <<rows, stage, cache, inbox, mounted, refetchTimer>>
    BY <1>11 DEF DeliverFetch, TypeOK, serverVars, socketVars
  <2>2. ~view'.loading /\ view'.error = view.error
    BY <1>11 DEF DeliverFetch, TypeOK, View
  <2>3. /\ seen'.newest = Larger(seen.newest, fetches[f].rows)
        /\ seen'.told = seen.told /\ seen'.late = seen.late
    BY <1>11 DEF DeliverFetch, TypeOK, Seen
  <2>4. seen'.newest >= seen.newest /\ seen'.newest >= fetches[f].rows
    BY <1>0, <2>3 DEF Larger
  <2>5. ASSUME mounted, ~seen.late, ~view.error PROVE Cause'
    <3>1. ASSUME NEW e \in Pending, Good(e), e # f PROVE e \in Pending' /\ Good(e)'
      BY <2>1, <2>3, <3>1 DEF Pending, Good
    <3>2. Good(f) => seen'.newest >= seen'.told
      BY <1>0, <1>11, <2>3, <2>4 DEF DeliverFetch, Good, Larger
    <3>3. seen.newest >= seen.told => seen'.newest >= seen'.told
      BY <1>0, <2>3, <2>4 DEF Larger
    <3> QED BY <2>1, <2>5, <3>1, <3>2, <3>3 DEF Informed, Cause
  <2>6. Staged' /\ CacheCounts'
    BY <2>1, <2>3, ServerStays
  <2> QED BY <2>1, <2>2, <2>3, <2>5, <2>6 DEF Informed, LoadingHasCause
<1>12. ASSUME NEW f \in Fetches, FailFetch(f) PROVE Goal
  <2>1. ~view'.loading /\ view'.error
    BY <1>12 DEF FailFetch, Failed, TypeOK, View
  <2>2. seen'.told = seen.told
    BY <1>12 DEF FailFetch, TypeOK, Seen
  <2>3. Staged' /\ CacheCounts'
    BY <1>12, <2>2, ServerStays DEF FailFetch, serverVars, socketVars
  <2> QED BY <2>1, <2>3 DEF Informed, LoadingHasCause
<1>13. ASSUME NEW f \in Fetches, Stall(f) PROVE Goal
  <2>1. /\ fetches'[f].what = "stalled" /\ fetches'[f].heard = fetches[f].heard
        /\ \A e \in Fetches \ {f} : fetches'[e] = fetches[e]
        /\ UNCHANGED <<rows, stage, cache, inbox, mounted, view, refetchTimer, seen>>
    BY <1>13 DEF Stall, TypeOK, Fetch, serverVars, socketVars
  <2>2. Good(f)'
    BY <2>1 DEF Good
  <2> QED BY <2>1, <2>2, ServerStays, HandlerStays
<1>14. CASE AskElsewhere
  <2>1. Fetches \ Pending # {} /\ FALSE \in BOOLEAN
    BY <1>14 DEF AskElsewhere
  <2>2. /\ Room \in Fetches \ Pending /\ ~fetches'[Room].heard
        /\ \A f \in Fetches \ {Room} : fetches'[f] = fetches[f]
    BY <1>14, <2>1, AskType DEF AskElsewhere
  <2>3. UNCHANGED <<rows, stage, cache, inbox, mounted, view, refetchTimer, seen>>
    BY <1>14 DEF AskElsewhere, serverVars, pageVars, socketVars
  <2>4. ~fetches[Room].heard /\ fetches[Room].heard \in BOOLEAN
    BY <1>0, <2>2 DEF Pending, Fetch
  <2>5. fetches'[Room].heard = fetches[Room].heard
    BY <1>0, <2>2, <2>4 DEF TypeOK, Fetch
  <2> QED BY <2>2, <2>3, <2>4, <2>5, ServerStays, HandlerStays
<1>15. CASE Expire
  <2>1. cache' = None /\ UNCHANGED <<rows, stage, inbox, seen>>
    BY <1>15 DEF Expire, pageVars, socketVars
  <2>2. Staged' /\ CacheCounts'
    BY <2>1 DEF Staged, Told, CacheCounts
  <2> QED BY <1>15, <2>2, PageStays DEF Expire, pageVars
<1>16. ASSUME NEW f \in Fetches, Miss(f) PROVE Goal
  <2>1. /\ fetches'[f].what = "missed" /\ fetches'[f].heard = fetches[f].heard
        /\ \A e \in Fetches \ {f} : fetches'[e] = fetches[e]
        /\ UNCHANGED <<rows, stage, cache, inbox, mounted, view, refetchTimer, seen>>
    BY <1>16 DEF Miss, TypeOK, Fetch, serverVars, pageVars, socketVars
  <2>2. Good(f)'
    BY <2>1 DEF Good
  <2> QED BY <2>1, <2>2, ServerStays, HandlerStays
<1>17. ASSUME NEW f \in Fetches, Query(f) PROVE Goal
  <2>1. /\ fetches'[f].what = "read" /\ fetches'[f].rows = rows
        /\ fetches'[f].heard = fetches[f].heard
        /\ \A e \in Fetches \ {f} : fetches'[e] = fetches[e]
        /\ UNCHANGED <<rows, stage, cache, inbox, mounted, view, refetchTimer, seen>>
    BY <1>17 DEF Query, TypeOK, Fetch, serverVars, pageVars, socketVars
  <2>2. Good(f)'
    BY <2>1, ToldCounts DEF Good
  <2> QED BY <2>1, <2>2, ServerStays, HandlerStays
<1>18. ASSUME NEW f \in Fetches, Fill(f) PROVE Goal
  <2>1. /\ fetches[f].what = "read" /\ fetches[f].rows \in Counts
        /\ Answer(f, fetches[f].rows)
        /\ cache' = [rows |-> fetches[f].rows, late |-> Stale(fetches[f].rows)]
        /\ UNCHANGED <<rows, stage, inbox, mounted, view, refetchTimer, seen>>
    BY <1>0, <1>18 DEF Fill, Fetch, pageVars, socketVars
  <2>2. /\ fetches'[f].heard = fetches[f].heard
        /\ \A e \in Fetches \ {f} : fetches'[e] = fetches[e]
        /\ fetches[f].heard => fetches'[f] =
             [what |-> "served", heard |-> TRUE, rows |-> fetches[f].rows]
    BY <1>0, <2>1, AnswerType DEF NoFetch, Fetch
  <2>3. fetches[f].heard => Good(f)' \/ ~Good(f)
    BY <2>1, <2>2 DEF Good
  <2>4. Staged'
    BY <2>1 DEF Staged, Told
  <2>5. CacheCounts'
    BY <2>1 DEF CacheCounts, Stale
  <2>6. Informed' /\ LoadingHasCause'
    BY <2>1, <2>2, <2>3, HandlerStays
  <2> QED BY <2>4, <2>5, <2>6
<1>19. ASSUME NEW n \in 1 .. MaxRows, Invalidate(n) PROVE Goal
  <2>1. /\ stage[n] = "committed" /\ cache' = None
        /\ UNCHANGED <<rows, inbox, mounted, view, fetches, refetchTimer, seen>>
        /\ \A m \in 1 .. MaxRows :
             stage'[m] = IF m = n THEN "dropped" ELSE stage[m]
    BY <1>19 DEF Invalidate, TypeOK, pageVars, socketVars
  <2>2. \A m \in Counts : Told(m) => Told(m)'
    BY <2>1, RowsAssumption DEF Told, Counts
  <2>3. \A i \in 1 .. Len(inbox) : inbox[i] \in Counts
    BY DEF TypeOK
  <2>4. \A m \in 1 .. MaxRows : stage'[m] = "none" <=> m > rows'
    BY <2>1 DEF Staged
  <2>5. Staged'
    BY <1>0, <2>1, <2>2, <2>3, <2>4 DEF Staged, Told
  <2> QED BY <2>1, <2>5, PageStays DEF CacheCounts
<1>20. ASSUME NEW n \in 1 .. MaxRows, Tell(n) PROVE Goal
  <2>1. /\ stage[n] = "dropped" /\ n \in Counts
        /\ UNCHANGED <<rows, cache, mounted, view, fetches, refetchTimer, seen>>
        /\ \A m \in 1 .. MaxRows : stage'[m] = IF m = n THEN "told" ELSE stage[m]
    BY <1>20 DEF Tell, TypeOK, Counts
  <2>2. \A m \in Counts : Told(m) => Told(m)'
    BY <2>1, RowsAssumption DEF Told, Counts
  <2>3. Told(n)'
    BY <2>1 DEF Told
  <2>4. \A i \in 1 .. Len(inbox) : inbox[i] \in Counts
    BY DEF TypeOK
  <2>5. inbox' = inbox \/ inbox' = Append(inbox, n)
    BY <1>20 DEF Tell
  <2>6. \A i \in 1 .. Len(inbox') : inbox'[i] = n \/
          (i \in 1 .. Len(inbox) /\ inbox'[i] = inbox[i])
    BY <2>1, <2>5, AppendProperties DEF TypeOK
  <2>7. \A i \in 1 .. Len(inbox') : inbox'[i] = 0 \/ stage'[inbox'[i]] = "told"
    <3> SUFFICES ASSUME NEW i \in 1 .. Len(inbox')
                 PROVE  inbox'[i] = 0 \/ stage'[inbox'[i]] = "told"
      OBVIOUS
    <3>1. CASE inbox'[i] = n
      BY <2>3, <3>1 DEF Told
    <3>2. CASE i \in 1 .. Len(inbox) /\ inbox'[i] = inbox[i]
      BY <2>2, <2>4, <3>2 DEF Staged, Told
    <3> QED BY <2>6, <3>1, <3>2
  <2>8. \A m \in 1 .. MaxRows : stage'[m] = "none" <=> m > rows'
    BY <2>1 DEF Staged
  <2>9. Staged'
    BY <1>0, <2>1, <2>2, <2>7, <2>8 DEF Staged, Told
  <2>10. CacheCounts'
    BY <2>1 DEF CacheCounts, Stale
  <2> QED BY <2>1, <2>9, <2>10, PageStays
<1>21. ASSUME NEW u \in Users, ClickUser(u) \/ AnswerSets(u) PROVE Goal
  BY <1>21, ServerStays, PageStays DEF ClickUser, AnswerSets, serverVars, socketVars
<1>22. CASE CloseUser
  BY <1>22, ServerStays, PageStays DEF CloseUser, serverVars, socketVars
<1>23. CASE UNCHANGED vars
  BY <1>23, ServerStays, PageStays DEF vars
<1> HIDE DEF Goal
<1> QED BY <1>1, <1>2, <1>3, <1>4, <1>5, <1>6, <1>7, <1>8, <1>9, <1>10,
           <1>11, <1>12, <1>13, <1>14, <1>15, <1>16, <1>17, <1>18, <1>19, <1>20,
           <1>21, <1>22, <1>23 DEF Next, Goal

LEMMA ShownInvariance == Spec => []ShownInv
<1>1. Init => ShownInv
  BY InitType, RowsAssumption
     DEF Init, ShownInv, Staged, Told, CacheCounts, Informed, LoadingHasCause,
         NothingSeen
<1> QED BY <1>1, ShownStep, PTL DEF Spec

\* When nothing is under way, what is shown counts every completion that an event
\* told of, unless it is not the newest answer or the cache answered with a
\* leaderboard put back after its invalidation.
THEOREM ShownIsCurrent == Spec => []ShowsCurrent
<1>1. ShownInv => ShowsCurrent
  BY DEF ShownInv, Informed, Cause, ShowsCurrent
<1> QED BY <1>1, ShownInvariance, PTL

\* The skeleton is shown only while an answer is to come.
THEOREM LoadingEnds == Spec => []LoadingHasCause
BY ShownInvariance, PTL DEF ShownInv

-----------------------------------------------------------------------------
(* The sets of a player *)

\* No other player's sets are under way to a panel that is not mixed.
OwnAsks ==
  panel.selectedUser # None /\ ~panel.mixed =>
    \A u \in Users \ {panel.selectedUser} : asks[u] = 0

PanelInv == TypeOK /\ OwnAsks /\ PanelMatches

LEMMA PanelStep == PanelInv /\ [Next]_vars => PanelInv'
<1> SUFFICES ASSUME PanelInv, [Next]_vars PROVE OwnAsks' /\ PanelMatches'
  BY TypeStep DEF PanelInv
<1> USE DEF PanelInv
<1>1. CASE Unmount
  <2>1. panel'.selectedUser = None
    BY <1>1 DEF Unmount, NewPanel
  <2> QED BY <2>1 DEF OwnAsks, PanelMatches
<1>2. ASSUME NEW u \in Users, ClickUser(u) PROVE OwnAsks' /\ PanelMatches'
  <2>1. PICK k \in {1, 2} : asks' = [asks EXCEPT ![u] = @ + k]
    BY <1>2 DEF ClickUser
  <2>2. asks'[u] > 0 /\ \A v \in Users \ {u} : asks'[v] = asks[v]
    BY <2>1 DEF TypeOK
  <2>3. /\ panel'.selectedUser = u /\ panel'.userSets = None
        /\ panel'.userSetsLoading
    BY <1>2 DEF ClickUser, Selected, TypeOK, Panel
  <2>4. ~panel'.mixed => \A v \in Users \ {u} : asks'[v] = 0
    <3>1. panel'.mixed = \E v \in Users \ {u} : asks[v] > 0
      BY <1>2 DEF ClickUser, Selected, TypeOK, Panel
    <3> QED BY <2>2, <3>1 DEF TypeOK
  <2> QED BY <2>2, <2>3, <2>4 DEF OwnAsks, PanelMatches
<1>3. CASE CloseUser
  <2>1. panel'.selectedUser = None
    BY <1>3 DEF CloseUser, TypeOK, Panel
  <2> QED BY <2>1 DEF OwnAsks, PanelMatches
<1>4. ASSUME NEW u \in Users, AnswerSets(u) PROVE OwnAsks' /\ PanelMatches'
  <2>1. /\ panel'.selectedUser = panel.selectedUser
        /\ panel'.mixed = panel.mixed
        /\ \/ panel'.userSets = u
           \/ panel'.userSets = panel.userSets /\ panel'.userSetsError
    BY <1>4 DEF AnswerSets, TypeOK, Panel
  <2>2. asks[u] > 0 /\ \A v \in Users \ {u} : asks'[v] = asks[v]
    BY <1>4 DEF AnswerSets, TypeOK
  <2>3. panel.selectedUser # None /\ ~panel.mixed => u = panel.selectedUser
    BY <2>2 DEF OwnAsks
  <2>4. u # None
    BY NoneIsNothing
  <2> QED BY <2>1, <2>2, <2>3, <2>4 DEF OwnAsks, PanelMatches
<1>5. CASE UNCHANGED <<panel, asks>>
  BY <1>5 DEF OwnAsks, PanelMatches
<1>6. \/ Unmount \/ CloseUser \/ UNCHANGED <<panel, asks>>
      \/ \E u \in Users : ClickUser(u) \/ AnswerSets(u)
  BY DEF Next, vars, RetryTimer, Mount, Message, RefetchTimer, Complete,
         SocketOpens, SocketCloses, Hang, DeliverFetch, FailFetch, Stall,
         AskElsewhere, Expire, Hit, Miss, Query, Fill, Invalidate, Tell, pageVars
<1> QED BY <1>1, <1>2, <1>3, <1>4, <1>5, <1>6

\* Unless another player's sets were under way at the click, the panel shows
\* those of the player it names.
THEOREM PanelStaysMatched == Spec => []PanelMatches
<1>1. Init => PanelInv
  BY InitType DEF Init, PanelInv, OwnAsks, PanelMatches, NewPanel
<1>2. PanelInv => PanelMatches
  BY DEF PanelInv
<1> QED BY <1>1, <1>2, PanelStep, PTL DEF Spec
=============================================================================
