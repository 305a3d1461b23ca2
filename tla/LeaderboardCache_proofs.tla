----------------------- MODULE LeaderboardCache_proofs -----------------------
(***************************************************************************)
(* Proofs about LeaderboardCache: when no read of a day overlaps a         *)
(* completion of it and no handler dies, the cached leaderboard and every  *)
(* answer are current, for any number of threads, days and limits.  The    *)
(* types are kept whatever overlaps and whatever dies.                     *)
(***************************************************************************)
EXTENDS LeaderboardCache, TLAPS

USE CacheAssumption

\* A handler at work has a day, a read has its limit, and once it has leaders
\* they count every completion.
InStep(h) ==
  /\ h.pc # "idle" => h.date \in Dates
  /\ h.pc \in {"lookup", "query", "set"} => h.limit \in Limits
  /\ h.pc \in {"set", "reply"} => h.board \in Board
                                    /\ h.board.seen = rows[h.date]

NoOverlap ==
  \A t, r \in Threads, d \in Dates : ~(Reading(t, d) /\ Writing(r, d))

\* Settled is what an entry can rely on: an entry of a day that is not settled
\* is about to go.  The entry need not be live.
EntriesCurrent ==
  \A d \in Dates :
    Settled(d) /\ cache[d] # None => cache[d].board.seen = rows[d]

Inv ==
  /\ TypeOK
  /\ \A t \in Threads : InStep(th[t])
  /\ NoOverlap
  /\ EntriesCurrent

LEMMA InitInv == Init => Inv
  <1> SUFFICES ASSUME Init PROVE Inv
    OBVIOUS
  <1> USE DEF Init, Idle
  <1>1. TypeOK
    BY DEF TypeOK, Handler
  <1>2. QED
    BY <1>1 DEF Inv, InStep, NoOverlap, Reading, Writing, EntriesCurrent

\* A handler that only moves within its read, or ends, or starts to work where
\* no other is in its way, keeps Inv while the table and the cache stay.
LEMMA LocalStep ==
  ASSUME Inv, NEW t \in Threads, NEW h \in Handler,
         th' = [th EXCEPT ![t] = h], UNCHANGED rows,
         InStep(h),
         h.pc \in {"lookup", "query", "set", "reply"} =>
           \A r \in Threads \ {t} : ~Writing(r, h.date),
         h.pc \in {"commit", "invalidate"} =>
           \A r \in Threads \ {t} : ~Reading(r, h.date),
         cache' \in [Dates -> Entry \cup {None}],
         EntriesCurrent'
  PROVE  Inv'
  <1>1. \A r \in Threads : th'[r] = IF r = t THEN h ELSE th[r]
    BY DEF Inv, TypeOK
  <1>2. TypeOK'
    BY DEF Inv, TypeOK
  <1>3. \A r \in Threads : InStep(th[r])'
    BY <1>1 DEF Inv, InStep
  <1>4. NoOverlap'
    BY <1>1 DEF Inv, NoOverlap, Reading, Writing
  <1>5. QED
    BY <1>2, <1>3, <1>4 DEF Inv

\* While no handler starts or stops invalidating, entries may only stay, go,
\* or be current.
LEMMA SameSettled ==
  ASSUME Inv, NEW t \in Threads, NEW h \in Handler,
         th' = [th EXCEPT ![t] = h], UNCHANGED rows,
         th[t].pc # "invalidate", h.pc # "invalidate",
         \A d \in Dates : \/ cache'[d] = cache[d]
                          \/ cache'[d] = None
                          \/ cache'[d].board.seen = rows[d]
  PROVE  EntriesCurrent'
  <1>1. \A r \in Threads : th'[r] = IF r = t THEN h ELSE th[r]
    BY DEF Inv, TypeOK
  <1>2. \A d \in Dates : Settled(d)' => Settled(d)
    BY <1>1 DEF Settled
  <1>3. QED
    BY <1>2 DEF Inv, EntriesCurrent

-----------------------------------------------------------------------------
(* Types, whatever overlaps and whatever dies *)

\* What a handler at work holds of its day, its limit and its leaders.
Typed(h) ==
  /\ h.pc # "idle" => h.date \in Dates
  /\ h.pc \in {"lookup", "query", "set"} => h.limit \in Limits
  /\ h.pc \in {"set", "reply"} => h.board \in Board

TypeInv == TypeOK /\ \A t \in Threads : Typed(th[t])

\* A step of one thread.
LEMMA TypedStep ==
  ASSUME TypeInv, NEW t \in Threads, NEW h \in Handler, Typed(h),
         th' = [th EXCEPT ![t] = h],
         rows' \in [Dates -> Nat], cache' \in [Dates -> Entry \cup {None}]
  PROVE  TypeInv'
  <1>1. \A r \in Threads : th'[r] = IF r = t THEN h ELSE th[r]
    BY DEF TypeInv, TypeOK
  <1>2. \A r \in Threads : Typed(th[r])'
    BY <1>1 DEF TypeInv, Typed
  <1>3. QED
    BY <1>2 DEF TypeInv, TypeOK

LEMMA IdleTyped == Idle \in Handler /\ Typed(Idle)
  BY DEF Idle, Handler, Typed

LEMMA TypeStep == TypeInv /\ [Next]_vars => TypeInv'
  <1> SUFFICES ASSUME TypeInv, [Next]_vars PROVE TypeInv'
    OBVIOUS
  <1>0. /\ TypeOK
        /\ \A t \in Threads : th[t] \in Handler /\ Typed(th[t])
        /\ rows \in [Dates -> Nat] /\ cache \in [Dates -> Entry \cup {None}]
    BY DEF TypeInv, TypeOK
  <1>1. ASSUME NEW t \in Threads, AskLeaderboard(t) PROVE TypeInv'
    <2>1. PICK d \in Dates, l \in Limits :
            th' = [th EXCEPT ![t] = [Idle EXCEPT !.pc = "lookup", !.date = d,
                                                 !.limit = l]]
      BY <1>1 DEF AskLeaderboard
    <2> DEFINE h == [Idle EXCEPT !.pc = "lookup", !.date = d, !.limit = l]
    <2>2. h \in Handler /\ Typed(h)
      BY DEF Idle, Handler, Typed
    <2>3. QED
      BY <1>0, <1>1, <2>1, <2>2, TypedStep DEF AskLeaderboard
  <1>2. ASSUME NEW t \in Threads, RecordTime(t) PROVE TypeInv'
    <2>1. PICK d \in Dates :
            th' = [th EXCEPT ![t] = [Idle EXCEPT !.pc = "commit", !.date = d]]
      BY <1>2 DEF RecordTime
    <2> DEFINE h == [Idle EXCEPT !.pc = "commit", !.date = d]
    <2>2. h \in Handler /\ Typed(h)
      BY DEF Idle, Handler, Typed
    <2>3. QED
      BY <1>0, <1>2, <2>1, <2>2, TypedStep DEF RecordTime
  <1>3. ASSUME NEW t \in Threads, Hit(t) PROVE TypeInv'
    <2> DEFINE h == [th[t] EXCEPT !.board = cache[th[t].date].board, !.pc = "reply"]
    <2>1. th[t] \in Handler /\ th[t].date \in Dates /\ cache[th[t].date] \in Entry
      BY <1>0, <1>3 DEF Hit, Live, Typed
    <2>2. cache[th[t].date].board \in Board
      BY <2>1 DEF Entry
    <2>3. h \in Handler /\ Typed(h)
      BY <2>1, <2>2 DEF Handler, Typed
    <2>4. th' = [th EXCEPT ![t] = h]
      BY <1>3 DEF Hit
    <2> HIDE DEF h
    <2>5. QED
      BY <1>0, <1>3, <2>3, <2>4, TypedStep DEF Hit
  <1>4. ASSUME NEW t \in Threads, Miss(t) PROVE TypeInv'
    <2> DEFINE h == [th[t] EXCEPT !.pc = "query"]
    <2>1. h \in Handler /\ Typed(h)
      BY <1>0, <1>4 DEF Miss, Handler, Typed
    <2>2. th' = [th EXCEPT ![t] = h]
      BY <1>4 DEF Miss, Goto
    <2>3. cache' \in [Dates -> Entry \cup {None}]
      BY <1>0, <1>4 DEF Miss, Forget
    <2> HIDE DEF h
    <2>4. QED
      BY <1>0, <1>4, <2>1, <2>2, <2>3, TypedStep DEF Miss
  <1>5. ASSUME NEW t \in Threads, Query(t) PROVE TypeInv'
    <2> DEFINE b == [seen |-> rows[th[t].date], limit |-> th[t].limit]
               h == [th[t] EXCEPT !.board = b, !.pc = "set"]
    <2>1. b \in Board /\ th[t].date \in Dates /\ th[t].limit \in Limits
      BY <1>0, <1>5 DEF Query, Typed, Board
    <2>2. th' = [th EXCEPT ![t] = h]
      BY <1>5 DEF Query
    <2> HIDE DEF b
    <2>3. h \in Handler /\ Typed(h)
      BY <1>0, <2>1 DEF Handler, Typed
    <2> HIDE DEF h
    <2>4. QED
      BY <1>0, <1>5, <2>2, <2>3, TypedStep DEF Query
  <1>6. ASSUME NEW t \in Threads, Fill(t) PROVE TypeInv'
    <2> DEFINE h == [th[t] EXCEPT !.pc = "reply"]
               e == [board |-> th[t].board, left |-> Ttl]
    <2>1. h \in Handler /\ Typed(h)
      BY <1>0, <1>6 DEF Fill, Handler, Typed
    <2>2. e \in Entry
      BY <1>0, <1>6 DEF Fill, Typed, Entry
    <2>3. th' = [th EXCEPT ![t] = h] /\ cache' = [cache EXCEPT ![th[t].date] = e]
      BY <1>6 DEF Fill, Goto, Store
    <2> HIDE DEF h, e
    <2>4. cache' \in [Dates -> Entry \cup {None}]
      BY <1>0, <2>2, <2>3
    <2>5. QED
      BY <1>0, <1>6, <2>1, <2>3, <2>4, TypedStep DEF Fill
  <1>7. ASSUME NEW t \in Threads, Reply(t) \/ Die(t) PROVE TypeInv'
    BY <1>0, <1>7, IdleTyped, TypedStep DEF Reply, Die, Return
  <1>8. ASSUME NEW t \in Threads, Commit(t) PROVE TypeInv'
    <2> DEFINE h == [th[t] EXCEPT !.pc = "invalidate"]
    <2>1. h \in Handler /\ Typed(h)
      BY <1>0, <1>8 DEF Commit, Handler, Typed
    <2>2. th' = [th EXCEPT ![t] = h]
      BY <1>8 DEF Commit, Goto
    <2> DEFINE n == rows[th[t].date] + 1
    <2>a. rows' = [rows EXCEPT ![th[t].date] = n]
      BY <1>8 DEF Commit
    <2>b. n \in Nat
      BY <1>0, <1>8 DEF Commit, Typed
    <2> HIDE DEF n
    <2>3. rows' \in [Dates -> Nat]
      BY <1>0, <2>a, <2>b
    <2> HIDE DEF h
    <2>4. QED
      BY <1>0, <1>8, <2>1, <2>2, <2>3, TypedStep DEF Commit
  <1>9. ASSUME NEW t \in Threads, Invalidate(t) PROVE TypeInv'
    <2>1. cache' \in [Dates -> Entry \cup {None}]
      BY <1>0, <1>9 DEF Invalidate, Forget
    <2>2. QED
      BY <1>0, <1>9, <2>1, IdleTyped, TypedStep DEF Invalidate, Return
  <1>10. CASE Tick
    <2>1. ASSUME NEW d \in Dates, Live(d)
          PROVE  [cache[d] EXCEPT !.left = @ - 1] \in Entry
      <3>1. cache[d] \in Entry /\ cache[d].left \in 0 .. Ttl
        BY <1>0, <2>1 DEF Live, Entry
      <3>2. QED
        BY <3>1 DEF Entry
    <2>2. cache' \in [Dates -> Entry \cup {None}]
      BY <1>0, <1>10, <2>1 DEF Tick
    <2>3. QED
      BY <1>0, <1>10, <2>2 DEF Tick, TypeInv, TypeOK
  <1>11. CASE Restart
    <2>1. th' \in [Threads -> Handler] /\ \A t \in Threads : Typed(th'[t])
      BY <1>11, IdleTyped DEF Restart
    <2>2. QED
      BY <1>0, <1>11, <2>1 DEF Restart, TypeInv, TypeOK, Typed
  <1>12. CASE UNCHANGED vars
    BY <1>12 DEF vars, TypeInv, TypeOK, Typed
  <1>13. QED
    BY <1>1, <1>2, <1>3, <1>4, <1>5, <1>6, <1>7, <1>8, <1>9, <1>10, <1>11,
       <1>12 DEF Next, Step

\* The tables, the cache and the handlers of the leaderboard keep their types,
\* whatever overlaps and whatever dies.
THEOREM TypeCorrect == Spec => []TypeOK
  <1>1. Init => TypeInv
    BY InitInv, IdleTyped DEF Init, Inv, TypeInv
  <1>2. TypeInv => TypeOK
    BY DEF TypeInv
  <1>3. QED
    BY <1>1, <1>2, TypeStep, PTL DEF Spec

-----------------------------------------------------------------------------
(* Each action keeps Inv. *)

LEMMA AskLeaderboardInv ==
  ASSUME Inv, ~Overlap, NEW t \in Threads, AskLeaderboard(t)
  PROVE  Inv'
  <1>1. PICK d \in Dates, l \in Limits :
          /\ \A r \in Threads : ~Writing(r, d)
          /\ th' = [th EXCEPT ![t] = [Idle EXCEPT !.pc = "lookup", !.date = d,
                                                  !.limit = l]]
    BY DEF AskLeaderboard
  <1> DEFINE h == [Idle EXCEPT !.pc = "lookup", !.date = d, !.limit = l]
  <1>2. h.pc = "lookup" /\ h.date = d
    BY DEF Idle
  <1>3. h \in Handler /\ InStep(h)
    BY DEF Idle, Handler, InStep
  <1>4. th' = [th EXCEPT ![t] = h]
    BY <1>1
  <1>5. th[t].pc # "invalidate" /\ UNCHANGED <<rows, cache>>
    BY DEF AskLeaderboard
  <1> HIDE DEF h
  <1>6. EntriesCurrent'
    BY <1>2, <1>3, <1>4, <1>5, SameSettled
  <1>7. cache' \in [Dates -> Entry \cup {None}]
    BY <1>5 DEF Inv, TypeOK
  <1>8. QED
    BY <1>1, <1>2, <1>3, <1>4, <1>5, <1>6, <1>7, LocalStep

LEMMA HitInv ==
  ASSUME Inv, NEW t \in Threads, Hit(t)
  PROVE  Inv'
  <1> DEFINE d == th[t].date
             h == [th[t] EXCEPT !.board = cache[d].board, !.pc = "reply"]
  <1>1. th[t] \in Handler /\ th[t].pc = "lookup" /\ d \in Dates /\ th[t].limit \in Limits
    BY DEF Inv, TypeOK, Hit, InStep
  <1>2. th' = [th EXCEPT ![t] = h]
    BY DEF Hit
  <1>3. cache[d] \in Entry
    BY <1>1 DEF Inv, TypeOK, Hit, Live
  <1>4. \A r \in Threads : ~Writing(r, d)
    BY <1>1 DEF Inv, NoOverlap, Reading
  <1>5. Settled(d)
    BY <1>4 DEF Settled, Writing
  <1>6. cache[d].board \in Board /\ cache[d].board.seen = rows[d]
    BY <1>1, <1>3, <1>5 DEF Inv, EntriesCurrent, Hit, Live, Entry
  <1>7. h.pc = "reply" /\ h.date = d /\ h.board = cache[d].board
    BY <1>1 DEF Handler
  <1>8. h \in Handler /\ InStep(h)
    BY <1>1, <1>6, <1>7 DEF Handler, InStep
  <1> HIDE DEF h
  <1>9. EntriesCurrent'
    BY <1>1, <1>2, <1>7, <1>8, SameSettled DEF Hit
  <1>10. cache' \in [Dates -> Entry \cup {None}]
    BY DEF Inv, TypeOK, Hit
  <1>11. QED
    BY <1>2, <1>4, <1>7, <1>8, <1>9, <1>10, LocalStep DEF Hit

LEMMA MissInv ==
  ASSUME Inv, NEW t \in Threads, Miss(t)
  PROVE  Inv'
  <1> DEFINE d == th[t].date
             h == [th[t] EXCEPT !.pc = "query"]
  <1>1. th[t] \in Handler /\ th[t].pc = "lookup" /\ d \in Dates /\ th[t].limit \in Limits
    BY DEF Inv, TypeOK, Miss, InStep
  <1>2. th' = [th EXCEPT ![t] = h]
    BY DEF Miss, Goto
  <1>3. \A r \in Threads : ~Writing(r, d)
    BY <1>1 DEF Inv, NoOverlap, Reading
  <1>4. h = [pc |-> "query", date |-> d, limit |-> th[t].limit,
             board |-> th[t].board]
    BY <1>1 DEF Handler
  <1>5. h \in Handler /\ InStep(h)
    BY <1>1, <1>4 DEF Handler, InStep
  <1>6. \A e \in Dates : cache'[e] = IF e = d THEN None ELSE cache[e]
    BY DEF Inv, TypeOK, Miss, Forget
  <1>7. EntriesCurrent'
    BY <1>1, <1>2, <1>4, <1>5, <1>6, SameSettled DEF Miss
  <1>8. cache' \in [Dates -> Entry \cup {None}]
    BY DEF Inv, TypeOK, Miss, Forget
  <1>9. QED
    BY <1>2, <1>3, <1>4, <1>5, <1>7, <1>8, LocalStep DEF Miss

LEMMA QueryInv ==
  ASSUME Inv, NEW t \in Threads, Query(t)
  PROVE  Inv'
  <1> DEFINE d == th[t].date
             b == [seen |-> rows[d], limit |-> th[t].limit]
             h == [th[t] EXCEPT !.board = b, !.pc = "set"]
  <1>1. th[t] \in Handler /\ th[t].pc = "query" /\ d \in Dates /\ th[t].limit \in Limits
    BY DEF Inv, TypeOK, Query, InStep
  <1>2. th' = [th EXCEPT ![t] = h]
    BY DEF Query
  <1>3. \A r \in Threads : ~Writing(r, d)
    BY <1>1 DEF Inv, NoOverlap, Reading
  <1>4. h.pc = "set" /\ h.date = d /\ h.limit = th[t].limit /\ h.board = b
    BY <1>1 DEF Handler
  <1>5. b \in Board /\ b.seen = rows[d]
    BY <1>1 DEF Board, Inv, TypeOK
  <1>6. h \in Handler /\ InStep(h)
    BY <1>1, <1>4, <1>5 DEF Handler, InStep
  <1>7. EntriesCurrent'
    BY <1>1, <1>2, <1>4, <1>6, SameSettled DEF Query
  <1>8. cache' \in [Dates -> Entry \cup {None}]
    BY DEF Inv, TypeOK, Query
  <1>9. QED
    BY <1>2, <1>3, <1>4, <1>6, <1>7, <1>8, LocalStep DEF Query

\* What a read stores is current: no completion of the day got in between.
LEMMA FillInv ==
  ASSUME Inv, NEW t \in Threads, Fill(t)
  PROVE  Inv'
  <1> DEFINE d == th[t].date
             e == [board |-> th[t].board, left |-> Ttl]
             h == [th[t] EXCEPT !.pc = "reply"]
  <1>1. /\ th[t] \in Handler /\ th[t].pc = "set" /\ d \in Dates
        /\ th[t].board \in Board /\ th[t].board.seen = rows[d]
    BY DEF Inv, TypeOK, Fill, InStep
  <1>2. th' = [th EXCEPT ![t] = h]
    BY DEF Fill, Goto
  <1>3. \A r \in Threads : ~Writing(r, d)
    BY <1>1 DEF Inv, NoOverlap, Reading
  <1>4. h = [pc |-> "reply", date |-> d, limit |-> th[t].limit,
             board |-> th[t].board]
    BY <1>1 DEF Handler
  <1>5. h \in Handler /\ InStep(h)
    BY <1>1, <1>4 DEF Handler, InStep
  <1>6. e \in Entry
    BY <1>1 DEF Entry
  <1>7. \A a \in Dates : cache'[a] = IF a = d THEN e ELSE cache[a]
    BY DEF Inv, TypeOK, Fill, Store
  <1>8. EntriesCurrent'
    <2>1. \A a \in Dates : cache'[a] = cache[a] \/ cache'[a].board.seen = rows[a]
      BY <1>1, <1>7
    <2>2. h.pc # "invalidate" /\ UNCHANGED rows
      BY <1>4 DEF Fill
    <2> HIDE DEF h
    <2>3. QED
      BY <1>1, <1>2, <1>5, <2>1, <2>2, SameSettled
  <1>9. cache' \in [Dates -> Entry \cup {None}]
    BY <1>6 DEF Inv, TypeOK, Fill, Store
  <1>10. QED
    BY <1>2, <1>3, <1>4, <1>5, <1>8, <1>9, LocalStep DEF Fill

LEMMA IdleInStep == Idle \in Handler /\ InStep(Idle)
  BY DEF Idle, Handler, InStep

LEMMA ReplyInv ==
  ASSUME Inv, NEW t \in Threads, Reply(t)
  PROVE  Inv'
  <1>1. th' = [th EXCEPT ![t] = Idle] /\ Idle.pc = "idle"
    BY DEF Reply, Return, Idle
  <1>2. EntriesCurrent'
    BY <1>1, IdleInStep, SameSettled DEF Reply
  <1>3. cache' \in [Dates -> Entry \cup {None}]
    BY DEF Inv, TypeOK, Reply
  <1>4. QED
    BY <1>1, <1>2, <1>3, IdleInStep, LocalStep DEF Reply

LEMMA RecordTimeInv ==
  ASSUME Inv, ~Overlap, NEW t \in Threads, RecordTime(t)
  PROVE  Inv'
  <1>1. PICK d \in Dates :
          /\ \A r \in Threads : ~Reading(r, d)
          /\ th' = [th EXCEPT ![t] = [Idle EXCEPT !.pc = "commit", !.date = d]]
    BY DEF RecordTime
  <1> DEFINE h == [Idle EXCEPT !.pc = "commit", !.date = d]
  <1>2. h.pc = "commit" /\ h.date = d
    BY DEF Idle
  <1>3. h \in Handler /\ InStep(h)
    BY DEF Idle, Handler, InStep
  <1>4. th[t].pc # "invalidate" /\ UNCHANGED <<rows, cache>>
    BY DEF RecordTime
  <1>5. EntriesCurrent'
    BY <1>1, <1>2, <1>3, <1>4, SameSettled
  <1>6. cache' \in [Dates -> Entry \cup {None}]
    BY <1>4 DEF Inv, TypeOK
  <1>7. QED
    BY <1>1, <1>2, <1>3, <1>4, <1>5, <1>6, LocalStep

\* The table changes under no read's hands, and the day is unsettled until the
\* invalidation.
LEMMA CommitInv ==
  ASSUME Inv, NEW t \in Threads, Commit(t)
  PROVE  Inv'
  <1> DEFINE d == th[t].date
             h == [th[t] EXCEPT !.pc = "invalidate"]
  <1>1. th[t] \in Handler /\ th[t].pc = "commit" /\ d \in Dates
    BY DEF Inv, TypeOK, Commit, InStep
  <1>2. \A r \in Threads : th'[r] = IF r = t THEN h ELSE th[r]
    BY DEF Inv, TypeOK, Commit, Goto
  <1>3. \A a \in Dates : rows'[a] = IF a = d THEN rows[a] + 1 ELSE rows[a]
    BY DEF Inv, TypeOK, Commit
  <1>4. h = [pc |-> "invalidate", date |-> d, limit |-> th[t].limit,
             board |-> th[t].board]
    BY <1>1 DEF Handler
  <1>5. h \in Handler
    BY <1>1, <1>4 DEF Handler
  <1>6. TypeOK'
    BY <1>1, <1>5 DEF Inv, TypeOK, Commit, Goto
  <1>7. \A r \in Threads : ~Reading(r, d)
    BY <1>1 DEF Inv, NoOverlap, Writing
  <1>8. ASSUME NEW r \in Threads PROVE InStep(th[r])'
    <2>1. CASE r = t
      BY <1>1, <1>2, <1>4, <2>1 DEF InStep
    <2>2. CASE r # t
      <3>1. th'[r] = th[r] /\ InStep(th[r])
        BY <1>2, <2>2 DEF Inv
      <3>2. th[r].pc \in {"set", "reply"} => th[r].date \in Dates \ {d}
        BY <1>7, <3>1 DEF InStep, Reading
      <3>3. QED
        BY <1>3, <3>1, <3>2 DEF InStep
    <2>3. QED
      BY <2>1, <2>2
  <1>9. NoOverlap'
    BY <1>1, <1>2, <1>4, <1>7 DEF Inv, NoOverlap, Reading, Writing
  <1>10. ASSUME NEW a \in Dates, Settled(a)', cache'[a] # None
         PROVE  cache'[a].board.seen = rows'[a]
    <2>1. a # d
      BY <1>2, <1>4, <1>10 DEF Settled
    <2>2. Settled(a)
      BY <1>1, <1>2, <1>10 DEF Settled
    <2>3. QED
      BY <1>3, <1>10, <2>1, <2>2 DEF Inv, EntriesCurrent, Commit
  <1>11. QED
    BY <1>6, <1>8, <1>9, <1>10 DEF Inv, EntriesCurrent

LEMMA InvalidateInv ==
  ASSUME Inv, NEW t \in Threads, Invalidate(t)
  PROVE  Inv'
  <1> DEFINE d == th[t].date
  <1>1. th[t].pc = "invalidate" /\ d \in Dates
    BY DEF Inv, Invalidate, InStep
  <1>2. th' = [th EXCEPT ![t] = Idle] /\ Idle.pc = "idle"
    BY DEF Invalidate, Return, Idle
  <1>3. \A r \in Threads : th'[r] = IF r = t THEN Idle ELSE th[r]
    BY <1>2 DEF Inv, TypeOK
  <1>4. \A a \in Dates : cache'[a] = IF a = d THEN None ELSE cache[a]
    BY DEF Inv, TypeOK, Invalidate, Forget
  <1>5. \A a \in Dates \ {d} : Settled(a)' => Settled(a)
    BY <1>3 DEF Settled
  <1>6. EntriesCurrent'
    BY <1>4, <1>5 DEF Inv, EntriesCurrent, Invalidate
  <1>7. cache' \in [Dates -> Entry \cup {None}]
    BY DEF Inv, TypeOK, Invalidate, Forget
  <1>8. QED
    BY <1>2, <1>6, <1>7, IdleInStep, LocalStep DEF Invalidate

\* Entries age and keep their board.
LEMMA TickInv ==
  ASSUME Inv, Tick
  PROVE  Inv'
  <1>1. ASSUME NEW d \in Dates
        PROVE  /\ cache'[d] \in Entry \cup {None}
               /\ cache'[d] # None =>
                    cache[d] # None /\ cache'[d].board = cache[d].board
    <2>1. CASE ~Live(d)
      BY <2>1 DEF Inv, TypeOK, Tick
    <2>2. CASE Live(d)
      <3>1. cache[d] \in Entry /\ cache[d].left \in 0 .. Ttl
        BY <2>2 DEF Inv, TypeOK, Live, Entry
      <3>2. cache'[d] = [cache[d] EXCEPT !.left = @ - 1]
        BY <2>2 DEF Tick
      <3>3. cache'[d] = [board |-> cache[d].board, left |-> cache[d].left - 1]
        BY <3>1, <3>2 DEF Entry
      <3>4. QED
        BY <3>1, <3>3, <2>2 DEF Entry, Live
    <2>3. QED
      BY <2>1, <2>2
  <1>2. cache' = [d \in Dates |-> cache'[d]]
    BY DEF Tick
  <1>3. TypeOK'
    BY <1>1, <1>2 DEF Inv, TypeOK, Tick
  <1>4. EntriesCurrent'
    BY <1>1 DEF Inv, EntriesCurrent, Settled, Tick
  <1>5. QED
    BY <1>3, <1>4 DEF Inv, NoOverlap, Reading, Writing, InStep, Tick

-----------------------------------------------------------------------------
(* The theorems *)

LEMMA NextInv ==
  ASSUME ~Overlap, ~Faults, Inv, [Next]_vars
  PROVE  Inv'
  <1>1. ASSUME NEW t \in Threads, Step(t) PROVE Inv'
    BY <1>1, HitInv, MissInv, QueryInv, FillInv, ReplyInv, CommitInv,
       InvalidateInv DEF Step
  <1>2. CASE UNCHANGED vars
    BY <1>2 DEF vars, Inv, TypeOK, InStep, NoOverlap, Reading, Writing,
                EntriesCurrent, Settled
  <1>3. QED
    BY <1>1, <1>2, AskLeaderboardInv, RecordTimeInv, TickInv
    DEF Next, Die, Restart

\* Reads of a day that do not overlap its completions, and handlers that end:
\* then no read holds a count that is behind the table, and no entry is behind
\* it but one that is about to be dropped.
THEOREM OrderedInvariance ==
  ASSUME ~Overlap, ~Faults
  PROVE  Spec => []Inv
  <1>1. Inv /\ [Next]_vars => Inv'
    BY NextInv
  <1>2. QED
    BY InitInv, <1>1, PTL DEF Spec

\* While no read of a day overlaps a completion of it and no handler dies, a live
\* entry was computed from every completion, unless one is just being recorded:
\* the invalidation of record_time is enough then.
THEOREM CacheStaysCurrent ==
  ASSUME ~Overlap, ~Faults
  PROVE  Spec => []CachedIsCurrent
  <1>1. Inv => CachedIsCurrent
    BY DEF Inv, EntriesCurrent, CachedIsCurrent, Fresh, Live
  <1>2. QED
    BY OrderedInvariance, <1>1, PTL

\* While no read of a day overlaps a completion of it and no handler dies, every
\* leaderboard handed out counts every completion: the cache hides none.
THEOREM AnswersAreCurrent ==
  ASSUME ~Overlap, ~Faults
  PROVE  Spec => []AnswerIsCurrent
  <1>1. Inv => AnswerIsCurrent
    BY DEF Inv, InStep, AnswerIsCurrent
  <1>2. QED
    BY OrderedInvariance, <1>1, PTL
=============================================================================
