------------------------- MODULE RateLimiter_proofs -------------------------
(***************************************************************************)
(* What check_rate_limit guarantees while one check runs at a time, for    *)
(* any endpoints, limits and windows and as long as the clock may run; the *)
(* types are kept by any number of overlapping checks.                     *)
(***************************************************************************)
EXTENDS RateLimiter, FiniteSetTheorems, TLAPS

\* Checks do not overlap.
OneThread == \E t : Threads = {t}

Windows == {Window[e] : e \in Endpoints}

\* When the check of thread t took the time, or now.
AsOf(t) == IF th[t].pc = "idle" THEN now ELSE th[t].at

\* The list that the check of thread t goes on with.
List(t) == IF th[t].pc = "replace" THEN th[t].kept ELSE store

\* Requests are numbered as they are let through.
Numbered ==
  /\ IsFiniteSet(admitted)
  /\ \A a \in admitted : a.id <= Cardinality(admitted)

\* A check looks at requests that were let through, and its time has come.
Timed(t) ==
  /\ store \subseteq admitted
  /\ th[t].pc # "idle" => th[t].ep \in Endpoints /\ th[t].at <= now
  /\ th[t].pc = "replace" => th[t].kept \subseteq admitted

\* A request in the shortest window is in the list, at every stage of a check.
Remembered(t) ==
  \A w \in Windows : IsShortest(w) =>
    \A b \in admitted : b.at > AsOf(t) - w => b \in List(t)

\* What passed the filter is in the window of the endpoint.
Filtered(t) ==
  th[t].pc \in {"replace", "test", "append"} =>
    \A b \in List(t) : b.at > th[t].at - Window[th[t].ep]

\* There is room for the request that is about to be let through.
Room(t) == th[t].pc = "append" => Cardinality(store) < Limit[th[t].ep]

Stage(t) == Timed(t) /\ Remembered(t) /\ Filtered(t) /\ Room(t)

LimInv ==
  /\ TypeOK /\ Numbered /\ ShortestWindowLimit
  /\ \A t \in Threads : Stage(t)

-----------------------------------------------------------------------------
LEMMA IdleType == Idle \in Check
BY DEF Idle, Check

-----------------------------------------------------------------------------
(* Types, with any number of threads *)

\* A check has its endpoint, and finitely many requests were let through.
TypeInv ==
  /\ TypeOK /\ IsFiniteSet(admitted)
  /\ \A t \in Threads : th[t].pc # "idle" => th[t].ep \in Endpoints

LEMMA TypeStep == TypeInv /\ [Next]_vars => TypeInv'
<1> SUFFICES ASSUME TypeInv, [Next]_vars PROVE TypeInv'
  OBVIOUS
<1> USE DEF TypeInv
<1>a. \A t \in Threads : th[t] \in Check
  BY DEF TypeOK
<1>1. CASE UNCHANGED vars
  BY <1>1 DEF vars, TypeOK
<1>2. CASE Tick
  BY <1>2 DEF Tick, TypeOK
<1>3. ASSUME NEW t \in Threads, Request(t) PROVE TypeInv'
  BY <1>3 DEF Request, TypeOK, Check
<1>4. ASSUME NEW t \in Threads, Filter(t) PROVE TypeInv'
  <2> DEFINE kept == {r \in store : r.at > th[t].at - Window[th[t].ep]}
  <2>1. kept \in SUBSET Entry /\ th[t].ep \in Endpoints /\ th[t] \in Check
    BY <1>4, <1>a DEF TypeOK, Filter
  <2>2. /\ th' = [th EXCEPT ![t] = [th[t] EXCEPT !.pc = "replace", !.kept = kept]]
        /\ UNCHANGED <<now, store, admitted>>
    BY <1>4 DEF Filter
  <2> HIDE DEF kept
  <2> DEFINE c == [th[t] EXCEPT !.pc = "replace", !.kept = kept]
  <2>3. c \in Check /\ c.ep = th[t].ep
    BY <2>1 DEF Check
  <2>4. th' = [th EXCEPT ![t] = c]
    BY <2>2
  <2> HIDE DEF c
  <2> QED BY <2>1, <2>2, <2>3, <2>4 DEF TypeOK
<1>5. ASSUME NEW t \in Threads, Replace(t) PROVE TypeInv'
  BY <1>5, <1>a DEF Replace, TypeOK, Check
<1>6. ASSUME NEW t \in Threads, Refuse(t) PROVE TypeInv'
  BY <1>6, IdleType DEF Refuse, TypeOK, Idle
<1>7. ASSUME NEW t \in Threads, Pass(t) PROVE TypeInv'
  BY <1>7, <1>a DEF Pass, TypeOK, Check
<1>8. ASSUME NEW t \in Threads, Admit(t) PROVE TypeInv'
  <2>1. Cardinality(admitted) \in Nat /\ th[t].ep \in Endpoints /\ th[t].at \in Nat
    BY <1>8, <1>a, FS_CardinalityType DEF Admit, Check
  <2>2. NewEntry(t) \in Entry
    BY <2>1 DEF NewEntry, Entry
  <2>3. IsFiniteSet(admitted \cup {NewEntry(t)})
    BY FS_AddElement
  <2>4. /\ store' = store \cup {NewEntry(t)} /\ UNCHANGED now
        /\ admitted' = admitted \cup {NewEntry(t)}
        /\ th' = [th EXCEPT ![t] = Idle] /\ Idle.pc = "idle"
    BY <1>8 DEF Admit, Idle
  <2> QED BY <2>2, <2>3, <2>4, IdleType DEF TypeOK
<1> QED BY <1>1, <1>2, <1>3, <1>4, <1>5, <1>6, <1>7, <1>8 DEF Next

\* Every variable keeps its type, however many checks overlap.
THEOREM TypeCorrect == Spec => []TypeOK
<1>1. Init => TypeInv
  BY IdleType, FS_EmptySet DEF Init, TypeInv, TypeOK, Idle
<1>2. TypeInv => TypeOK
  BY DEF TypeInv
<1> QED BY <1>1, <1>2, TypeStep, PTL DEF Spec

-----------------------------------------------------------------------------
(* One check at a time *)

LEMMA WindowType == \A w \in Windows : w \in Nat
BY LimitAssumption DEF Windows

LEMMA InitInv == Init => LimInv
<1> SUFFICES ASSUME Init PROVE LimInv
  OBVIOUS
<1>1. TypeOK
  BY IdleType DEF Init, TypeOK
<1>2. Numbered /\ ShortestWindowLimit
  BY FS_EmptySet DEF Init, Numbered, ShortestWindowLimit
<1>3. ASSUME NEW t \in Threads PROVE Stage(t)
  <2>1. th[t].pc = "idle"
    BY DEF Init, Idle
  <2> QED BY <2>1 DEF Init, Stage, Timed, Remembered, Filtered, Room, List
<1> QED BY <1>1, <1>2, <1>3 DEF LimInv

\* What the step of thread t has to show when it lets nobody through.
LEMMA NobodyAdmitted ==
  ASSUME LimInv, OneThread, NEW t \in Threads, admitted' = admitted,
         TypeOK', Stage(t)'
  PROVE  LimInv'
<1>1. Threads = {t}
  BY DEF OneThread
<1>2. Numbered' /\ ShortestWindowLimit'
  BY DEF LimInv, Numbered, ShortestWindowLimit, UpTo
<1> QED BY <1>1, <1>2 DEF LimInv

\* The clock: what is recent later is recent now.
LEMMA TickInv == ASSUME LimInv, Tick PROVE LimInv'
<1>1. TypeOK' /\ now \in Nat /\ now' = now + 1
  BY DEF LimInv, TypeOK, Tick
<1>2. Numbered' /\ ShortestWindowLimit'
  BY DEF Tick, LimInv, Numbered, ShortestWindowLimit, UpTo
<1>3. ASSUME NEW t \in Threads PROVE Stage(t)'
  <2>1. Stage(t) /\ th[t] \in Check /\ admitted \subseteq Entry
    BY DEF LimInv, TypeOK
  <2>2. Timed(t)'
    BY <1>1, <2>1 DEF Tick, Stage, Timed, Check
  <2>3. Filtered(t)' /\ Room(t)'
    BY <2>1 DEF Tick, Stage, Filtered, Room, List
  <2>4. Remembered(t)'
    <3>1. ASSUME NEW w \in Windows, NEW b \in admitted,
                 b.at > AsOf(t)' - w
          PROVE  b.at > AsOf(t) - w
      BY <1>1, <2>1, <3>1, WindowType DEF Tick, AsOf, Entry, Check
    <3> QED BY <2>1, <3>1 DEF Tick, Stage, Remembered, List
  <2> QED BY <2>2, <2>3, <2>4 DEF Stage
<1> QED BY <1>1, <1>2, <1>3 DEF LimInv

LEMMA RequestInv ==
  ASSUME LimInv, OneThread, NEW t \in Threads, Request(t) PROVE LimInv'
<1>1. PICK e \in Endpoints :
        th' = [th EXCEPT ![t] = [pc |-> "filter", ep |-> e, at |-> now,
                                 kept |-> {}]]
  BY DEF Request
<1>2. [pc |-> "filter", ep |-> e, at |-> now, kept |-> {}] \in Check
  BY DEF Check, LimInv, TypeOK
<1>3. /\ th'[t].pc = "filter" /\ th'[t].ep = e /\ th'[t].at = now
      /\ UNCHANGED <<now, store, admitted>> /\ th[t].pc = "idle"
  BY <1>1 DEF LimInv, TypeOK, Request
<1>4. TypeOK'
  BY <1>1, <1>2, <1>3 DEF LimInv, TypeOK
<1>5. Stage(t)
  BY DEF LimInv
<1>6. Timed(t)' /\ Filtered(t)' /\ Room(t)'
  BY <1>3, <1>5 DEF Stage, Timed, Filtered, Room, LimInv, TypeOK
<1>7. Remembered(t)'
  BY <1>3, <1>5 DEF Stage, Remembered, AsOf, List
<1> QED BY <1>3, <1>4, <1>6, <1>7, NobodyAdmitted DEF Stage

\* An entry of the shortest window passes the filter of every endpoint.
LEMMA FilterInv ==
  ASSUME LimInv, OneThread, NEW t \in Threads, Filter(t) PROVE LimInv'
<1> DEFINE kept == {r \in store : r.at > th[t].at - Window[th[t].ep]}
<1>1. Stage(t) /\ th[t] \in Check /\ admitted \subseteq Entry
  BY DEF LimInv, TypeOK
<1>2. th' = [th EXCEPT ![t].pc = "replace", ![t].kept = kept]
  BY DEF Filter
<1>3. /\ th'[t].pc = "replace" /\ th'[t].ep = th[t].ep
      /\ th'[t].at = th[t].at /\ th'[t].kept = kept
      /\ UNCHANGED <<now, store, admitted>> /\ th[t].pc = "filter"
  BY <1>1, <1>2 DEF Filter, LimInv, TypeOK, Check
<1>4. TypeOK'
  <2>1. kept \in SUBSET Entry
    BY DEF LimInv, TypeOK
  <2> HIDE DEF kept
  <2> QED BY <1>2, <1>3, <2>1 DEF LimInv, TypeOK, Check
<1>5. Timed(t)' /\ Filtered(t)' /\ Room(t)'
  BY <1>1, <1>3 DEF Stage, Timed, Filtered, Room, List
<1>6. Remembered(t)'
  <2>1. ASSUME NEW w \in Windows, IsShortest(w), NEW b \in admitted,
               b.at > th[t].at - w
        PROVE  b \in kept
    <3>1. b \in store
      BY <1>1, <1>3, <2>1 DEF Stage, Remembered, AsOf, List
    <3>2. th[t].ep \in Endpoints /\ w <= Window[th[t].ep]
      BY <1>1, <1>3, <2>1 DEF Stage, Timed, IsShortest
    <3>3. b.at \in Nat /\ th[t].at \in Nat /\ w \in Nat /\ Window[th[t].ep] \in Nat
      BY <1>1, <3>2, WindowType, LimitAssumption DEF Entry, Check
    <3> QED BY <2>1, <3>1, <3>2, <3>3
  <2> QED BY <1>3, <2>1 DEF Remembered, AsOf, List
<1> QED BY <1>3, <1>4, <1>5, <1>6, NobodyAdmitted DEF Stage

LEMMA ReplaceInv ==
  ASSUME LimInv, OneThread, NEW t \in Threads, Replace(t) PROVE LimInv'
<1>1. Stage(t) /\ th[t] \in Check
  BY DEF LimInv, TypeOK
<1>2. /\ th'[t].pc = "test" /\ th'[t].ep = th[t].ep /\ th'[t].at = th[t].at
      /\ UNCHANGED <<now, admitted>> /\ store' = th[t].kept
      /\ th[t].pc = "replace"
  BY <1>1 DEF Replace, LimInv, TypeOK, Check
<1>3. TypeOK'
  BY <1>1, <1>2 DEF Replace, LimInv, TypeOK, Check
<1>4. Timed(t)' /\ Filtered(t)' /\ Room(t)' /\ Remembered(t)'
  BY <1>1, <1>2
     DEF Stage, Timed, Filtered, Room, Remembered, AsOf, List
<1> QED BY <1>2, <1>3, <1>4, NobodyAdmitted DEF Stage

LEMMA RefuseInv ==
  ASSUME LimInv, OneThread, NEW t \in Threads, Refuse(t) PROVE LimInv'
<1>1. Stage(t) /\ th[t] \in Check /\ admitted \subseteq Entry /\ now \in Nat
  BY DEF LimInv, TypeOK
<1>2. /\ th'[t].pc = "idle" /\ UNCHANGED <<now, store, admitted>>
      /\ th[t].pc = "test"
  BY DEF Refuse, LimInv, TypeOK, Idle
<1>3. TypeOK'
  BY IdleType DEF Refuse, LimInv, TypeOK
<1>4. Timed(t)' /\ Filtered(t)' /\ Room(t)'
  BY <1>1, <1>2 DEF Stage, Timed, Filtered, Room
<1>5. Remembered(t)'
  <2>1. ASSUME NEW w \in Windows, NEW b \in admitted, b.at > now - w
        PROVE  b.at > th[t].at - w
    BY <1>1, <1>2, <2>1, WindowType DEF Stage, Timed, Entry, Check
  <2> QED BY <1>1, <1>2, <2>1 DEF Stage, Remembered, AsOf, List
<1> QED BY <1>2, <1>3, <1>4, <1>5, NobodyAdmitted DEF Stage

LEMMA PassInv ==
  ASSUME LimInv, OneThread, NEW t \in Threads, Pass(t) PROVE LimInv'
<1>1. Stage(t) /\ th[t] \in Check
  BY DEF LimInv, TypeOK
<1>2. /\ th'[t].pc = "append" /\ th'[t].ep = th[t].ep /\ th'[t].at = th[t].at
      /\ UNCHANGED <<now, store, admitted>> /\ th[t].pc = "test"
      /\ Cardinality(store) < Limit[th[t].ep]
  BY <1>1 DEF Pass, LimInv, TypeOK, Check
<1>3. TypeOK'
  BY <1>1, <1>2 DEF Pass, LimInv, TypeOK, Check
<1>4. Timed(t)' /\ Filtered(t)' /\ Room(t)' /\ Remembered(t)'
  BY <1>1, <1>2
     DEF Stage, Timed, Filtered, Room, Remembered, AsOf, List
<1> QED BY <1>2, <1>3, <1>4, NobodyAdmitted DEF Stage

\* The request that is let through counts with those in the list, which has
\* room for it; it comes too late to count with any request before it.
LEMMA AdmitInv ==
  ASSUME LimInv, OneThread, NEW t \in Threads, Admit(t) PROVE LimInv'
<1> DEFINE n == NewEntry(t)
<1>1. /\ Stage(t) /\ th[t] \in Check /\ admitted \subseteq Entry /\ now \in Nat
      /\ IsFiniteSet(admitted) /\ Threads = {t}
  BY DEF LimInv, TypeOK, Numbered, OneThread
<1>2. /\ th'[t].pc = "idle" /\ UNCHANGED now /\ th[t].pc = "append"
      /\ store' = store \cup {n} /\ admitted' = admitted \cup {n}
  BY DEF Admit, LimInv, TypeOK, Idle
<1>3. /\ n.id = Cardinality(admitted) + 1 /\ n.ep = th[t].ep
      /\ n.at = th[t].at
  BY DEF NewEntry
<1>4. Cardinality(admitted) \in Nat
  BY <1>1, FS_CardinalityType
<1>5. th[t].ep \in Endpoints /\ th[t].at \in Nat /\ th[t].at <= now
  BY <1>1, <1>2 DEF Stage, Timed, Check
<1>6. n \in Entry
  BY <1>4, <1>5 DEF NewEntry, Entry
<1> HIDE DEF n
<1>7. TypeOK'
  BY <1>2, <1>6, IdleType DEF Admit, LimInv, TypeOK
<1>8. \A a \in admitted : a.id \in Nat /\ a.at \in Nat /\ a.id < n.id
  BY <1>1, <1>3, <1>4 DEF LimInv, Numbered, Entry
<1>9. Numbered'
  <2>1. n \notin admitted
    BY <1>8
  <2>2. /\ IsFiniteSet(admitted')
        /\ Cardinality(admitted') = Cardinality(admitted) + 1
    BY <1>1, <1>2, <2>1, FS_AddElement
  <2>3. \A a \in admitted : a.id <= Cardinality(admitted) + 1
    BY <1>3, <1>4, <1>8
  <2>4. \A a \in admitted' : a.id <= Cardinality(admitted')
    BY <1>2, <1>3, <1>4, <2>2, <2>3
  <2> QED BY <2>2, <2>4 DEF Numbered
<1>10. Stage(t)'
  <2>1. Timed(t)' /\ Filtered(t)' /\ Room(t)'
    BY <1>1, <1>2 DEF Stage, Timed, Filtered, Room
  <2>2. ASSUME NEW w \in Windows, IsShortest(w), NEW b \in admitted',
               b.at > now - w
        PROVE  b \in store'
    <3>1. CASE b = n
      BY <1>2, <3>1
    <3>2. CASE b \in admitted
      <4>1. b.at > th[t].at - w
        BY <1>5, <1>8, <1>1, <2>2, <3>2, WindowType
      <4> QED BY <1>1, <1>2, <2>2, <3>2, <4>1
              DEF Stage, Remembered, AsOf, List
    <3> QED BY <1>2, <3>1, <3>2
  <2>3. Remembered(t)'
    BY <1>2, <2>2 DEF Remembered, AsOf, List
  <2> QED BY <2>1, <2>3 DEF Stage
<1>11. ShortestWindowLimit'
  <2>1. ASSUME NEW a \in admitted', NEW w \in Windows, IsShortest(w)
        PROVE  Cardinality(UpTo(a, w)') <= Limit[a.ep]
    <3>1. CASE a \in admitted
      <4>1. n.id > a.id
        BY <1>8, <3>1, <1>3, <1>4
      <4>2. UpTo(a, w)' = UpTo(a, w)
        BY <1>2, <1>3, <1>4, <1>8, <3>1 DEF UpTo
      <4> QED BY <2>1, <3>1, <4>2 DEF LimInv, ShortestWindowLimit, Windows
    <3>2. CASE a = n
      <4>1. UpTo(a, w)' \subseteq store \cup {n}
        BY <1>1, <1>2, <1>3, <2>1, <3>2
           DEF UpTo, Stage, Remembered, AsOf, List
      <4>2. /\ IsFiniteSet(store) /\ Cardinality(store) \in Nat
            /\ Cardinality(store) < Limit[th[t].ep]
        <5>1. IsFiniteSet(store)
          BY <1>1, FS_Subset DEF Stage, Timed
        <5> QED BY <1>1, <1>2, <5>1, FS_CardinalityType DEF Stage, Room
      <4>3. /\ IsFiniteSet(store \cup {n})
            /\ Cardinality(store \cup {n}) <= Cardinality(store) + 1
        BY <4>2, FS_AddElement
      <4>4. /\ IsFiniteSet(UpTo(a, w)')
            /\ Cardinality(UpTo(a, w)') <= Cardinality(store \cup {n})
        BY <4>1, <4>3, FS_Subset
      <4>5. /\ Cardinality(UpTo(a, w)') \in Nat
            /\ Cardinality(store \cup {n}) \in Nat
        BY <4>3, <4>4, FS_CardinalityType
      <4>6. Limit[th[t].ep] \in Nat
        BY <1>5, LimitAssumption
      <4> QED BY <1>3, <3>2, <4>2, <4>3, <4>4, <4>5, <4>6
    <3> QED BY <1>2, <3>1, <3>2
  <2> QED BY <2>1 DEF ShortestWindowLimit, Windows, IsShortest
<1> QED BY <1>1, <1>7, <1>9, <1>10, <1>11 DEF LimInv

LEMMA NextInv == ASSUME LimInv, OneThread, [Next]_vars PROVE LimInv'
<1>1. CASE UNCHANGED vars
  BY <1>1
     DEF vars, LimInv, TypeOK, Numbered, ShortestWindowLimit, UpTo, Stage, Timed,
         Remembered, Filtered, Room, AsOf, List
<1>2. CASE Tick
  BY <1>2, TickInv
<1>3. ASSUME NEW t \in Threads,
             \/ Request(t) \/ Filter(t) \/ Replace(t)
             \/ Refuse(t) \/ Pass(t) \/ Admit(t)
      PROVE  LimInv'
  BY <1>3, RequestInv, FilterInv, ReplaceInv, RefuseInv, PassInv, AdmitInv
<1> QED BY <1>1, <1>2, <1>3 DEF Next

\* While one check runs at a time, the list, its copies and the room for one more
\* keep in step.
THEOREM Invariance == ASSUME OneThread PROVE Spec => []LimInv
<1>1. LimInv /\ [Next]_vars => LimInv'
  BY NextInv
<1> QED BY InitInv, <1>1, PTL DEF Spec

\* While one check runs at a time: whenever a request to an endpoint is let
\* through, at most as many as its limit were let through in the shortest window,
\* whatever the other endpoints.
THEOREM LimitHolds == ASSUME OneThread PROVE Spec => []ShortestWindowLimit
<1>1. LimInv => ShortestWindowLimit
  BY DEF LimInv
<1> QED BY <1>1, Invariance, PTL

\* While one check runs at a time, the list between checks holds every request of
\* the shortest window.
THEOREM RecentStaysRemembered == ASSUME OneThread PROVE Spec => []RecentRemembered
<1>1. LimInv => RecentRemembered
  <2> SUFFICES ASSUME LimInv, \A t \in Threads : th[t].pc = "idle"
               PROVE  \A b \in admitted, w \in Windows :
                        IsShortest(w) /\ b.at > now - w => b \in store
    BY DEF RecentRemembered, Windows
  <2>1. PICK t \in Threads : TRUE
    BY DEF OneThread
  <2>2. Remembered(t) /\ th[t].pc = "idle"
    BY DEF LimInv, Stage
  <2> QED BY <2>2 DEF Remembered, AsOf, List
<1> QED BY <1>1, Invariance, PTL

\* While one check runs at a time, nobody is refused without cause: the requests
\* that fill the list are in the window of the endpoint that refuses.  (A check
\* that overlaps may put entries back that another has dropped.)
THEOREM RefusalsHaveCause == ASSUME OneThread PROVE Spec => NoSpuriousRefusal
<1> DEFINE Caused ==
      \A t \in Threads :
        Refuse(t) => Cardinality({b \in admitted :
                       b.at > th[t].at - Window[th[t].ep]}) >= Limit[th[t].ep]
<1>1. LimInv => Caused
  <2> SUFFICES ASSUME LimInv, NEW t \in Threads, Refuse(t)
               PROVE  Cardinality({b \in admitted :
                        b.at > th[t].at - Window[th[t].ep]}) >= Limit[th[t].ep]
    OBVIOUS
  <2> DEFINE recent == {b \in admitted : b.at > th[t].at - Window[th[t].ep]}
  <2>1. Stage(t) /\ th[t].pc = "test" /\ Cardinality(store) >= Limit[th[t].ep]
    BY DEF LimInv, Refuse
  <2>2. store \subseteq recent /\ recent \subseteq admitted
    BY <2>1 DEF Stage, Timed, Filtered, List
  <2>3. th[t].ep \in Endpoints /\ IsFiniteSet(admitted)
    BY <2>1 DEF Stage, Timed, LimInv, Numbered
  <2> HIDE DEF recent
  <2>4. IsFiniteSet(recent)
    BY <2>2, <2>3, FS_Subset
  <2>5. IsFiniteSet(store) /\ Cardinality(store) <= Cardinality(recent)
    BY <2>2, <2>4, FS_Subset
  <2>6. /\ Cardinality(store) \in Nat /\ Cardinality(recent) \in Nat
        /\ Limit[th[t].ep] \in Nat
    BY <2>3, <2>4, <2>5, FS_CardinalityType, LimitAssumption
  <2>7. Cardinality(recent) >= Limit[th[t].ep]
    BY <2>1, <2>5, <2>6
  <2> QED BY <2>7 DEF recent
<1> QED BY <1>1, Invariance, PTL DEF NoSpuriousRefusal
=============================================================================
