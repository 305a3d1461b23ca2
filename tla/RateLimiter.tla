---------------------------- MODULE RateLimiter ----------------------------
(***************************************************************************)
(* check_rate_limit (app/main.py), for the requests of one address.        *)
(*                                                                         *)
(* _RATE_LIMIT_STORE keeps one list of times per address, shared by every  *)
(* endpoint that declares a limit, each with a maximum and a window of its *)
(* own.  The dependency is a plain `def`, so it runs in the threads of the *)
(* pool, and no lock covers its steps: it reads the list and filters it,   *)
(* puts the filtered list in its place, tests its length, and appends.     *)
(*                                                                         *)
(* The list is modelled as a set of numbered entries: what counts is which *)
(* requests it remembers, not their order.                                 *)
(***************************************************************************)
EXTENDS Integers, FiniteSets

CONSTANTS
  Threads,    \* the threads that run the dependency
  Endpoints,  \* the endpoints that declare a limit
  Limit,      \* Limit[e]: max_requests of endpoint e
  Window,     \* Window[e]: window_seconds of endpoint e
  Horizon,    \* bound: the time at which the clock stops
  None        \* no endpoint

ASSUME LimitAssumption ==
  /\ Limit \in [Endpoints -> Nat \ {0}]
  /\ Window \in [Endpoints -> Nat \ {0}]
  /\ Horizon \in Nat
  /\ None \notin Endpoints

VARIABLES
  now,       \* time.time(), in whole units
  store,     \* the entries of the address in _RATE_LIMIT_STORE
  th,        \* what the dependency in each thread is doing
  admitted   \* history: every request that was let through, in id order

vars == <<now, store, th, admitted>>

Entry == [id : Nat, ep : Endpoints, at : Nat]
Check ==
  [pc : {"idle", "filter", "replace", "test", "append"},
   ep : Endpoints \cup {None},
   at : Nat,                    \* current_time
   kept : SUBSET Entry]         \* the filtered list

TypeOK ==
  /\ now \in Nat
  /\ store \subseteq Entry
  /\ th \in [Threads -> Check]
  /\ admitted \subseteq Entry

Idle == [pc |-> "idle", ep |-> None, at |-> 0, kept |-> {}]

Init ==
  /\ now = 0
  /\ store = {}
  /\ th = [t \in Threads |-> Idle]
  /\ admitted = {}

-----------------------------------------------------------------------------
Tick ==
  /\ now < Horizon
  /\ now' = now + 1
  /\ UNCHANGED <<store, th, admitted>>

Request(t) ==
  /\ th[t].pc = "idle"
  /\ \E e \in Endpoints :
       th' = [th EXCEPT ![t] = [pc |-> "filter", ep |-> e, at |-> now,
                                kept |-> {}]]
  /\ UNCHANGED <<now, store, admitted>>

\* Mutant of Filter: half the window.
FilterHalf(t) ==
  /\ th[t].pc = "filter"
  /\ th' = [th EXCEPT
       ![t].pc = "replace",
       ![t].kept = {r \in store : r.at > th[t].at - Window[th[t].ep] \div 2}]
  /\ UNCHANGED <<now, store, admitted>>

\* Mutant of Filter: nothing expires.
FilterNothing(t) ==
  /\ th[t].pc = "filter"
  /\ th' = [th EXCEPT ![t].pc = "replace", ![t].kept = store]
  /\ UNCHANGED <<now, store, admitted>>

\* Entries older than the window of the endpoint asked for go, whichever
\* endpoint they were for.
Filter(t) ==
  /\ th[t].pc = "filter"
  /\ th' = [th EXCEPT
       ![t].pc = "replace",
       ![t].kept = {r \in store : r.at > th[t].at - Window[th[t].ep]}]
  /\ UNCHANGED <<now, store, admitted>>

Replace(t) ==
  /\ th[t].pc = "replace"
  /\ store' = th[t].kept
  /\ th' = [th EXCEPT ![t].pc = "test", ![t].kept = {}]
  /\ UNCHANGED <<now, admitted>>

\* 429
Refuse(t) ==
  /\ th[t].pc = "test"
  /\ Cardinality(store) >= Limit[th[t].ep]
  /\ th' = [th EXCEPT ![t] = Idle]
  /\ UNCHANGED <<now, store, admitted>>

\* Mutant of Pass: off by one.
PassOneMore(t) ==
  /\ th[t].pc = "test"
  /\ Cardinality(store) <= Limit[th[t].ep]
  /\ th' = [th EXCEPT ![t].pc = "append"]
  /\ UNCHANGED <<now, store, admitted>>

Pass(t) ==
  /\ th[t].pc = "test"
  /\ Cardinality(store) < Limit[th[t].ep]
  /\ th' = [th EXCEPT ![t].pc = "append"]
  /\ UNCHANGED <<now, store, admitted>>

\* Mutant of NewEntry: remembers cutoff_time instead of current_time.
CutoffEntry(t) ==
  [id |-> Cardinality(admitted) + 1, ep |-> th[t].ep,
   at |-> th[t].at - Window[th[t].ep]]

NewEntry(t) ==
  [id |-> Cardinality(admitted) + 1, ep |-> th[t].ep, at |-> th[t].at]

Admit(t) ==
  /\ th[t].pc = "append"
  /\ store' = store \cup {NewEntry(t)}
  /\ admitted' = admitted \cup {NewEntry(t)}
  /\ th' = [th EXCEPT ![t] = Idle]
  /\ UNCHANGED now

Next ==
  \/ Tick
  \/ \E t \in Threads :
       \/ Request(t) \/ Filter(t) \/ Replace(t)
       \/ Refuse(t) \/ Pass(t) \/ Admit(t)

Spec == Init /\ [][Next]_vars

-----------------------------------------------------------------------------
(* Properties *)

\* The requests let through up to a, in the w units of time that end with a.
UpTo(a, w) == {b \in admitted : b.id <= a.id /\ b.at > a.at - w}

\* The shortest of the windows.
IsShortest(w) ==
  /\ \E e \in Endpoints : w = Window[e]
  /\ \A e \in Endpoints : w <= Window[e]

\* What the limiter guarantees while checks do not overlap: whenever a request
\* to e is let through, at most Limit[e] requests to all endpoints together
\* were let through in the shortest window.  Entries that recent survive the
\* filter of every endpoint.  (main.py:43-54)
ShortestWindowLimit ==
  \A a \in admitted, w \in {Window[e] : e \in Endpoints} :
    IsShortest(w) => Cardinality(UpTo(a, w)) <= Limit[a.ep]

\* What each endpoint declares: of the requests to it, at most Limit[e] are let
\* through in any window of Window[e].  (main.py:580, 643, 1080, 1104, 1116)
DeclaredLimit ==
  \A a \in admitted :
    Cardinality({b \in UpTo(a, Window[a.ep]) : b.ep = a.ep}) <= Limit[a.ep]

\* While checks do not overlap nobody is refused without cause: when a request to e
\* is refused, Limit[e] requests of the address, to any endpoint, were let through
\* in its window.  (main.py:34-51)
NoSpuriousRefusal ==
  [][\A t \in Threads :
       Refuse(t) => Cardinality({b \in admitted :
                      b.at > th[t].at - Window[th[t].ep]}) >= Limit[th[t].ep]]_vars

\* While checks do not overlap, the list between them holds every request let
\* through in the shortest window: no endpoint's filter drops it.  (main.py:43-47)
RecentRemembered ==
  (\A t \in Threads : th[t].pc = "idle") =>
    \A b \in admitted, w \in {Window[e] : e \in Endpoints} :
      IsShortest(w) /\ b.at > now - w => b \in store
=============================================================================
