-------------------------- MODULE LeaderboardCache --------------------------
(***************************************************************************)
(* GET /api/leaderboard (app/main.py) behind the in-memory cache of        *)
(* app/cache.py, and the completions that change its answer: record_time   *)
(* (app/crud.py) commits a row, then drops the cached leaderboard.         *)
(*                                                                         *)
(* Reads and writes run in the threads of the pool.  Each operation of the *)
(* cache holds its lock; nothing orders a read's query and its set against *)
(* a write's commit and its invalidation.                                  *)
(*                                                                         *)
(* A leaderboard is modelled by the number of completions it was computed  *)
(* from and the number of rows it was asked for: crud.get_leaderboard is a *)
(* function of the table and the limit.  An entry carries the time it has  *)
(* left, and is expired when that is below zero.                           *)
(***************************************************************************)
EXTENDS Integers, FiniteSets

CONSTANTS
  Threads,     \* the threads that run the handlers
  Dates,       \* days with a leaderboard
  Limits,      \* limits requests ask for
  Ttl,         \* units of time an entry is kept, ttl_minutes of main.py
  MaxRows,     \* bound: completions per day
  Overlap,     \* FALSE: no read of a day runs while it gets a completion
  Faults,      \* TRUE: a handler may die between two of its steps
  None         \* no day, no entry

ASSUME CacheAssumption ==
  /\ Limits \subseteq Nat \ {0}
  /\ {Ttl, MaxRows} \subseteq Nat
  /\ {Overlap, Faults} \subseteq BOOLEAN
  /\ None \notin Dates

VARIABLES
  rows,    \* completions committed, by day
  cache,   \* the entry of key leaderboard:<day>, by day
  th       \* what the handler in each thread is doing

vars == <<rows, cache, th>>

Board == [seen : Nat, limit : Limits]
Entry == [board : Board, left : -1 .. Ttl]
Handler ==
  [pc : {"idle", "lookup", "query", "set", "reply", "commit", "invalidate"},
   date : Dates \cup {None},
   limit : Limits \cup {0},
   board : Board \cup {None}]   \* leaders, once the handler has them

TypeOK ==
  /\ rows \in [Dates -> Nat]
  /\ cache \in [Dates -> Entry \cup {None}]
  /\ th \in [Threads -> Handler]

Idle == [pc |-> "idle", date |-> None, limit |-> 0, board |-> None]

Init ==
  /\ rows = [d \in Dates |-> 0]
  /\ cache = [d \in Dates |-> None]
  /\ th = [t \in Threads |-> Idle]

Goto(t, stage) == th' = [th EXCEPT ![t].pc = stage]
Return(t) == th' = [th EXCEPT ![t] = Idle]

Reading(t, d) ==
  th[t].date = d /\ th[t].pc \in {"lookup", "query", "set", "reply"}
Writing(t, d) == th[t].date = d /\ th[t].pc \in {"commit", "invalidate"}

-----------------------------------------------------------------------------
(* The cache *)

Live(d) == cache[d] # None /\ cache[d].left >= 0

\* Mutant of Forget: the entry stays.
ForgetNothing(d) == UNCHANGED cache

Forget(d) == cache' = [cache EXCEPT ![d] = None]

\* Mutant of Store: an entry that never expires.
StoreForGood(d, b) ==
  cache' = [cache EXCEPT ![d] = [board |-> b, left |-> Ttl + 1]]

Store(d, b) == cache' = [cache EXCEPT ![d] = [board |-> b, left |-> Ttl]]

\* Mutant of Tick: the last unit of time never runs out.
TickToZero ==
  /\ cache' = [d \in Dates |->
       IF Live(d) /\ cache[d].left > 0 THEN [cache[d] EXCEPT !.left = @ - 1]
                                      ELSE cache[d]]
  /\ UNCHANGED <<rows, th>>

Tick ==
  /\ cache' = [d \in Dates |->
       IF Live(d) THEN [cache[d] EXCEPT !.left = @ - 1] ELSE cache[d]]
  /\ UNCHANGED <<rows, th>>

-----------------------------------------------------------------------------
(* GET /api/leaderboard *)

AskLeaderboard(t) ==
  /\ th[t].pc = "idle"
  /\ \E d \in Dates, l \in Limits :
       /\ ~Overlap => \A r \in Threads : ~Writing(r, d)
       /\ th' = [th EXCEPT ![t] = [Idle EXCEPT !.pc = "lookup", !.date = d,
                                               !.limit = l]]
  /\ UNCHANGED <<rows, cache>>

\* A live entry answers, whatever limit it was computed for.
Hit(t) ==
  /\ th[t].pc = "lookup"
  /\ Live(th[t].date)
  /\ th' = [th EXCEPT ![t].board = cache[th[t].date].board, ![t].pc = "reply"]
  /\ UNCHANGED <<rows, cache>>

\* An expired entry is deleted on the way.
Miss(t) ==
  /\ th[t].pc = "lookup"
  /\ ~Live(th[t].date)
  /\ Goto(t, "query")
  /\ Forget(th[t].date)
  /\ UNCHANGED rows

Query(t) ==
  /\ th[t].pc = "query"
  /\ th' = [th EXCEPT ![t].board = [seen |-> rows[th[t].date],
                                    limit |-> th[t].limit],
                      ![t].pc = "set"]
  /\ UNCHANGED <<rows, cache>>

Fill(t) ==
  /\ th[t].pc = "set"
  /\ Store(th[t].date, th[t].board)
  /\ Goto(t, "reply")
  /\ UNCHANGED rows

Reply(t) ==
  /\ th[t].pc = "reply"
  /\ Return(t)
  /\ UNCHANGED <<rows, cache>>

-----------------------------------------------------------------------------
(* crud.record_time *)

RecordTime(t) ==
  /\ th[t].pc = "idle"
  /\ \E d \in Dates :
       /\ rows[d] + Cardinality({r \in Threads : Writing(r, d)}) < MaxRows
       /\ ~Overlap => \A r \in Threads : ~Reading(r, d)
       /\ th' = [th EXCEPT ![t] = [Idle EXCEPT !.pc = "commit", !.date = d]]
  /\ UNCHANGED <<rows, cache>>

\* Mutant of Commit: an invalidation before the commit instead of after it.
CommitLate(t) ==
  /\ th[t].pc = "commit"
  /\ rows' = [rows EXCEPT ![th[t].date] = @ + 1]
  /\ Return(t)
  /\ UNCHANGED cache

Commit(t) ==
  /\ th[t].pc = "commit"
  /\ rows' = [rows EXCEPT ![th[t].date] = @ + 1]
  /\ Goto(t, "invalidate")
  /\ UNCHANGED cache

Invalidate(t) ==
  /\ th[t].pc = "invalidate"
  /\ Forget(th[t].date)
  /\ Return(t)
  /\ UNCHANGED rows

\* The database raises, or the thread is lost; the process, and with it the
\* cache, lives on.
Die(t) ==
  /\ Faults
  /\ th[t].pc \in {"query", "commit", "invalidate"}
  /\ Return(t)
  /\ UNCHANGED <<rows, cache>>

Restart ==
  /\ Faults
  /\ cache' = [d \in Dates |-> None]
  /\ th' = [t \in Threads |-> Idle]
  /\ UNCHANGED rows

Step(t) ==
  \/ Hit(t) \/ Miss(t) \/ Query(t) \/ Fill(t) \/ Reply(t)
  \/ Commit(t) \/ Invalidate(t)
Next ==
  \/ \E t \in Threads :
       AskLeaderboard(t) \/ RecordTime(t) \/ Step(t) \/ Die(t)
  \/ Tick \/ Restart

Spec == Init /\ [][Next]_vars

\* Handlers that were admitted run, and time passes; nobody has to ask.
Fairness == WF_vars(Tick) /\ \A t \in Threads : WF_vars(Step(t))
FairSpec == Spec /\ Fairness

-----------------------------------------------------------------------------
(* Properties *)

Fresh(d) == Live(d) => cache[d].board.seen = rows[d]

\* No completion of day d is committed and not yet followed by its
\* invalidation.
Settled(d) == \A t \in Threads : ~(th[t].pc = "invalidate" /\ th[t].date = d)

\* Where reads of a day do not overlap its completions and no handler dies, no
\* entry outlives a completion: unless one of day d is being recorded, a live entry
\* was computed from every row.  (crud.py:122-125, cache.py:152)
CachedIsCurrent == \A d \in Dates : Settled(d) => Fresh(d)

\* Where reads of a day do not overlap its completions and no handler dies, a
\* leaderboard handed out counts every completion: what one player is shown is not
\* older than what another was shown before.  (main.py:591-600)
AnswerIsCurrent ==
  \A t \in Threads : th[t].pc = "reply" => th[t].board.seen = rows[th[t].date]

\* A leaderboard handed out has as many rows as were asked for.
\* (main.py:584-600)
AnswerFitsLimit ==
  \A t \in Threads : th[t].pc = "reply" => th[t].board.limit = th[t].limit

\* Staleness ends: once completions stop, every stale entry goes, even one
\* that a slow read puts back after the last invalidation, or that a handler
\* that died never dropped.  (cache.py:47, main.py:598)
StalenessEnds == <>[](\A d \in Dates : Fresh(d))
=============================================================================
