-------------------- MODULE GameSessionExclusive_proofs --------------------
(***************************************************************************)
(* Proofs about GameSession when the requests of one player do not         *)
(* overlap, for any number of threads, players, days, cards and sessions,  *)
(* with handlers that die: the accounts of a session are right, the        *)
(* session that is played is its player's last, a day gets one time from   *)
(* sessions, and the handlers implement AtomicPlay.                        *)
(***************************************************************************)
EXTENDS GameSession_proofs, FiniteSetTheorems, WellFoundedInduction

USE NoneAssumption

-----------------------------------------------------------------------------
(* The invariant, beside Inv *)

IsRegistered(p) == name[p] # Absent

\* Whoever a client or a handler knows, or a session belongs to, is a player;
\* an id that is not used yet has no board and no sets.
Registered ==
  /\ \A p \in cookies : IsRegistered(p)
  /\ \A s \in Sids :
       /\ sess[s].state = "absent" => sess[s] = NoSession /\ found[s] = <<>>
       /\ sess[s].state # "absent" => IsRegistered(sess[s].player)
  /\ \A t \in Threads : \A p \in {th[t].pid, th[t].cookie} \ {None} :
       IsRegistered(p)

\* Two handlers act for different players, and for different names.
Distinct(h, k) ==
  /\ ActsFor(h) \cap ActsFor(k) = {}
  /\ h.user # None => k.user # h.user

Apart ==
  \A t, r \in InFlight : t # r => Distinct(th[t], th[r])

\* What a handler has read of its player's day is still so.
UpToDate(h) ==
  /\ h.pc \in {"find", "new", "create"} => ~HasCompleted(h.pid, h.date)
  /\ h.pc \in {"new", "create"} => ActiveSessions(h.pid, h.date) = {}
  /\ h.pc = "create" => \A r \in SessionsOf(<<h.pid, h.date>>) : r < h.sid
  /\ h.sid # None /\ h.pc \in {"guard", "apply"} =>
       sess[h.sid].state = "active" /\ sess[h.sid].board = h.board
  /\ h.sid # None /\ h.pc \in {"apply", "record"} =>
       ~HasCompleted(h.pid, h.date)

HandlersUpToDate == \A t \in Threads : UpToDate(th[t])

\* An unfinished session is the last of its player and day.
ActiveIsLatest ==
  \A s, r \in Sids :
    /\ sess[s].state = "active" /\ sess[r].state # "absent"
    /\ sess[s].player = sess[r].player /\ sess[s].date = sess[r].date
    => r <= s

Excl ==
  /\ Registered
  /\ Apart
  /\ HandlersUpToDate
  /\ ActiveIsLatest
  /\ CardsAccountedFor
  /\ FinishedIsExhausted
  /\ OneSessionTimePerDay

LEMMA InitExcl == Init => Excl
<1> SUFFICES ASSUME Init PROVE Excl
  OBVIOUS
<1>1. /\ \A t \in Threads : th[t] = Idle
      /\ \A s \in Sids : sess[s] = NoSession /\ found[s] = <<>>
      /\ cookies = {} /\ completions = <<>>
  BY DEF Init
<1>2. Registered
  <2>1. NoSession.state = "absent" /\ Idle.pid = None /\ Idle.cookie = None
    BY DEF NoSession, Idle
  <2> QED BY <1>1, <2>1 DEF Registered
<1>3. Apart /\ HandlersUpToDate
  BY <1>1 DEF Apart, InFlight, HandlersUpToDate, UpToDate, Idle
<1>4. ActiveIsLatest /\ CardsAccountedFor /\ FinishedIsExhausted
  BY <1>1 DEF ActiveIsLatest, CardsAccountedFor, FinishedIsExhausted, NoSession
<1>5. OneSessionTimePerDay
  BY <1>1 DEF OneSessionTimePerDay
<1> QED BY <1>2, <1>3, <1>4, <1>5 DEF Excl

-----------------------------------------------------------------------------
(* Steps that leave names, sessions and found sets alone *)

\* A handler that holds a player of its own acts for it.
LEMMA ActsForItsPlayer ==
  ASSUME Inv, NEW t \in Threads,
         \/ th[t].pc \in {"check", "find", "new", "create"}
         \/ th[t].pc \in {"guard", "apply", "record"} /\ th[t].sid # None
  PROVE  th[t].pid \in Players /\ th[t].pid \in ActsFor(th[t])
<1>1. th[t] \in Handler /\ InStep(th[t])
  BY DEF Inv, TypeOK, HandlersInStep
<1>2. CASE th[t].pc \in {"check", "find", "new", "create"}
  BY <1>1, <1>2 DEF InStep, ActsFor
<1>3. CASE th[t].pc \in {"guard", "apply", "record"} /\ th[t].sid # None
  <2>1. /\ th[t].sid \in Sids /\ sess[th[t].sid].state # "absent"
        /\ th[t].pid = sess[th[t].sid].player
    BY <1>1, <1>3 DEF InStep, Handler
  <2>2. th[t].pid \in Players
    BY <2>1 DEF Inv, RowsComplete
  <2> QED BY <2>2 DEF ActsFor
<1> QED BY <1>2, <1>3

\* A step of one handler that may record a time, for nobody another handler
\* acts for.
LEMMA HandlerStep ==
  ASSUME Inv, Excl, NEW t \in Threads, NEW h \in Handler,
         th' = [th EXCEPT ![t] = h],
         UNCHANGED <<name, sess, found>>,
         \A p \in cookies' : IsRegistered(p),
         \A p \in {h.pid, h.cookie} \ {None} : IsRegistered(p),
         h.pc # "idle" => \A r \in InFlight \ {t} : Distinct(h, th[r]),
         UpToDate(h)',
         \A p, d : HasCompleted(p, d)' =>
           HasCompleted(p, d) \/ \A r \in InFlight \ {t} : p \notin ActsFor(th[r]),
         OneSessionTimePerDay'
  PROVE  Excl'
<1>1. \A r \in Threads : th'[r] = IF r = t THEN h ELSE th[r]
  BY DEF Inv, TypeOK
<1>2. Registered'
  BY <1>1 DEF Excl, Registered, IsRegistered
<1>3. \A k : ActsFor(k)' = ActsFor(k)
  BY DEF ActsFor, Named
<1>4. \A r \in InFlight' : r = t \/ r \in InFlight
  BY <1>1 DEF InFlight
<1>5. Apart'
  <2>1. \A q, r \in InFlight' : q # r => Distinct(th'[q], th'[r])
    BY <1>1, <1>4 DEF Excl, Apart, Distinct, InFlight
  <2>2. \A q, r \in InFlight' : q # r => Distinct(th[q], th[r])'
    BY <2>1, <1>3 DEF Distinct
  <2> QED BY <2>2 DEF Apart
<1>6. HandlersUpToDate'
  <2>1. ASSUME NEW r \in Threads, r # t PROVE UpToDate(th[r])'
    <3>1. th'[r] = th[r] /\ UpToDate(th[r])
      BY <1>1, <2>1 DEF Excl, HandlersUpToDate
    <3>2. CASE th[r].pc \in {"find", "new", "create"}
      <4>1. ~HasCompleted(th[r].pid, th[r].date)'
        BY <2>1, <3>1, <3>2, ActsForItsPlayer DEF UpToDate, InFlight
      <4> QED BY <3>1, <3>2, <4>1
              DEF UpToDate, ActiveSessions, SessionsOf
    <3>3. CASE th[r].pc \in {"apply", "record"} /\ th[r].sid # None
      <4>1. ~HasCompleted(th[r].pid, th[r].date)'
        BY <2>1, <3>1, <3>3, ActsForItsPlayer DEF UpToDate, InFlight
      <4> QED BY <3>1, <3>3, <4>1 DEF UpToDate
    <3>4. CASE \/ th[r].pc = "guard"
               \/ /\ th[r].sid = None
                  /\ th[r].pc \notin {"find", "new", "create"}
      BY <3>1, <3>4 DEF UpToDate
    <3>5. CASE th[r].pc \notin {"find", "new", "create", "guard", "apply", "record"}
      BY <3>1, <3>5 DEF UpToDate
    <3> QED BY <3>2, <3>3, <3>4, <3>5
  <2>2. UpToDate(th[t])'
    BY <1>1 DEF UpToDate
  <2> QED BY <2>1, <2>2 DEF HandlersUpToDate
<1>7. ActiveIsLatest' /\ CardsAccountedFor' /\ FinishedIsExhausted'
  BY DEF Excl, ActiveIsLatest, CardsAccountedFor, FinishedIsExhausted, FoundIn
<1> QED BY <1>2, <1>5, <1>6, <1>7 DEF Excl

\* Such a step that records no time.
LEMMA QuietStep ==
  ASSUME Inv, Excl, NEW t \in Threads, NEW h \in Handler,
         th' = [th EXCEPT ![t] = h],
         UNCHANGED tables,
         \A p \in cookies' : IsRegistered(p),
         \A p \in {h.pid, h.cookie} \ {None} : IsRegistered(p),
         h.pc # "idle" => \A r \in InFlight \ {t} : Distinct(h, th[r]),
         UpToDate(h)
  PROVE  Excl'
<1>1. \A p, d : HasCompleted(p, d)' = HasCompleted(p, d)
  BY DEF HasCompleted, tables
<1>2. UpToDate(h)'
  BY <1>1 DEF UpToDate, ActiveSessions, SessionsOf, tables
<1>3. OneSessionTimePerDay'
  BY DEF Excl, OneSessionTimePerDay, tables
<1> QED BY <1>1, <1>2, <1>3, HandlerStep DEF tables

\* The handler goes on, for the same player or for none.
LEMMA Advance ==
  ASSUME Inv, Excl, NEW t \in Threads, th[t].pc # "idle", NEW h \in Handler,
         th' = [th EXCEPT ![t] = h],
         UNCHANGED tables,
         \A p \in cookies' : IsRegistered(p),
         \A p \in {h.pid, h.cookie} \ {None} : IsRegistered(p),
         ActsFor(h) \subseteq ActsFor(th[t]), h.user \in {None, th[t].user},
         UpToDate(h)
  PROVE  Excl'
<1>1. t \in InFlight
  BY DEF InFlight
<1>2. \A r \in InFlight \ {t} : Distinct(th[t], th[r])
  BY <1>1 DEF Excl, Apart
<1>3. \A r \in InFlight \ {t} : Distinct(h, th[r])
  BY <1>2 DEF Distinct
<1> QED BY <1>3, QuietStep

LEMMA IdleIsQuiet ==
  /\ Idle \in Handler /\ Idle.pc = "idle"
  /\ \A p \in {Idle.pid, Idle.cookie} \ {None} : IsRegistered(p)
  /\ UpToDate(Idle)
BY IdleFits DEF Idle, UpToDate

\* The handler ends, or dies.
LEMMA ReturnExcl ==
  ASSUME Inv, Excl, NEW t \in Threads, Return(t), UNCHANGED tables,
         \A p \in cookies' : IsRegistered(p)
  PROVE  Excl'
BY IdleIsQuiet, QuietStep DEF Return

\* It moves to another stage with what it holds.
LEMMA GotoExcl ==
  ASSUME Inv, Excl, NEW t \in Threads, th[t].pc # "idle", NEW stage \in Stages,
         Goto(t, stage), UNCHANGED <<tables, clients>>,
         UpToDate([th[t] EXCEPT !.pc = stage])
  PROVE  Excl'
<1> DEFINE h == [th[t] EXCEPT !.pc = stage]
<1>1. th[t] \in Handler /\ th \in [Threads -> Handler]
  BY DEF Inv, TypeOK
<1>2. /\ h \in Handler
      /\ h.pid = th[t].pid /\ h.cookie = th[t].cookie
      /\ h.user = th[t].user /\ h.sid = th[t].sid
  BY <1>1 DEF Handler
<1>3. th' = [th EXCEPT ![t] = h]
  BY <1>1 DEF Goto
<1>4. UpToDate(h)
  OBVIOUS
<1> HIDE DEF h
<1>5. ActsFor(h) = ActsFor(th[t])
  BY <1>2 DEF ActsFor
<1>6. /\ \A p \in cookies' : IsRegistered(p)
      /\ \A p \in {h.pid, h.cookie} \ {None} : IsRegistered(p)
  BY <1>2 DEF Excl, Registered, clients
<1> QED BY <1>2, <1>3, <1>4, <1>5, <1>6, Advance

-----------------------------------------------------------------------------
(* start_session *)

\* A request is admitted when no handler acts for its player or its name.
LEMMA AdmittedIsDistinct ==
  ASSUME Exclusive, NEW t \in Threads, NEW h, Admissible(t, h)
  PROVE  /\ th[t].pc = "idle"
         /\ \A r \in InFlight : Distinct(h, th[r])
BY DEF Admissible, Distinct

LEMMA StartRequestExcl ==
  ASSUME Exclusive, Inv, Excl, NEW t \in Threads, StartRequest(t)
  PROVE  Excl'
<1>1. PICK u \in Names \cup {None}, c \in cookies \cup {None}, d \in Dates :
        LET h == [Idle EXCEPT !.pc = "resolve", !.user = u, !.cookie = c,
                              !.date = d]
        IN Admissible(t, h) /\ th' = [th EXCEPT ![t] = h]
  BY DEF StartRequest
<1> DEFINE h == [Idle EXCEPT !.pc = "resolve", !.user = u, !.cookie = c,
                             !.date = d]
<1>2. h \in Handler /\ h.pid = None /\ h.cookie = c /\ h.pc = "resolve"
  BY DEF Inv, TypeOK, Handler, Stages, Idle
<1>3. Admissible(t, h) /\ th' = [th EXCEPT ![t] = h]
  BY <1>1
<1> HIDE DEF h
<1>4. \A r \in InFlight \ {t} : Distinct(h, th[r])
  BY <1>3, AdmittedIsDistinct
<1>5. UpToDate(h)
  BY <1>2 DEF UpToDate
<1>6. /\ \A p \in cookies' : IsRegistered(p)
      /\ \A p \in {h.pid, h.cookie} \ {None} : IsRegistered(p)
  BY <1>2 DEF StartRequest, Excl, Registered, clients
<1> QED BY <1>2, <1>3, <1>4, <1>5, <1>6, QuietStep DEF StartRequest

LEMMA ResolveExcl ==
  ASSUME Inv, Excl, NEW t \in Threads, Resolve(t)
  PROVE  Excl'
<1>1. /\ th[t] \in Handler /\ th \in [Threads -> Handler]
      /\ th[t].pc = "resolve" /\ th[t].sid = None
      /\ UNCHANGED <<tables, clients>>
  BY DEF Resolve, Inv, TypeOK, HandlersInStep, InStep
<1>2. ASSUME NEW p \in Players, p \in ActsFor(th[t]), IsRegistered(p),
             Settle(t, p, FALSE)
      PROVE  Excl'
  <2> DEFINE h == [th[t] EXCEPT !.pc = "check", !.pid = p, !.user = None,
                                !.cookie = None, !.fresh = FALSE]
  <2>1. /\ h \in Handler /\ h.pc = "check" /\ h.pid = p /\ h.user = None
        /\ h.cookie = None /\ h.sid = None
    BY <1>1 DEF Handler, Stages
  <2>2. th' = [th EXCEPT ![t] = h]
    BY <1>1, <1>2 DEF Settle
  <2> HIDE DEF h
  <2>3. ActsFor(h) \subseteq ActsFor(th[t]) /\ UpToDate(h)
    BY <1>2, <2>1 DEF ActsFor, Named, UpToDate
  <2>4. /\ \A q \in cookies' : IsRegistered(q)
        /\ \A q \in {h.pid, h.cookie} \ {None} : IsRegistered(q)
    BY <1>1, <1>2, <2>1 DEF Excl, Registered, clients
  <2> QED BY <1>1, <2>1, <2>2, <2>3, <2>4, Advance
<1>3. ASSUME NEW p \in Named(th[t].user), Settle(t, p, FALSE)
      PROVE  Excl'
  <2>1. p \in Players /\ p \in ActsFor(th[t])
    BY <1>3 DEF Named, ActsFor
  <2>2. IsRegistered(p)
    BY <1>1, <1>3 DEF Named, IsRegistered, Handler
  <2> QED BY <1>2, <1>3, <2>1, <2>2
<1>4. CASE th[t].cookie # None /\ Settle(t, th[t].cookie, FALSE)
  <2>1. /\ th[t].cookie \in Players /\ th[t].cookie \in ActsFor(th[t])
        /\ IsRegistered(th[t].cookie)
    BY <1>1, <1>4 DEF Handler, ActsFor, Excl, Registered
  <2> QED BY <1>2, <1>4, <2>1
<1>5. CASE Goto(t, "register")
  <2>1. [th[t] EXCEPT !.pc = "register"].pc = "register"
    BY <1>1 DEF Handler
  <2>2. UpToDate([th[t] EXCEPT !.pc = "register"])
    BY <2>1 DEF UpToDate
  <2> QED BY <1>1, <1>5, <2>2, GotoExcl DEF Stages
<1> QED BY <1>3, <1>4, <1>5 DEF Resolve

\* A new player is known to nobody: no other handler acts for it, or waits for
\* its name.
LEMMA RegisterExcl ==
  ASSUME Inv, Excl, NEW t \in Threads, Register(t)
  PROVE  Excl'
<1>1. /\ th[t] \in Handler /\ th \in [Threads -> Handler]
      /\ th[t].pc = "register" /\ th[t].sid = None /\ t \in InFlight
      /\ UNCHANGED <<sess, found, completions, clients>>
  BY DEF Register, Inv, TypeOK, HandlersInStep, InStep, InFlight
<1>2. CASE Return(t) /\ UNCHANGED name
  BY <1>1, <1>2, ReturnExcl DEF tables, clients, Excl, Registered
<1>3. ASSUME NEW p \in Players, name[p] = Absent, Settle(t, p, TRUE),
             name' = [name EXCEPT ![p] = IF th[t].user = None
                                         THEN Anonymous ELSE th[t].user]
      PROVE  Excl'
  <2> DEFINE h == [th[t] EXCEPT !.pc = "check", !.pid = p, !.user = None,
                                !.cookie = None, !.fresh = TRUE]
  <2>1. /\ h.pc = "check" /\ h.pid = p /\ h.user = None
        /\ h.cookie = None /\ h.sid = None
    BY <1>1 DEF Handler, Stages
  <2>2. th' = [th EXCEPT ![t] = h]
    BY <1>1, <1>3 DEF Settle
  <2> HIDE DEF h
  <2>3. \A r \in Threads : th'[r] = IF r = t THEN h ELSE th[r]
    BY <1>1, <2>2
  <2>4. /\ \A q \in Players : name'[q] = IF q = p THEN name'[p] ELSE name[q]
        /\ name'[p] # Absent
        /\ name'[p] \in {th[t].user, Anonymous} \ {None}
    BY <1>1, <1>3 DEF Inv, TypeOK, Handler
  <2>5. \A q : IsRegistered(q) /\ q \in Players => IsRegistered(q)'
    BY <2>4 DEF IsRegistered
  <2>6. Registered'
    <3>1. \A q \in cookies : IsRegistered(q)'
      BY <2>5 DEF Inv, TypeOK, Excl, Registered
    <3>2. \A s \in Sids : sess[s].state # "absent" =>
                            IsRegistered(sess[s].player)'
      BY <1>1, <2>5 DEF Inv, RowsComplete, Excl, Registered, IsRegistered
    <3>3. ASSUME NEW r \in Threads, NEW q \in {th'[r].pid, th'[r].cookie} \ {None}
          PROVE  IsRegistered(q)'
      <4>1. CASE r = t
        BY <2>1, <2>3, <2>4, <3>3, <4>1 DEF IsRegistered
      <4>2. CASE r # t
        <5>1. q \in Players
          BY <1>1, <2>3, <3>3, <4>2 DEF Handler
        <5> QED BY <2>3, <2>5, <3>3, <4>2, <5>1 DEF Excl, Registered
      <4> QED BY <4>1, <4>2
    <3> QED BY <1>1, <3>1, <3>2, <3>3 DEF Excl, Registered, clients
  <2>7. ASSUME NEW r \in InFlight, r # t
        PROVE  /\ ActsFor(th[r])' = ActsFor(th[r])
               /\ p \notin ActsFor(th[r])
               /\ th'[r] = th[r]
    <3>1. th'[r] = th[r] /\ th[r] \in Handler /\ r \in Threads
      BY <1>1, <2>3, <2>7 DEF InFlight
    <3>2. th[r].user # None => th[r].user # th[t].user
      BY <1>1, <2>7 DEF Excl, Apart, Distinct
    <3>3. Named(th[r].user)' = Named(th[r].user) /\ p \notin Named(th[r].user)
      BY <1>3, <2>4, <3>1, <3>2 DEF Named, Handler
    <3>4. p # None /\ th[r].pid # p /\ th[r].cookie # p
      BY <1>3, <3>1 DEF Excl, Registered, IsRegistered
    <3>5. th[r].sid # None => sess[th[r].sid].player # p
      <4>1. \A s \in Sids : sess[s].player # p
        <5> SUFFICES ASSUME NEW s \in Sids PROVE sess[s].player # p
          OBVIOUS
        <5>1. NoSession.player = None
          BY DEF NoSession
        <5> QED BY <1>3, <5>1 DEF Excl, Registered, IsRegistered
      <4> QED BY <3>1, <4>1 DEF Handler
    <3>6. p \notin ActsFor(th[r])
      BY <3>3, <3>4, <3>5 DEF ActsFor
    <3>7. ActsFor(th[r])' = ActsFor(th[r])
      BY <1>1, <3>1, <3>3 DEF ActsFor
    <3> QED BY <3>1, <3>6, <3>7
  <2>8. ActsFor(th[t])' = {p}
    <3>1. Named(None)' = {}
      BY DEF Named
    <3> QED BY <2>1, <2>3, <3>1 DEF ActsFor
  <2>9. Apart'
    <3>1. InFlight' = InFlight
      BY <1>1, <2>1, <2>3 DEF InFlight
    <3>2. ASSUME NEW q \in InFlight, NEW r \in InFlight, q # r
          PROVE  Distinct(th[q], th[r])'
      <4>1. CASE q # t /\ r # t
        BY <2>7, <3>2, <4>1 DEF Excl, Apart, Distinct
      <4>2. CASE q = t
        BY <2>1, <2>3, <2>7, <2>8, <3>2, <4>2 DEF Distinct, InFlight
      <4>3. CASE r = t
        BY <2>1, <2>3, <2>7, <2>8, <3>2, <4>3 DEF Distinct, InFlight
      <4> QED BY <4>1, <4>2, <4>3
    <3> QED BY <3>1, <3>2 DEF Apart
  <2>10. HandlersUpToDate'
    <3>1. \A q, d : HasCompleted(q, d)' = HasCompleted(q, d)
      BY <1>1 DEF HasCompleted
    <3>2. UpToDate(th[t])'
      BY <2>1, <2>3 DEF UpToDate
    <3>3. ASSUME NEW r \in Threads, r # t PROVE UpToDate(th[r])'
      BY <1>1, <2>3, <3>1, <3>3
         DEF Excl, HandlersUpToDate, UpToDate, ActiveSessions, SessionsOf
    <3> QED BY <3>2, <3>3 DEF HandlersUpToDate
  <2> QED BY <1>1, <2>6, <2>9, <2>10
          DEF Excl, ActiveIsLatest, CardsAccountedFor, FinishedIsExhausted,
              FoundIn, OneSessionTimePerDay
<1> QED BY <1>2, <1>3 DEF Register

LEMMA CheckStartExcl ==
  ASSUME Inv, Excl, NEW t \in Threads, CheckStart(t)
  PROVE  Excl'
<1>1. th[t] \in Handler /\ th[t].pc = "check" /\ UNCHANGED <<tables, clients>>
  BY DEF CheckStart, Inv, TypeOK
<1>2. CASE Return(t)
  BY <1>1, <1>2, ReturnExcl DEF clients, Excl, Registered
<1>3. CASE ~HasCompleted(th[t].pid, th[t].date) /\ Goto(t, "find")
  <2> DEFINE h == [th[t] EXCEPT !.pc = "find"]
  <2>1. h.pc = "find" /\ h.pid = th[t].pid /\ h.date = th[t].date
    BY <1>1 DEF Handler
  <2> HIDE DEF h
  <2>2. UpToDate(h)
    BY <1>3, <2>1 DEF UpToDate
  <2> QED BY <1>1, <1>3, <2>2, GotoExcl DEF h, Stages
<1> QED BY <1>2, <1>3 DEF CheckStart

\* The player whose cookie an answer carries exists.
LEMMA ReplyKnows ==
  ASSUME Inv, Excl, NEW t \in Threads, NEW s, Reply(t, s),
         th[t].pc \in {"find", "create"}
  PROVE  \A p \in cookies' : IsRegistered(p)
<1>1. th[t].pid \in Players
  BY ActsForItsPlayer
<1> QED BY <1>1 DEF Reply, Excl, Registered

LEMMA FindActiveExcl ==
  ASSUME Inv, Excl, NEW t \in Threads, FindActive(t)
  PROVE  Excl'
<1>1. /\ th[t] \in Handler /\ th[t].pc = "find" /\ UNCHANGED tables
      /\ UpToDate(th[t])
  BY DEF FindActive, Inv, TypeOK, Excl, HandlersUpToDate
<1>2. ASSUME NEW s \in Sids, Reply(t, s) PROVE Excl'
  BY <1>1, <1>2, ReplyKnows, ReturnExcl DEF Reply
<1>3. CASE /\ ActiveSessions(th[t].pid, th[t].date) = {}
           /\ Goto(t, "new") /\ UNCHANGED clients
  <2> DEFINE h == [th[t] EXCEPT !.pc = "new"]
  <2>1. h.pc = "new" /\ h.pid = th[t].pid /\ h.date = th[t].date
    BY <1>1 DEF Handler
  <2> HIDE DEF h
  <2>2. UpToDate(h)
    BY <1>1, <1>3, <2>1 DEF UpToDate
  <2> QED BY <1>1, <1>3, <2>2, GotoExcl DEF h, Stages
<1> QED BY <1>2, <1>3 DEF FindActive

\* The id that is drawn is above those of the player's sessions.
LEMMA NewSessionExcl ==
  ASSUME Inv, Excl, NEW t \in Threads, NewSession(t)
  PROVE  Excl'
<1>1. /\ th[t] \in Handler /\ th \in [Threads -> Handler]
      /\ th[t].pc = "new" /\ th[t].sid = None
      /\ UNCHANGED <<tables, clients>> /\ UpToDate(th[t])
  BY DEF NewSession, Inv, TypeOK, HandlersInStep, InStep, Excl, HandlersUpToDate
<1>2. CASE Return(t)
  BY <1>1, <1>2, ReturnExcl DEF clients, Excl, Registered
<1>3. ASSUME NEW s \in Sids,
             \A r \in {q \in Sids : sess[q].state # "absent"}
                        \cup {th[r].sid : r \in {q \in Threads :
                                                   th[q].pc = "create"}} : r < s,
             th' = [th EXCEPT ![t].sid = s, ![t].pc = "create"]
      PROVE  Excl'
  <2> DEFINE h == [th[t] EXCEPT !.sid = s, !.pc = "create"]
  <2>1. /\ h \in Handler /\ h.sid = s /\ h.pc = "create" /\ h.pid = th[t].pid
        /\ h.cookie = th[t].cookie /\ h.user = th[t].user
        /\ h.date = th[t].date
    BY <1>1 DEF Handler, Stages
  <2>2. th' = [th EXCEPT ![t] = h]
    BY <1>1, <1>3
  <2> HIDE DEF h
  <2>3. \A r \in Sids : sess[r].state # "absent" => r < s
    BY <1>3
  <2>4. sess[s].player = None
    <3>1. s \in Int /\ ~(s < s)
      BY DEF Sids
    <3>2. NoSession.player = None
      BY DEF NoSession
    <3> QED BY <2>3, <3>1, <3>2 DEF Excl, Registered
  <2>5. ActsFor(h) \subseteq ActsFor(th[t])
    BY <1>1, <2>1, <2>4 DEF ActsFor
  <2>6. UpToDate(h)
    BY <1>1, <2>1, <2>3 DEF UpToDate, SessionsOf
  <2>7. /\ \A q \in cookies' : IsRegistered(q)
        /\ \A q \in {h.pid, h.cookie} \ {None} : IsRegistered(q)
    BY <1>1, <2>1 DEF Excl, Registered, clients
  <2> QED BY <1>1, <2>1, <2>2, <2>5, <2>6, <2>7, Advance
<1> QED BY <1>2, <1>3 DEF NewSession

\* The row that is inserted is above every other of its player and day, none of
\* which is unfinished.
LEMMA CreateSessionExcl ==
  ASSUME Inv, Excl, NEW t \in Threads, CreateSession(t)
  PROVE  Excl'
<1>1. /\ th[t] \in Handler /\ th \in [Threads -> Handler]
      /\ th[t].pc = "create" /\ UpToDate(th[t]) /\ t \in InFlight
  BY DEF CreateSession, Inv, TypeOK, Excl, HandlersUpToDate, InFlight
<1>2. PICK s \in Sids, d \in Dates, p \in Players :
        /\ s = th[t].sid /\ d = th[t].date /\ p = th[t].pid
        /\ sess[s].state = "absent" /\ p \in ActsFor(th[t])
  BY <1>1, ActsForItsPlayer DEF Inv, HandlersInStep, InStep, Handler
<1> DEFINE row == [state |-> "active", player |-> p, date |-> d,
                   board |-> Daily[d]]
<1>3. /\ sess' = [sess EXCEPT ![s] = row]
      /\ th' = [th EXCEPT ![t] = Idle]
      /\ UNCHANGED <<name, found, completions>>
      /\ \A q \in cookies' : IsRegistered(q)
  BY <1>1, <1>2, ReplyKnows DEF CreateSession, Reply, Return
<1>4. /\ \A r \in Sids : sess'[r] = IF r = s THEN row ELSE sess[r]
      /\ row.state = "active" /\ row.player = p /\ row.date = d
      /\ row.board = Daily[d]
      /\ \A r \in Threads : th'[r] = IF r = t THEN Idle ELSE th[r]
  BY <1>1, <1>2, <1>3 DEF Inv, TypeOK
<1> HIDE DEF row
<1>5. IsRegistered(p) /\ found[s] = <<>> /\ sess[s].player = None
  <2>1. NoSession.player = None
    BY DEF NoSession
  <2> QED BY <1>2, <2>1 DEF Excl, Registered
<1>6. Registered'
  <2>1. Idle.pid = None /\ Idle.cookie = None
    BY DEF Idle
  <2>2. \A r \in Threads : \A q \in {th'[r].pid, th'[r].cookie} \ {None} :
          IsRegistered(q)
    BY <1>4, <2>1 DEF Excl, Registered
  <2>3. \A r \in Sids :
          /\ sess'[r].state = "absent" => sess'[r] = NoSession /\ found[r] = <<>>
          /\ sess'[r].state # "absent" => IsRegistered(sess'[r].player)
    BY <1>4, <1>5 DEF Excl, Registered
  <2> QED BY <1>3, <2>2, <2>3 DEF Registered, IsRegistered
<1>7. ASSUME NEW r \in InFlight, r # t
      PROVE  /\ th'[r] = th[r] /\ r \in Threads
             /\ th[r].sid # None => th[r].sid \in Sids \ {s}
             /\ p \notin ActsFor(th[r])
             /\ ActsFor(th[r])' = ActsFor(th[r])
  <2>1. r \in Threads /\ th[r] \in Handler /\ th[r].pc # "idle" /\ th'[r] = th[r]
    BY <1>1, <1>4, <1>7 DEF InFlight
  <2>2. InStep(th[r]) /\ (th[r].pc = "create" => th[r].sid # s)
    BY <1>1, <1>2, <1>7, <2>1 DEF Inv, HandlersInStep
  <2>3. th[r].sid # None => th[r].sid \in Sids \ {s}
    BY <1>2, <2>1, <2>2 DEF InStep, Handler, Stages
  <2>4. p \notin ActsFor(th[r])
    BY <1>1, <1>2, <1>7 DEF Excl, Apart, Distinct
  <2>5. ActsFor(th[r])' = ActsFor(th[r])
    BY <1>3, <1>4, <2>1, <2>3 DEF ActsFor, Named
  <2> QED BY <2>1, <2>3, <2>4, <2>5
<1>8. Apart'
  <2>1. Idle.pc = "idle"
    BY DEF Idle
  <2>2. \A r \in InFlight' : r \in InFlight /\ r # t
    BY <1>4, <2>1 DEF InFlight
  <2>3. \A q, r \in InFlight' : q # r => Distinct(th[q], th[r])'
    BY <1>7, <2>2 DEF Excl, Apart, Distinct
  <2> QED BY <2>3 DEF Apart
<1>9. HandlersUpToDate'
  <2>1. UpToDate(th[t])'
    BY <1>4 DEF UpToDate, Idle
  <2>2. ASSUME NEW r \in Threads, r # t PROVE UpToDate(th[r])'
    <3>1. th'[r] = th[r] /\ UpToDate(th[r])
      BY <1>4, <2>2 DEF Excl, HandlersUpToDate
    <3>2. \A q, e : HasCompleted(q, e)' = HasCompleted(q, e)
      BY <1>3 DEF HasCompleted
    <3>3. CASE th[r].pc \in {"find", "new", "create"}
      <4>1. th[r].pid # p
        BY <1>7, <2>2, <3>3, ActsForItsPlayer DEF InFlight
      <4>2. /\ ActiveSessions(th[r].pid, th[r].date)'
                 = ActiveSessions(th[r].pid, th[r].date)
            /\ SessionsOf(<<th[r].pid, th[r].date>>)'
                 = SessionsOf(<<th[r].pid, th[r].date>>)
        BY <1>2, <1>4, <3>1, <4>1 DEF ActiveSessions, SessionsOf
      <4> QED BY <3>1, <3>2, <3>3, <4>2 DEF UpToDate
    <3>4. CASE th[r].pc \in {"guard", "apply", "record"}
      BY <1>4, <1>7, <2>2, <3>1, <3>2, <3>4 DEF UpToDate, InFlight
    <3>5. CASE th[r].pc \notin {"find", "new", "create", "guard", "apply", "record"}
      BY <3>1, <3>5 DEF UpToDate
    <3> QED BY <3>3, <3>4, <3>5
  <2> QED BY <2>1, <2>2 DEF HandlersUpToDate
<1>10. ActiveIsLatest'
  <2>1. \A r \in Sids : sess[r].player = p /\ sess[r].date = d =>
          /\ sess[r].state # "active"
          /\ sess[r].state # "absent" => r < s
    BY <1>1, <1>2 DEF UpToDate, ActiveSessions, SessionsOf
  <2>2. \A q, r \in Sids :
          /\ sess'[q].state = "active" /\ sess'[r].state # "absent"
          /\ sess'[q].player = sess'[r].player /\ sess'[q].date = sess'[r].date
          => r <= q
    BY <1>4, <2>1 DEF Excl, ActiveIsLatest, Sids
  <2> QED BY <2>2 DEF ActiveIsLatest
<1>11. CardsAccountedFor'
  <2>1. FoundIn(s)' = {} /\ found'[s] = <<>>
    BY <1>3, <1>5 DEF FoundIn
  <2>2. \A r \in Sids : FoundIn(r)' = FoundIn(r)
    BY <1>3 DEF FoundIn
  <2>3. Daily[d] = Daily[d] \ UNION {}
    OBVIOUS
  <2>4. \A i, j \in DOMAIN found'[s] : i # j => found'[s][i] \cap found'[s][j] = {}
    BY <2>1
  <2>5. ASSUME NEW r \in Sids, r # s, sess'[r].state # "absent"
        PROVE  /\ \A i, j \in DOMAIN found'[r] :
                    i # j => found'[r][i] \cap found'[r][j] = {}
               /\ sess'[r].board = Daily[sess'[r].date] \ UNION FoundIn(r)'
    BY <1>3, <1>4, <2>2, <2>5 DEF Excl, CardsAccountedFor
  <2>6. sess'[s].board = Daily[sess'[s].date] \ UNION FoundIn(s)'
    BY <1>4, <2>1, <2>3
  <2> QED BY <2>4, <2>5, <2>6 DEF CardsAccountedFor
<1>12. FinishedIsExhausted' /\ OneSessionTimePerDay'
  BY <1>3, <1>4 DEF Excl, FinishedIsExhausted, OneSessionTimePerDay
<1> QED BY <1>6, <1>8, <1>9, <1>10, <1>11, <1>12 DEF Excl

-----------------------------------------------------------------------------
(* submit_set *)

LEMMA SubmitRequestExcl ==
  ASSUME Exclusive, Inv, Excl, NEW t \in Threads, SubmitRequest(t)
  PROVE  Excl'
<1>1. PICK s \in handed \cup {None}, u \in Names \cup {None},
           d \in Dates \cup {None}, solo \in BOOLEAN :
        LET h == [Idle EXCEPT !.pc = "load", !.user = u, !.date = d, !.sid = s,
                              !.solo = solo]
        IN Admissible(t, h) /\ th' = [th EXCEPT ![t] = h]
  BY DEF SubmitRequest
<1> DEFINE h == [Idle EXCEPT !.pc = "load", !.user = u, !.date = d, !.sid = s,
                             !.solo = solo]
<1>2. h \in Handler /\ h.pid = None /\ h.cookie = None /\ h.pc = "load"
  BY DEF Inv, TypeOK, Handler, Stages, Idle
<1>3. Admissible(t, h) /\ th' = [th EXCEPT ![t] = h]
  BY <1>1
<1> HIDE DEF h
<1>4. \A r \in InFlight \ {t} : Distinct(h, th[r])
  BY <1>3, AdmittedIsDistinct
<1>5. UpToDate(h)
  BY <1>2 DEF UpToDate
<1>6. /\ \A p \in cookies' : IsRegistered(p)
      /\ \A p \in {h.pid, h.cookie} \ {None} : IsRegistered(p)
  BY <1>2 DEF SubmitRequest, Excl, Registered, clients
<1> QED BY <1>2, <1>3, <1>4, <1>5, <1>6, QuietStep DEF SubmitRequest

\* The copy that is loaded is the row.
LEMMA LoadExcl ==
  ASSUME Inv, Excl, NEW t \in Threads, Load(t)
  PROVE  Excl'
<1>1. /\ th[t] \in Handler /\ th \in [Threads -> Handler] /\ th[t].pc = "load"
      /\ UNCHANGED <<tables, clients>> /\ InStep(th[t])
  BY DEF Load, Inv, TypeOK, HandlersInStep
<1>2. CASE Return(t)
  BY <1>1, <1>2, ReturnExcl DEF clients, Excl, Registered
<1>3. CASE /\ th[t].sid = None
           /\ th' = [th EXCEPT ![t].board = Daily[th[t].date],
                               ![t].pc = "guard"]
  <2> DEFINE h == [th[t] EXCEPT !.board = Daily[th[t].date], !.pc = "guard"]
  <2>1. th[t].date \in Dates /\ Daily[th[t].date] \in SUBSET Cards
    BY <1>1, <1>3, DeckAssumption DEF InStep
  <2>2. /\ h \in Handler /\ h.pc = "guard" /\ h.sid = None
        /\ h.pid = th[t].pid /\ h.cookie = th[t].cookie
        /\ h.user = th[t].user
    BY <1>1, <1>3, <2>1 DEF Handler, Stages
  <2>3. th' = [th EXCEPT ![t] = h]
    BY <1>1, <1>3
  <2> HIDE DEF h
  <2>4. ActsFor(h) = ActsFor(th[t]) /\ UpToDate(h)
    BY <1>3, <2>2 DEF ActsFor, UpToDate
  <2>5. /\ \A q \in cookies' : IsRegistered(q)
        /\ \A q \in {h.pid, h.cookie} \ {None} : IsRegistered(q)
    BY <1>1, <2>2 DEF Excl, Registered, clients
  <2> QED BY <1>1, <2>2, <2>3, <2>4, <2>5, Advance
<1>4. CASE /\ th[t].sid # None
           /\ sess[th[t].sid].state = "active"
           /\ th' = [th EXCEPT ![t].board = sess[th[t].sid].board,
                               ![t].date = sess[th[t].sid].date,
                               ![t].pid = sess[th[t].sid].player,
                               ![t].pc = "guard"]
  <2> DEFINE s == th[t].sid
             h == [th[t] EXCEPT !.board = sess[s].board, !.date = sess[s].date,
                                !.pid = sess[s].player, !.pc = "guard"]
  <2>1. s \in Sids /\ sess[s] \in Session /\ sess[s].player \in Players
    BY <1>1, <1>4 DEF Inv, TypeOK, Handler, RowsComplete
  <2>2. /\ h \in Handler /\ h.pc = "guard" /\ h.sid = s
        /\ h.pid = sess[s].player /\ h.cookie = th[t].cookie
        /\ h.user = th[t].user /\ h.board = sess[s].board
    BY <1>1, <1>4, <2>1 DEF Handler, Session, Stages
  <2>3. th' = [th EXCEPT ![t] = h]
    BY <1>1, <1>4
  <2> HIDE DEF h
  <2>4. ActsFor(h) \subseteq ActsFor(th[t]) /\ UpToDate(h)
    BY <1>4, <2>1, <2>2 DEF ActsFor, UpToDate
  <2>5. /\ \A q \in cookies' : IsRegistered(q)
        /\ \A q \in {h.pid, h.cookie} \ {None} : IsRegistered(q)
    BY <1>1, <1>4, <2>1, <2>2 DEF Excl, Registered, clients
  <2> QED BY <1>1, <2>2, <2>3, <2>4, <2>5, Advance
<1> QED BY <1>2, <1>3, <1>4 DEF Load

LEMMA GuardExcl ==
  ASSUME Inv, Excl, NEW t \in Threads, Guard(t)
  PROVE  Excl'
<1>1. /\ th[t] \in Handler /\ th[t].pc = "guard" /\ UNCHANGED <<tables, clients>>
      /\ UpToDate(th[t])
  BY DEF Guard, Inv, TypeOK, Excl, HandlersUpToDate
<1>2. CASE Return(t)
  BY <1>1, <1>2, ReturnExcl DEF clients, Excl, Registered
<1>3. CASE /\ th[t].sid # None => ~HasCompleted(th[t].pid, th[t].date)
           /\ Goto(t, "apply")
  <2> DEFINE h == [th[t] EXCEPT !.pc = "apply"]
  <2>1. /\ h.pc = "apply" /\ h.pid = th[t].pid /\ h.date = th[t].date
        /\ h.sid = th[t].sid /\ h.board = th[t].board
    BY <1>1 DEF Handler
  <2> HIDE DEF h
  <2>2. UpToDate(h)
    BY <1>1, <1>3, <2>1 DEF UpToDate
  <2> QED BY <1>1, <1>3, <2>2, GotoExcl DEF h, Stages
<1> QED BY <1>2, <1>3 DEF Guard

\* A handler goes on to a stage that asks nothing of its player's day, or ends.
LEMMA ContinueFits ==
  ASSUME Inv, Excl, NEW t \in Threads, th[t].pc # "idle", Continue(t)
  PROVE  \E h \in Handler :
           /\ th' = [th EXCEPT ![t] = h]
           /\ h.pc \in {"idle", "standalone"}
           /\ h.user \in {None, th[t].user}
           /\ \A p \in {h.pid, h.cookie} \ {None} : IsRegistered(p)
           /\ h = Idle \/ h = [th[t] EXCEPT !.pc = "standalone"]
           /\ ActsFor(h) \subseteq ActsFor(th[t])
<1>1. th[t] \in Handler /\ th \in [Threads -> Handler]
  BY DEF Inv, TypeOK
<1>2. CASE Return(t)
  <2>1. ActsFor(Idle) = {}
    BY DEF ActsFor, Idle, Named
  <2>2. Idle.user = None
    BY DEF Idle
  <2> QED BY <1>2, <2>1, <2>2, IdleIsQuiet DEF Return
<1>3. CASE Goto(t, "standalone")
  <2> DEFINE h == [th[t] EXCEPT !.pc = "standalone"]
  <2>1. /\ h \in Handler /\ h.pc = "standalone" /\ h.user = th[t].user
        /\ h.pid = th[t].pid /\ h.cookie = th[t].cookie
        /\ h.sid = th[t].sid
    BY <1>1 DEF Handler, Stages
  <2>2. th' = [th EXCEPT ![t] = h]
    BY <1>1, <1>3 DEF Goto
  <2> HIDE DEF h
  <2>3. ActsFor(h) = ActsFor(th[t])
    BY <2>1 DEF ActsFor
  <2>4. \A p \in {h.pid, h.cookie} \ {None} : IsRegistered(p)
    BY <2>1 DEF Excl, Registered
  <2> QED BY <2>1, <2>2, <2>3, <2>4 DEF h
<1> QED BY <1>2, <1>3 DEF Continue

LEMMA ApplyToDailyExcl ==
  ASSUME Inv, Excl, NEW t \in Threads, ApplyToDaily(t)
  PROVE  Excl'
<1>1. th[t].pc # "idle" /\ Continue(t) /\ UNCHANGED <<tables, clients>>
  BY DEF ApplyToDaily
<1>2. PICK h \in Handler :
        /\ th' = [th EXCEPT ![t] = h]
        /\ h.pc \in {"idle", "standalone"}
        /\ h.user \in {None, th[t].user}
        /\ \A p \in {h.pid, h.cookie} \ {None} : IsRegistered(p)
        /\ ActsFor(h) \subseteq ActsFor(th[t])
  BY <1>1, ContinueFits
<1>3. UpToDate(h)
  BY <1>2 DEF UpToDate
<1>4. \A p \in cookies' : IsRegistered(p)
  BY <1>1 DEF Excl, Registered, clients
<1> QED BY <1>1, <1>2, <1>3, <1>4, Advance

SetsIn(q) == {q[i] : i \in DOMAIN q}

Pairwise(q) == \A i, j \in DOMAIN q : i # j => q[i] \cap q[j] = {}

\* A set that is found in what the sets found so far left is disjoint from them.
LEMMA AppendDisjoint ==
  ASSUME NEW q \in Seq(ValidSets), NEW S \in ValidSets, NEW D,
         Pairwise(q), S \subseteq D \ UNION SetsIn(q)
  PROVE  /\ Pairwise(Append(q, S))
         /\ (D \ UNION SetsIn(q)) \ S = D \ UNION SetsIn(Append(q, S))
<1> DEFINE r == Append(q, S)
<1>1. /\ DOMAIN q = 1 .. Len(q) /\ Len(q) \in Nat
      /\ DOMAIN r = 1 .. (Len(q) + 1)
      /\ \A i \in 1 .. Len(q) : r[i] = q[i]
      /\ r[Len(q) + 1] = S
  OBVIOUS
<1>2. SetsIn(r) = SetsIn(q) \cup {S}
  BY AppendFound DEF SetsIn
<1>3. \A i \in DOMAIN q : q[i] \cap S = {}
  BY DEF SetsIn
<1> HIDE DEF r
<1>4. Pairwise(r)
  <2> SUFFICES ASSUME NEW i \in DOMAIN r, NEW j \in DOMAIN r, i # j
               PROVE  r[i] \cap r[j] = {}
    BY DEF Pairwise
  <2>1. CASE i \in DOMAIN q /\ j \in DOMAIN q
    BY <1>1, <2>1 DEF Pairwise
  <2>2. CASE i \in DOMAIN q /\ j \notin DOMAIN q
    BY <1>1, <1>3, <2>2
  <2>3. CASE i \notin DOMAIN q /\ j \in DOMAIN q
    BY <1>1, <1>3, <2>3
  <2>4. CASE i \notin DOMAIN q /\ j \notin DOMAIN q
    BY <1>1, <2>4
  <2> QED BY <2>1, <2>2, <2>3, <2>4
<1>5. (D \ UNION SetsIn(q)) \ S = D \ UNION (SetsIn(q) \cup {S})
  OBVIOUS
<1> QED BY <1>2, <1>4, <1>5 DEF r

\* What a commit of a set does, while nobody else plays for its player.
LEMMA PlayEffect ==
  ASSUME Inv, Excl, NEW t \in Threads, NEW S \in ValidSets, Play(t, S)
  PROVE  LET s == th[t].sid
             rest == sess[s].board \ S
         IN /\ s \in Sids /\ sess[s].state = "active"
            /\ th[t].pid = sess[s].player /\ th[t].date = sess[s].date
            /\ sess[s].player \in Players /\ sess[s].player \in ActsFor(th[t])
            /\ sess[s].date \in Dates
            /\ ~HasCompleted(sess[s].player, sess[s].date)
            /\ S \subseteq sess[s].board
            /\ \A r \in Sids : r # s => sess'[r] = sess[r] /\ found'[r] = found[r]
            /\ sess'[s].player = sess[s].player /\ sess'[s].date = sess[s].date
            /\ sess'[s].board = rest
            /\ sess'[s].state = IF HasSet(rest) THEN "active" ELSE "finished"
            /\ found'[s] = Append(found[s], S)
<1>1. /\ th[t] \in Handler /\ InStep(th[t]) /\ UpToDate(th[t])
      /\ th[t].pc = "apply" /\ th[t].sid # None
  BY DEF Play, Inv, TypeOK, HandlersInStep, Excl, HandlersUpToDate
<1>2. /\ th[t].sid \in Sids /\ sess[th[t].sid].state = "active"
      /\ th[t].pid = sess[th[t].sid].player
      /\ th[t].date = sess[th[t].sid].date
      /\ th[t].board = sess[th[t].sid].board
      /\ ~HasCompleted(th[t].pid, th[t].date)
      /\ sess[th[t].sid] \in Session
  BY <1>1 DEF InStep, UpToDate, Handler, Inv, TypeOK
<1>3. /\ sess[th[t].sid].player \in ActsFor(th[t])
      /\ sess[th[t].sid].player \in Players
      /\ sess[th[t].sid].date \in Dates
  BY <1>1, <1>2, ActsForItsPlayer DEF Inv, RowsComplete
<1> DEFINE s == th[t].sid
           rest == sess[s].board \ S
<1>4. /\ S \subseteq sess[s].board
      /\ sess' = [sess EXCEPT ![s].board = rest,
                   ![s].state = IF ~HasSet(rest) THEN "finished" ELSE @]
      /\ found' = [found EXCEPT ![s] = Append(@, S)]
  BY <1>2 DEF Play
<1> HIDE DEF rest, s
<1>5. s \in Sids /\ sess[s] \in Session /\ sess[s].state = "active"
  BY <1>2 DEF s
<1>6. /\ \A r \in Sids : r # s => sess'[r] = sess[r] /\ found'[r] = found[r]
      /\ found'[s] = Append(found[s], S)
  BY <1>4, <1>5 DEF Inv, TypeOK
<1>7. sess'[s] = [sess[s] EXCEPT !.board = rest,
                     !.state = IF ~HasSet(rest) THEN "finished" ELSE @]
  BY <1>4, <1>5 DEF Inv, TypeOK
<1>8. CASE HasSet(rest)
  <2>1. /\ sess'[s].player = sess[s].player /\ sess'[s].date = sess[s].date
        /\ sess'[s].board = rest /\ sess'[s].state = "active"
    BY <1>5, <1>7, <1>8 DEF Session
  <2> QED BY <1>2, <1>3, <1>4, <1>6, <1>8, <2>1 DEF s, rest
<1>9. CASE ~HasSet(rest)
  <2>1. /\ sess'[s].player = sess[s].player /\ sess'[s].date = sess[s].date
        /\ sess'[s].board = rest /\ sess'[s].state = "finished"
    BY <1>5, <1>7, <1>9 DEF Session
  <2> QED BY <1>2, <1>3, <1>4, <1>6, <1>9, <2>1 DEF s, rest
<1> QED BY <1>8, <1>9

\* The row that is written is the row that was read, without the set: nobody
\* else has the session in hand.
LEMMA PlayExcl ==
  ASSUME Inv, Excl, NEW t \in Threads, NEW S \in ValidSets, Play(t, S)
  PROVE  Excl'
<1>1. PICK s \in Sids, p \in Players, d \in Dates, rest \in SUBSET Cards :
        /\ s = th[t].sid /\ p = sess[s].player /\ d = sess[s].date
        /\ rest = sess[s].board \ S
        /\ sess[s].state = "active"
        /\ th[t].pid = p /\ th[t].date = d /\ p \in ActsFor(th[t])
        /\ ~HasCompleted(p, d)
        /\ S \subseteq sess[s].board
        /\ \A r \in Sids : r # s => sess'[r] = sess[r] /\ found'[r] = found[r]
        /\ sess'[s].player = p /\ sess'[s].date = d /\ sess'[s].board = rest
        /\ sess'[s].state = IF HasSet(rest) THEN "active" ELSE "finished"
        /\ found'[s] = Append(found[s], S)
  <2> DEFINE s == th[t].sid
             rest == sess[s].board \ S
  <2>1. /\ s \in Sids /\ sess[s].state = "active"
        /\ th[t].pid = sess[s].player /\ th[t].date = sess[s].date
        /\ sess[s].player \in Players /\ sess[s].player \in ActsFor(th[t])
        /\ sess[s].date \in Dates
        /\ ~HasCompleted(sess[s].player, sess[s].date)
        /\ S \subseteq sess[s].board
        /\ \A r \in Sids : r # s => sess'[r] = sess[r] /\ found'[r] = found[r]
        /\ sess'[s].player = sess[s].player /\ sess'[s].date = sess[s].date
        /\ sess'[s].board = rest
        /\ sess'[s].state = IF HasSet(rest) THEN "active" ELSE "finished"
        /\ found'[s] = Append(found[s], S)
    BY PlayEffect
  <2>2. rest \in SUBSET Cards
    BY <2>1 DEF Inv, TypeOK, Session
  <2> HIDE DEF s
  <2> QED BY <2>1, <2>2 DEF s
<1>2. /\ th[t] \in Handler /\ th \in [Threads -> Handler]
      /\ th[t].pc = "apply" /\ t \in InFlight
      /\ UNCHANGED <<name, completions, clients>>
      /\ Goto(t, "record") \/ Continue(t)
  BY <1>1 DEF Play, Inv, TypeOK, InFlight
<1>3. PICK h \in Handler :
        /\ th' = [th EXCEPT ![t] = h]
        /\ h.pc \in {"idle", "standalone", "record"}
        /\ h.user \in {None, th[t].user}
        /\ h.pc = "record" => h.pid = p /\ h.date = d
        /\ \A q \in {h.pid, h.cookie} \ {None} : IsRegistered(q)
        /\ ActsFor(h) \subseteq ActsFor(th[t])
        /\ h.sid \in Sids \cup {None}
  <2>1. CASE Continue(t)
    <3>1. \A h \in Handler : h.sid \in Sids \cup {None}
      BY DEF Handler
    <3> QED BY <1>2, <2>1, <3>1, ContinueFits
  <2>2. CASE Goto(t, "record")
    <3> DEFINE h == [th[t] EXCEPT !.pc = "record"]
    <3>1. /\ h \in Handler /\ h.pc = "record" /\ h.user = th[t].user
          /\ h.pid = th[t].pid /\ h.cookie = th[t].cookie
          /\ h.date = th[t].date /\ h.sid = th[t].sid
          /\ h.sid \in Sids \cup {None}
      BY <1>2 DEF Handler, Stages
    <3>2. th' = [th EXCEPT ![t] = h]
      BY <1>2, <2>2 DEF Goto
    <3> HIDE DEF h
    <3>3. ActsFor(h) = ActsFor(th[t])
      BY <3>1 DEF ActsFor
    <3>4. \A q \in {h.pid, h.cookie} \ {None} : IsRegistered(q)
      BY <3>1 DEF Excl, Registered
    <3> QED BY <1>1, <3>1, <3>2, <3>3, <3>4
  <2> QED BY <1>2, <2>1, <2>2
<1>4. /\ \A r \in Threads : th'[r] = IF r = t THEN h ELSE th[r]
      /\ \A r \in Sids : sess'[r].player = sess[r].player
                           /\ sess'[r].date = sess[r].date
      /\ \A r \in Sids : sess'[r].state # "absent" <=> sess[r].state # "absent"
      /\ \A r \in Sids : sess'[r].state = "active" => sess[r].state = "active"
  BY <1>1, <1>2, <1>3
<1>5. \A q, e : HasCompleted(q, e)' = HasCompleted(q, e)
  BY <1>2 DEF HasCompleted
<1>6. Registered'
  <2>1. \A r \in Threads : \A q \in {th'[r].pid, th'[r].cookie} \ {None} :
          IsRegistered(q)
    BY <1>3, <1>4 DEF Excl, Registered
  <2>2. \A r \in Sids :
          /\ sess'[r].state = "absent" => sess'[r] = NoSession /\ found'[r] = <<>>
          /\ sess'[r].state # "absent" => IsRegistered(sess'[r].player)
    BY <1>1, <1>4 DEF Excl, Registered
  <2>3. \A q \in cookies' : IsRegistered(q)
    BY <1>2 DEF Excl, Registered, clients
  <2> QED BY <1>2, <2>1, <2>2, <2>3 DEF Registered, IsRegistered
<1>7. \A k : k.sid \in Sids \cup {None} => ActsFor(k)' = ActsFor(k)
  BY <1>2, <1>4 DEF ActsFor, Named
<1>8. ASSUME NEW r \in InFlight, r # t
      PROVE  /\ th'[r] = th[r] /\ r \in Threads
             /\ p \notin ActsFor(th[r])
             /\ th[r].sid # None => th[r].sid \in Sids \ {s}
             /\ Distinct(th[t], th[r]) /\ Distinct(th[r], th[t])
             /\ ActsFor(th[r])' = ActsFor(th[r])
  <2>1. r \in Threads /\ th[r] \in Handler /\ th'[r] = th[r]
    BY <1>2, <1>4, <1>8 DEF InFlight
  <2>2. Distinct(th[t], th[r]) /\ Distinct(th[r], th[t])
    BY <1>2, <1>8 DEF Excl, Apart
  <2>3. p \notin ActsFor(th[r])
    BY <1>1, <2>2 DEF Distinct
  <2>4. th[r].sid \in Sids \cup {None}
    BY <2>1 DEF Handler
  <2>5. th[r].sid # s
    BY <1>1, <2>3, BoundAssumption DEF ActsFor, Sids
  <2>6. ActsFor(th[r])' = ActsFor(th[r])
    BY <1>7, <2>1, <2>4
  <2> QED BY <2>1, <2>2, <2>3, <2>4, <2>5, <2>6
<1>9. Apart'
  <2>1. \A r \in InFlight' : r \in InFlight
    BY <1>2, <1>4 DEF InFlight
  <2>2. ActsFor(th[t])' = ActsFor(h) /\ th'[t] = h
    BY <1>3, <1>4, <1>7
  <2>3. ASSUME NEW q \in InFlight, NEW r \in InFlight, q # r
        PROVE  Distinct(th[q], th[r])'
    <3>1. CASE q # t /\ r # t
      BY <1>8, <2>3, <3>1 DEF Excl, Apart, Distinct
    <3>2. CASE q = t
      BY <1>3, <1>8, <2>2, <2>3, <3>2 DEF Distinct
    <3>3. CASE r = t
      BY <1>3, <1>8, <2>2, <2>3, <3>3 DEF Distinct
    <3> QED BY <3>1, <3>2, <3>3
  <2> QED BY <2>1, <2>3 DEF Apart
<1>10. HandlersUpToDate'
  <2>1. UpToDate(th[t])'
    BY <1>1, <1>3, <1>4, <1>5 DEF UpToDate
  <2>2. ASSUME NEW r \in Threads, r # t PROVE UpToDate(th[r])'
    <3>1. th'[r] = th[r] /\ UpToDate(th[r])
      BY <1>4, <2>2 DEF Excl, HandlersUpToDate
    <3>2. CASE th[r].pc \in {"find", "new", "create"}
      <4>1. /\ ActiveSessions(th[r].pid, th[r].date)'
                 \subseteq ActiveSessions(th[r].pid, th[r].date)
            /\ SessionsOf(<<th[r].pid, th[r].date>>)'
                 = SessionsOf(<<th[r].pid, th[r].date>>)
        BY <1>4, <3>1 DEF ActiveSessions, SessionsOf
      <4> QED BY <1>5, <3>1, <3>2, <4>1 DEF UpToDate
    <3>3. CASE th[r].pc \in {"guard", "apply", "record"}
      <4>1. th[r].sid # None => sess'[th[r].sid] = sess[th[r].sid]
        BY <1>1, <1>8, <2>2, <3>3 DEF InFlight
      <4> QED BY <1>5, <3>1, <3>3, <4>1 DEF UpToDate
    <3>4. CASE th[r].pc \notin {"find", "new", "create", "guard", "apply", "record"}
      BY <3>1, <3>4 DEF UpToDate
    <3> QED BY <3>2, <3>3, <3>4
  <2> QED BY <2>1, <2>2 DEF HandlersUpToDate
<1>11. ActiveIsLatest'
  BY <1>4 DEF Excl, ActiveIsLatest
<1>12. CardsAccountedFor'
  <2>1. /\ found[s] \in Seq(ValidSets)
        /\ sess[s].board = Daily[d] \ UNION SetsIn(found[s])
        /\ Pairwise(found[s])
    BY <1>1 DEF Inv, TypeOK, Excl, CardsAccountedFor, FoundIn, SetsIn, Pairwise
  <2>2. Pairwise(found'[s]) /\ rest = Daily[d] \ UNION SetsIn(found'[s])
    <3> DEFINE q == found[s]
               D == Daily[d]
    <3>1. /\ q \in Seq(ValidSets) /\ Pairwise(q)
          /\ S \subseteq D \ UNION SetsIn(q)
          /\ rest = (D \ UNION SetsIn(q)) \ S
          /\ found'[s] = Append(q, S)
      BY <1>1, <2>1
    <3> HIDE DEF q, D
    <3>2. /\ Pairwise(Append(q, S))
          /\ (D \ UNION SetsIn(q)) \ S = D \ UNION SetsIn(Append(q, S))
      BY <3>1, AppendDisjoint
    <3>3. rest = D \ UNION SetsIn(Append(q, S))
      BY <3>1, <3>2
    <3> QED BY <3>1, <3>2, <3>3 DEF D
  <2>3. ASSUME NEW r \in Sids, r # s, sess'[r].state # "absent"
        PROVE  /\ \A i, j \in DOMAIN found'[r] :
                    i # j => found'[r][i] \cap found'[r][j] = {}
               /\ sess'[r].board = Daily[sess'[r].date] \ UNION FoundIn(r)'
    <3>1. FoundIn(r)' = FoundIn(r)
      BY <1>1, <2>3 DEF FoundIn
    <3> QED BY <1>1, <2>3, <3>1 DEF Excl, CardsAccountedFor
  <2>4. sess'[s].board = Daily[sess'[s].date] \ UNION FoundIn(s)'
    BY <1>1, <2>2 DEF FoundIn, SetsIn
  <2> QED BY <2>2, <2>3, <2>4 DEF CardsAccountedFor, Pairwise
<1>13. FinishedIsExhausted'
  BY <1>1 DEF Excl, FinishedIsExhausted
<1>14. OneSessionTimePerDay'
  BY <1>2 DEF Excl, OneSessionTimePerDay
<1> QED BY <1>6, <1>9, <1>10, <1>11, <1>12, <1>13, <1>14 DEF Excl

-----------------------------------------------------------------------------
(* Times *)

\* The row that is appended is the only news.
LEMMA RecordEffect ==
  ASSUME Inv, NEW p, NEW d, NEW s, Record(p, d, s)
  PROVE  /\ \A q, e : HasCompleted(q, e)' <=>
                        HasCompleted(q, e) \/ (q = p /\ e = d)
         /\ \A i \in DOMAIN completions' :
              \/ i \in DOMAIN completions /\ completions'[i] = completions[i]
              \/ /\ i = Len(completions) + 1
                 /\ completions'[i] = [player |-> p, date |-> d, by |-> s]
<1> DEFINE row == [player |-> p, date |-> d, by |-> s]
           n == Len(completions)
<1>1. /\ n \in Nat /\ DOMAIN completions = 1 .. n
      /\ DOMAIN completions' = 1 .. (n + 1)
      /\ \A i \in 1 .. n : completions'[i] = completions[i]
      /\ completions'[n + 1] = row
  BY DEF Inv, TypeOK, Record
<1>2. row.player = p /\ row.date = d
  OBVIOUS
<1> HIDE DEF row, n
<1>3. \A i \in DOMAIN completions' :
        \/ i \in DOMAIN completions /\ completions'[i] = completions[i]
        \/ i = n + 1 /\ completions'[i] = row
  BY <1>1
<1>4. ASSUME NEW q, NEW e
      PROVE  HasCompleted(q, e)' <=> HasCompleted(q, e) \/ (q = p /\ e = d)
  <2>1. CASE HasCompleted(q, e)
    BY <1>1, <2>1 DEF HasCompleted
  <2>2. CASE q = p /\ e = d
    BY <1>1, <1>2, <2>2 DEF HasCompleted
  <2>3. CASE ~HasCompleted(q, e) /\ ~(q = p /\ e = d)
    BY <1>2, <1>3, <2>3 DEF HasCompleted
  <2> QED BY <2>1, <2>2, <2>3
<1> QED BY <1>3, <1>4 DEF row, n

\* A time that does not come from a session, or is the first of its day, leaves
\* one from sessions.
LEMMA RecordOnce ==
  ASSUME Inv, Excl, NEW p, NEW d, NEW s, Record(p, d, s),
         s # None => ~HasCompleted(p, d)
  PROVE  OneSessionTimePerDay'
<1> DEFINE row == [player |-> p, date |-> d, by |-> s]
<1>1. /\ \A i \in DOMAIN completions' :
           \/ i \in DOMAIN completions /\ completions'[i] = completions[i]
           \/ i = Len(completions) + 1 /\ completions'[i] = row
      /\ row.player = p /\ row.date = d /\ row.by = s
  BY RecordEffect
<1> HIDE DEF row
<1>2. ASSUME NEW i \in DOMAIN completions', NEW j \in DOMAIN completions',
             completions'[i].by # None, completions'[j].by # None,
             completions'[i].player = completions'[j].player,
             completions'[i].date = completions'[j].date
      PROVE  i = j
  <2>1. CASE i \in DOMAIN completions /\ completions'[i] = completions[i]
    <3>1. CASE j \in DOMAIN completions /\ completions'[j] = completions[j]
      BY <1>2, <2>1, <3>1 DEF Excl, OneSessionTimePerDay
    <3>2. CASE j = Len(completions) + 1 /\ completions'[j] = row
      BY <1>1, <1>2, <2>1, <3>2 DEF HasCompleted
    <3> QED BY <1>1, <3>1, <3>2
  <2>2. CASE i = Len(completions) + 1 /\ completions'[i] = row
    <3>1. CASE j \in DOMAIN completions /\ completions'[j] = completions[j]
      BY <1>1, <1>2, <2>2, <3>1 DEF HasCompleted
    <3>2. CASE j = Len(completions) + 1 /\ completions'[j] = row
      BY <2>2, <3>2
    <3> QED BY <1>1, <3>1, <3>2
  <2> QED BY <1>1, <2>1, <2>2
<1> QED BY <1>2 DEF OneSessionTimePerDay

\* The player whose session is finished had no time before this one.
LEMMA RecordSessionExcl ==
  ASSUME Inv, Excl, NEW t \in Threads, RecordSession(t)
  PROVE  Excl'
<1>1. /\ th[t] \in Handler /\ InStep(th[t]) /\ UpToDate(th[t])
      /\ th[t].pc = "record" /\ th[t].sid # None /\ t \in InFlight
      /\ Record(th[t].pid, th[t].date, th[t].sid) /\ Continue(t)
      /\ UNCHANGED <<name, sess, found, clients>>
      /\ ~HasCompleted(th[t].pid, th[t].date)
  BY DEF RecordSession, Inv, TypeOK, HandlersInStep, InStep, Excl,
         HandlersUpToDate, UpToDate, InFlight
<1>2. PICK h \in Handler :
        /\ th' = [th EXCEPT ![t] = h]
        /\ h.pc \in {"idle", "standalone"}
        /\ h.user \in {None, th[t].user}
        /\ \A p \in {h.pid, h.cookie} \ {None} : IsRegistered(p)
        /\ ActsFor(h) \subseteq ActsFor(th[t])
  BY <1>1, ContinueFits
<1>3. UpToDate(h)'
  BY <1>2 DEF UpToDate
<1>4. \A p \in cookies' : IsRegistered(p)
  BY <1>1 DEF Excl, Registered, clients
<1>5. \A r \in InFlight \ {t} : Distinct(th[t], th[r])
  BY <1>1 DEF Excl, Apart
<1>6. \A r \in InFlight \ {t} : Distinct(h, th[r])
  BY <1>2, <1>5 DEF Distinct
<1>7. th[t].pid \in ActsFor(th[t])
  BY <1>1, ActsForItsPlayer
<1>8. \A p, d : HasCompleted(p, d)' =>
        HasCompleted(p, d) \/ \A r \in InFlight \ {t} : p \notin ActsFor(th[r])
  BY <1>1, <1>5, <1>7, RecordEffect DEF Distinct
<1>9. OneSessionTimePerDay'
  BY <1>1, RecordOnce
<1> QED BY <1>1, <1>2, <1>3, <1>4, <1>6, <1>8, <1>9, HandlerStep

\* A standalone time is for a player the handler acts for.
LEMMA RecordStandaloneExcl ==
  ASSUME Inv, Excl, NEW t \in Threads, RecordStandalone(t)
  PROVE  Excl'
<1>1. /\ th[t] \in Handler /\ th[t].pc = "standalone" /\ t \in InFlight
      /\ Return(t) /\ UNCHANGED <<name, sess, found, clients>>
  BY DEF RecordStandalone, Inv, TypeOK, InFlight
<1>2. CASE UNCHANGED completions
  BY <1>1, <1>2, ReturnExcl DEF tables, clients, Excl, Registered
<1>3. ASSUME NEW p \in Named(th[t].user), Record(p, th[t].date, None)
      PROVE  Excl'
  <2>1. p \in ActsFor(th[t])
    BY <1>3 DEF Named, ActsFor
  <2>2. \A q, d : HasCompleted(q, d)' =>
          HasCompleted(q, d) \/ \A r \in InFlight \ {t} : q \notin ActsFor(th[r])
    BY <1>1, <1>3, <2>1, RecordEffect DEF Excl, Apart, Distinct
  <2>3. OneSessionTimePerDay'
    BY <1>3, RecordOnce
  <2>4. UpToDate(Idle)'
    BY DEF Idle, UpToDate
  <2>5. \A q \in cookies' : IsRegistered(q)
    BY <1>1 DEF Excl, Registered, clients
  <2> QED BY <1>1, <2>2, <2>3, <2>4, <2>5, IdleIsQuiet, HandlerStep DEF Return
<1> QED BY <1>2, <1>3 DEF RecordStandalone

\* A direct time is admitted when no handler acts for its player.
LEMMA CompleteDailyExcl ==
  ASSUME Exclusive, Inv, Excl, NEW t \in Threads, CompleteDaily(t)
  PROVE  Excl'
<1>1. PICK u \in Names, d \in Dates :
        /\ Admissible(t, [Idle EXCEPT !.user = u])
        /\ \E p \in Named(u) : Record(p, d, None)
  BY DEF CompleteDaily
<1>2. PICK p \in Named(u) : Record(p, d, None)
  BY <1>1
<1> DEFINE h == [Idle EXCEPT !.user = u]
<1>3. h.user = u
  BY DEF Idle
<1>4. th[t].pc = "idle" /\ \A r \in InFlight : Distinct(h, th[r])
  BY <1>1, AdmittedIsDistinct
<1> HIDE DEF h
<1>5. p \in ActsFor(h)
  BY <1>2, <1>3 DEF ActsFor, Named
<1>6. /\ th \in [Threads -> Handler]
      /\ UNCHANGED <<name, sess, found, clients, th>>
  BY DEF CompleteDaily, Inv, TypeOK
<1>7. th' = [th EXCEPT ![t] = th[t]] /\ th[t] \in Handler
  BY <1>6
<1>8. \A q, e : HasCompleted(q, e)' =>
        HasCompleted(q, e) \/ \A r \in InFlight \ {t} : q \notin ActsFor(th[r])
  BY <1>2, <1>4, <1>5, RecordEffect DEF Distinct
<1>9. OneSessionTimePerDay'
  BY <1>2, RecordOnce
<1>10. UpToDate(th[t])'
  BY <1>4, <1>6 DEF UpToDate
<1>11. /\ \A q \in cookies' : IsRegistered(q)
       /\ \A q \in {th[t].pid, th[t].cookie} \ {None} : IsRegistered(q)
  BY <1>6 DEF Excl, Registered, clients
<1> QED BY <1>4, <1>6, <1>7, <1>8, <1>9, <1>10, <1>11, HandlerStep

-----------------------------------------------------------------------------
(* Every step *)

LEMMA SameExcl ==
  ASSUME Inv, Excl, UNCHANGED <<tables, cookies, th>>
  PROVE  Excl'
BY DEF tables, Excl, Registered, IsRegistered, Apart, InFlight, Distinct,
       ActsFor, Named, HandlersUpToDate, UpToDate, HasCompleted, ActiveSessions,
       SessionsOf, ActiveIsLatest, CardsAccountedFor, FoundIn,
       FinishedIsExhausted, OneSessionTimePerDay

LEMMA NextExcl ==
  ASSUME Exclusive, Inv, Excl, [Next]_vars
  PROVE  Excl'
<1>1. ASSUME NEW t \in Threads, Request(t) PROVE Excl'
  BY <1>1, StartRequestExcl, SubmitRequestExcl, CompleteDailyExcl DEF Request
<1>2. ASSUME NEW t \in Threads, StartStep(t) PROVE Excl'
  BY <1>2, ResolveExcl, RegisterExcl, CheckStartExcl, FindActiveExcl,
     NewSessionExcl, CreateSessionExcl DEF StartStep
<1>3. ASSUME NEW t \in Threads, SubmitStep(t) PROVE Excl'
  <2>1. CASE Reject(t)
    BY <2>1, ReturnExcl DEF Reject, clients, Excl, Registered
  <2> QED
    BY <1>3, <2>1, LoadExcl, GuardExcl, ApplyToDailyExcl, PlayExcl,
       RecordSessionExcl, RecordStandaloneExcl DEF SubmitStep
<1>4. ASSUME NEW t \in Threads, Die(t) PROVE Excl'
  BY <1>4, ReturnExcl DEF Die, clients, Excl, Registered
<1>5. CASE GetCurrentSession \/ UNCHANGED vars
  BY <1>5, SameExcl DEF GetCurrentSession, vars, tables
<1> QED BY <1>1, <1>2, <1>3, <1>4, <1>5 DEF Next

\* While the requests of one player do not overlap, what the handlers have read
\* of their players' days stays so, whatever dies (app/main.py:785-811,
\* 1076-1097).
THEOREM ExclusiveInvariance == ASSUME Exclusive PROVE Spec => [](Inv /\ Excl)
<1>1. Init => Inv /\ Excl
  BY InitInv, InitExcl
<1>2. Inv /\ Excl /\ [Next]_vars => (Inv /\ Excl)'
  BY NextInv, NextExcl
<1> QED BY <1>1, <1>2, PTL DEF Spec

\* While the requests of one player do not overlap, the sets of a session are
\* disjoint and, with the cards that are left, make up the day's board
\* (main.py:1044-1053).
THEOREM AccountsAreRight ==
  ASSUME Exclusive PROVE Spec => []CardsAccountedFor
BY ExclusiveInvariance, PTL DEF Excl

\* While the requests of one player do not overlap, a session is finished when no
\* set is left on its board (main.py:1058-1060).
THEOREM FinishIsReal ==
  ASSUME Exclusive PROVE Spec => []FinishedIsExhausted
BY ExclusiveInvariance, PTL DEF Excl

\* While the requests of one player do not overlap, sessions give that player one
\* time a day at most, whatever dies between the two commits of a completion
\* (main.py:981, main.py:1006).
THEOREM OneTimeFromSessions ==
  ASSUME Exclusive PROVE Spec => []OneSessionTimePerDay
BY ExclusiveInvariance, PTL DEF Excl

\* While the requests of one player do not overlap, that player has one unfinished
\* session a day at most (main.py:798-804).
THEOREM NoSecondActiveSession ==
  ASSUME Exclusive PROVE Spec => []OneActiveSession
<1>1. ActiveIsLatest => OneActiveSession
  BY DEF ActiveIsLatest, OneActiveSession, Sids
<1> QED BY <1>1, ExclusiveInvariance, PTL DEF Excl

-----------------------------------------------------------------------------
(* What a step does to the rows *)

\* What the insertion of a session does, while nobody else acts for its player.
LEMMA CreateEffect ==
  ASSUME Inv, Excl, NEW t \in Threads, CreateSession(t)
  PROVE  \E s \in Sids, p \in Players, d \in Dates :
           /\ sess[s] = NoSession /\ found[s] = <<>>
           /\ sess' = [sess EXCEPT ![s] =
                [state |-> "active", player |-> p, date |-> d,
                 board |-> Daily[d]]]
           /\ UNCHANGED <<found, completions>>
           /\ ~HasCompleted(p, d)
           /\ ActiveSessions(p, d) = {}
           /\ \A r \in SessionsOf(<<p, d>>) : r < s
<1>1. /\ th[t] \in Handler /\ th[t].pc = "create" /\ UpToDate(th[t])
  BY DEF CreateSession, Inv, TypeOK, Excl, HandlersUpToDate
<1>2. PICK s \in Sids, d \in Dates, p \in Players :
        /\ s = th[t].sid /\ d = th[t].date /\ p = th[t].pid
        /\ sess[s].state = "absent"
  BY <1>1 DEF Inv, HandlersInStep, InStep, Handler
<1>3. /\ ~HasCompleted(p, d) /\ ActiveSessions(p, d) = {}
      /\ \A r \in SessionsOf(<<p, d>>) : r < s
  BY <1>1, <1>2 DEF UpToDate
<1>4. /\ sess[s] = NoSession /\ found[s] = <<>>
  BY <1>2 DEF Excl, Registered
<1>5. /\ sess' = [sess EXCEPT ![s] =
                [state |-> "active", player |-> p, date |-> d,
                 board |-> Daily[d]]]
      /\ UNCHANGED <<found, completions>>
  BY <1>2 DEF CreateSession
<1> QED BY <1>3, <1>4, <1>5

\* Who a time is recorded for is a player, and the day a day.
LEMMA RecordedIsGame ==
  ASSUME Inv, NEW t \in Threads,
         RecordSession(t) \/ RecordStandalone(t) \/ CompleteDaily(t)
  PROVE  /\ UNCHANGED <<sess, found>>
         /\ \/ UNCHANGED completions
            \/ \E p \in Players, d \in Dates, s \in Sids \cup {None} :
                 Record(p, d, s)
<1>1. th[t] \in Handler /\ InStep(th[t])
  BY DEF Inv, TypeOK, HandlersInStep
<1>2. CASE RecordSession(t)
  <2>1. /\ th[t].sid \in Sids /\ sess[th[t].sid].state # "absent"
        /\ th[t].pid = sess[th[t].sid].player
        /\ th[t].date = sess[th[t].sid].date
    BY <1>1, <1>2 DEF RecordSession, InStep, Handler
  <2>2. th[t].pid \in Players /\ th[t].date \in Dates
    BY <2>1 DEF Inv, RowsComplete
  <2> QED BY <1>2, <2>1, <2>2 DEF RecordSession
<1>3. CASE RecordStandalone(t)
  <2>1. th[t].date \in Dates
    <3>1. CASE th[t].sid = None
      BY <1>1, <1>3, <3>1 DEF RecordStandalone, InStep
    <3>2. CASE th[t].sid # None
      BY <1>1, <1>3, <3>2 DEF RecordStandalone, InStep, Handler, Inv, RowsComplete
    <3> QED BY <3>1, <3>2
  <2> QED BY <1>3, <2>1 DEF RecordStandalone, Named
<1>4. CASE CompleteDaily(t)
  BY <1>4 DEF CompleteDaily, Named
<1> QED BY <1>2, <1>3, <1>4

\* Only the insertion of a session and the commit of a set write the rows of
\* sessions and found sets; neither records a time.
LEMMA StepKinds ==
  ASSUME Inv, [Next]_vars
  PROVE  \/ \E t \in Threads : CreateSession(t)
         \/ \E t \in Threads : \E S \in ValidSets : Play(t, S)
         \/ /\ UNCHANGED <<sess, found>>
            /\ \/ UNCHANGED completions
               \/ \E p \in Players, d \in Dates, s \in Sids \cup {None} :
                    Record(p, d, s)
<1>1. ASSUME NEW t \in Threads, Request(t), ~CompleteDaily(t)
      PROVE  UNCHANGED <<sess, found, completions>>
  BY <1>1 DEF Request, StartRequest, SubmitRequest, tables
<1>2. ASSUME NEW t \in Threads, StartStep(t), ~CreateSession(t)
      PROVE  UNCHANGED <<sess, found, completions>>
  BY <1>2 DEF StartStep, Resolve, Register, CheckStart, FindActive, NewSession,
              tables
<1>3. ASSUME NEW t \in Threads, SubmitStep(t), ~RecordSession(t),
             ~RecordStandalone(t), \A S \in ValidSets : ~Play(t, S)
      PROVE  UNCHANGED <<sess, found, completions>>
  BY <1>3 DEF SubmitStep, Load, Guard, Reject, ApplyToDaily, tables
<1>4. ASSUME NEW t \in Threads, Die(t)
      PROVE  UNCHANGED <<sess, found, completions>>
  BY <1>4 DEF Die, tables
<1>5. CASE GetCurrentSession \/ UNCHANGED vars
  BY <1>5 DEF GetCurrentSession, vars, tables
<1> QED BY <1>1, <1>2, <1>3, <1>4, <1>5, RecordedIsGame DEF Next

\* While the requests of one player do not overlap, no set is accepted in a session
\* whose player has completed the day: the guard was asked before the commit, and
\* its answer still holds (main.py:1084).
THEOREM CompletedIsClosed ==
  ASSUME Exclusive PROVE Spec => NoPlayAfterCompletion
<1>1. ASSUME Inv, Excl, [Next]_vars
      PROVE  \A s \in Sids : found'[s] # found[s] =>
               ~HasCompleted(sess[s].player, sess[s].date)
  <2>1. CASE \E t \in Threads : CreateSession(t)
    BY <2>1 DEF CreateSession
  <2>2. ASSUME NEW t \in Threads, NEW S \in ValidSets, Play(t, S),
               NEW s \in Sids, found'[s] # found[s]
        PROVE  ~HasCompleted(sess[s].player, sess[s].date)
    <3>1. /\ ~HasCompleted(sess[th[t].sid].player, sess[th[t].sid].date)
          /\ \A r \in Sids : r # th[t].sid => found'[r] = found[r]
      BY <1>1, <2>2, PlayEffect
    <3> QED BY <2>2, <3>1
  <2> QED BY <1>1, <2>1, <2>2, StepKinds
<1>2. Inv /\ Excl /\ [Next]_vars =>
        [\A s \in Sids : found'[s] # found[s] =>
           ~HasCompleted(sess[s].player, sess[s].date)]_vars
  BY <1>1
<1> QED BY <1>2, ExclusiveInvariance, PTL DEF Spec, NoPlayAfterCompletion

\* While the requests of one player do not overlap, no session is created for a
\* player who has completed the day (main.py:794).
THEOREM CompletedStartsNothing ==
  ASSUME Exclusive PROVE Spec => NoSessionAfterCompletion
<1>1. ASSUME Inv, Excl, [Next]_vars, NEW s \in Sids,
             sess[s].state = "absent", sess'[s].state # "absent"
      PROVE  ~HasCompleted(sess'[s].player, sess'[s].date)
  <2>1. ASSUME NEW t \in Threads, CreateSession(t)
        PROVE  ~HasCompleted(sess'[s].player, sess'[s].date)
    <3>1. PICK r \in Sids, p \in Players, d \in Dates :
            /\ sess' = [sess EXCEPT ![r] =
                 [state |-> "active", player |-> p, date |-> d,
                  board |-> Daily[d]]]
            /\ ~HasCompleted(p, d)
      BY <1>1, <2>1, CreateEffect
    <3>2. s = r /\ sess'[s].player = p /\ sess'[s].date = d
      BY <1>1, <3>1 DEF Inv, TypeOK
    <3> QED BY <3>1, <3>2
  <2>2. ASSUME NEW t \in Threads, NEW S \in ValidSets, Play(t, S)
        PROVE  FALSE
    <3>1. /\ sess[th[t].sid].state = "active"
          /\ \A r \in Sids : r # th[t].sid => sess'[r] = sess[r]
      BY <1>1, <2>2, PlayEffect
    <3> QED BY <1>1, <3>1
  <2> QED BY <1>1, <2>1, <2>2, StepKinds
<1>2. Inv /\ Excl /\ [Next]_vars =>
        [\A s \in Sids : sess[s].state = "absent" /\ sess'[s].state # "absent" =>
           ~HasCompleted(sess'[s].player, sess'[s].date)]_vars
  BY <1>1
<1> QED BY <1>2, ExclusiveInvariance, PTL DEF Spec, NoSessionAfterCompletion

-----------------------------------------------------------------------------
(* The refinement: a game is the last session of its player and day *)

\* A set of session ids that is not empty has a last one.
LEMMA HasLast ==
  ASSUME NEW S \in SUBSET Sids, S # {}
  PROVE  \E s \in S : \A r \in S : r <= s
<1> DEFINE T == {MaxSessions - s : s \in S}
<1>1. \A s \in S : s \in 1 .. MaxSessions /\ MaxSessions - s \in Nat
  BY BoundAssumption DEF Sids
<1>2. T \subseteq Nat /\ T # {}
  <2>1. T # {}
    OBVIOUS
  <2> QED BY <1>1, <2>1
<1> HIDE DEF T
<1>3. PICK x \in T : \A y \in T : ~(<<y, x>> \in OpToRel(<, Nat))
  BY <1>2, NatLessThanWellFounded, WFMin, Zenon
<1>4. \A y \in T : ~(y < x)
  BY <1>2, <1>3, Zenon DEF OpToRel
<1>5. PICK s \in S : x = MaxSessions - s
  BY DEF T
<1>6. ASSUME NEW r \in S PROVE r <= s
  <2>1. MaxSessions - r \in T
    BY DEF T
  <2>2. ~(MaxSessions - r < MaxSessions - s)
    BY <1>4, <1>5, <2>1
  <2> QED BY <1>1, <2>2, BoundAssumption
<1> QED BY <1>6

Last(S) == CHOOSE s \in S : \A r \in S : r <= s

LEMMA LastIs ==
  ASSUME NEW S \in SUBSET Sids, NEW s \in S, \A r \in S : r <= s
  PROVE  Last(S) = s
<1>1. \A q \in S : (\A r \in S : r <= q) => q = s
  BY DEF Sids
<1> QED BY <1>1, Zenon DEF Last

LEMMA LastIn ==
  ASSUME NEW S \in SUBSET Sids, S # {}
  PROVE  Last(S) \in S /\ \A r \in S : r <= Last(S)
<1>1. PICK s \in S : \A r \in S : r <= s
  BY HasLast
<1> QED BY <1>1, LastIs

LEMMA SessionsCount ==
  ASSUME NEW S \in SUBSET Sids
  PROVE  IsFiniteSet(S) /\ Cardinality(S) \in Nat
<1>1. MaxSessions \in Int
  BY BoundAssumption
<1>2. IsFiniteSet(Sids)
  BY <1>1, FS_Interval DEF Sids
<1>3. IsFiniteSet(S)
  BY <1>2, FS_Subset
<1> QED BY <1>3, FS_CardinalityType

\* The game of a player and day who have sessions, now and after a step.
LEMMA GameOfSessions ==
  ASSUME NEW g, NEW s \in SessionsOf(g), \A r \in SessionsOf(g) : r <= s
  PROVE  GameOf(g) =
           [phase |-> IF HasCompleted(g[1], g[2]) THEN "done"
                      ELSE Phase(sess[s].state),
            round |-> Cardinality(SessionsOf(g)),
            table |-> sess[s].board,
            won   |-> FoundIn(s)]
<1>1. s = Last(SessionsOf(g)) /\ SessionsOf(g) # {}
  BY LastIs DEF SessionsOf
<1> QED BY <1>1, Zenon DEF GameOf, Last

LEMMA GameOfSessionsNext ==
  ASSUME NEW g, NEW s \in SessionsOf(g)', \A r \in SessionsOf(g)' : r <= s
  PROVE  GameOf(g)' =
           [phase |-> IF HasCompleted(g[1], g[2])' THEN "done"
                      ELSE Phase(sess'[s].state),
            round |-> Cardinality(SessionsOf(g)'),
            table |-> sess'[s].board,
            won   |-> {found'[s][i] : i \in DOMAIN found'[s]}]
<1>1. s = Last(SessionsOf(g)') /\ SessionsOf(g)' # {}
  BY LastIs DEF SessionsOf
<1> QED BY <1>1, Zenon DEF GameOf, Last, FoundIn

\* The game of a player and day without a session, now and after a step.
LEMMA GameOfNone ==
  ASSUME NEW g, SessionsOf(g) = {}
  PROVE  GameOf(g) =
           [phase |-> IF HasCompleted(g[1], g[2]) THEN "done" ELSE "none",
            round |-> 0, table |-> {}, won |-> {}]
<1>1. Phase(NoSession.state) = "none" /\ NoSession.board = {}
  <2>1. NoSession.state = "absent" /\ NoSession.board = {}
    BY DEF NoSession
  <2>2. Phase("absent") = "none"
    BY Zenon DEF Phase
  <2> QED BY <2>1, <2>2
<1>2. Cardinality({}) = 0
  BY FS_EmptySet
<1> QED BY <1>1, <1>2, Zenon DEF GameOf

LEMMA GameOfNoneNext ==
  ASSUME NEW g, SessionsOf(g)' = {}
  PROVE  GameOf(g)' =
           [phase |-> IF HasCompleted(g[1], g[2])' THEN "done" ELSE "none",
            round |-> 0, table |-> {}, won |-> {}]
<1>1. Phase(NoSession.state) = "none" /\ NoSession.board = {}
  <2>1. NoSession.state = "absent" /\ NoSession.board = {}
    BY DEF NoSession
  <2>2. Phase("absent") = "none"
    BY Zenon DEF Phase
  <2> QED BY <2>1, <2>2
<1>2. Cardinality({}) = 0
  BY FS_EmptySet
<1> QED BY <1>1, <1>2, Zenon DEF GameOf

\* A step leaves the games alone whose sessions and times it leaves alone.
LEMMA SameGame ==
  ASSUME NEW g,
         SessionsOf(g)' = SessionsOf(g),
         \A r \in SessionsOf(g) : sess'[r] = sess[r] /\ found'[r] = found[r],
         HasCompleted(g[1], g[2])' <=> HasCompleted(g[1], g[2])
  PROVE  GameOf(g)' = GameOf(g)
<1>1. CASE SessionsOf(g) = {}
  <2>1. /\ GameOf(g) =
             [phase |-> IF HasCompleted(g[1], g[2]) THEN "done" ELSE "none",
              round |-> 0, table |-> {}, won |-> {}]
        /\ GameOf(g)' =
             [phase |-> IF HasCompleted(g[1], g[2])' THEN "done" ELSE "none",
              round |-> 0, table |-> {}, won |-> {}]
    BY <1>1, GameOfNone, GameOfNoneNext
  <2> QED BY <2>1
<1>2. CASE SessionsOf(g) # {}
  <2>1. PICK s \in SessionsOf(g) : \A r \in SessionsOf(g) : r <= s
    BY <1>2, HasLast DEF SessionsOf
  <2>2. GameOf(g) =
          [phase |-> IF HasCompleted(g[1], g[2]) THEN "done"
                     ELSE Phase(sess[s].state),
           round |-> Cardinality(SessionsOf(g)),
           table |-> sess[s].board,
           won   |-> FoundIn(s)]
    BY <2>1, GameOfSessions
  <2>3. GameOf(g)' =
          [phase |-> IF HasCompleted(g[1], g[2])' THEN "done"
                     ELSE Phase(sess'[s].state),
           round |-> Cardinality(SessionsOf(g)),
           table |-> sess'[s].board,
           won   |-> {found'[s][i] : i \in DOMAIN found'[s]}]
    BY <2>1, GameOfSessionsNext
  <2>4. sess'[s] = sess[s] /\ {found'[s][i] : i \in DOMAIN found'[s]} = FoundIn(s)
    BY <2>1 DEF FoundIn
  <2>5. CASE HasCompleted(g[1], g[2])
    BY <2>2, <2>3, <2>4, <2>5, Zenon
  <2>6. CASE ~HasCompleted(g[1], g[2])
    BY <2>2, <2>3, <2>4, <2>6, Zenon
  <2> QED BY <2>5, <2>6
<1> QED BY <1>1, <1>2

\* One game moves and the others stay.
LEMMA OneGame ==
  ASSUME NEW g \in Players \X Dates, NEW x, GameOf(g)' = x, GameOf(g) # x,
         \A f \in Players \X Dates : f # g => GameOf(f)' = GameOf(f)
  PROVE  /\ games'[g] # games[g] /\ games[g] = GameOf(g)
         /\ games' = [games EXCEPT ![g] = x]
<1>1. /\ games = [f \in Players \X Dates |-> GameOf(f)]
      /\ games' = [f \in Players \X Dates |-> GameOf(f)']
  BY DEF games
<1> QED BY <1>1

LEMMA SameGames ==
  ASSUME \A g \in Players \X Dates : GameOf(g)' = GameOf(g)
  PROVE  UNCHANGED games
BY DEF games

LEMMA GameMoves ==
  ASSUME NEW g \in Players \X Dates, games'[g] # games[g],
         Atomic!Begin(g) \/ (\E S \in ValidSets : Atomic!Find(g, S))
           \/ Atomic!Settle(g)
  PROVE  Atomic!GameNext
BY DEF Atomic!GameNext, Atomic!Games

\* A time ends the game of its player and day, if it is the first of them.
LEMMA RecordPlays ==
  ASSUME Inv, UNCHANGED <<sess, found>>,
         NEW p \in Players, NEW d \in Dates, NEW s, Record(p, d, s)
  PROVE  Atomic!GameNext \/ UNCHANGED games
<1> DEFINE g == <<p, d>>
<1>1. g \in Players \X Dates /\ g[1] = p /\ g[2] = d
  OBVIOUS
<1>2. \A f : SessionsOf(f)' = SessionsOf(f)
  BY DEF SessionsOf
<1>3. \A q, e : HasCompleted(q, e)' <=> HasCompleted(q, e) \/ (q = p /\ e = d)
  BY RecordEffect
<1>4. ASSUME NEW f \in Players \X Dates, f # g
      PROVE  GameOf(f)' = GameOf(f)
  <2>1. ~(f[1] = p /\ f[2] = d)
    BY <1>4
  <2>2. HasCompleted(f[1], f[2])' <=> HasCompleted(f[1], f[2])
    BY <1>3, <2>1
  <2> QED BY <1>2, <2>2, SameGame
<1> HIDE DEF g
<1>5. CASE HasCompleted(p, d)
  <2>1. HasCompleted(g[1], g[2])' <=> HasCompleted(g[1], g[2])
    BY <1>1, <1>3, <1>5
  <2>2. GameOf(g)' = GameOf(g)
    BY <1>2, <2>1, SameGame
  <2> QED BY <1>4, <2>2, SameGames
<1>6. CASE ~HasCompleted(p, d)
  <2>1. ~HasCompleted(g[1], g[2]) /\ HasCompleted(g[1], g[2])'
    BY <1>1, <1>3, <1>6
  <2>2. /\ GameOf(g).phase # "done" /\ GameOf(g)' # GameOf(g)
        /\ GameOf(g)' = [GameOf(g) EXCEPT !.phase = "done"]
    <3>1. CASE SessionsOf(g) = {}
      <4>1. GameOf(g) = [phase |-> "none", round |-> 0, table |-> {}, won |-> {}]
        BY <2>1, <3>1, GameOfNone
      <4>2. GameOf(g)' = [phase |-> "done", round |-> 0, table |-> {}, won |-> {}]
        BY <1>2, <2>1, <3>1, GameOfNoneNext
      <4> QED BY <4>1, <4>2
    <3>2. CASE SessionsOf(g) # {}
      <4>1. PICK r \in SessionsOf(g) : \A q \in SessionsOf(g) : q <= r
        BY <3>2, HasLast DEF SessionsOf
      <4>2. GameOf(g) = [phase |-> Phase(sess[r].state),
                         round |-> Cardinality(SessionsOf(g)),
                         table |-> sess[r].board, won |-> FoundIn(r)]
        BY <2>1, <4>1, GameOfSessions
      <4>3. FoundIn(r)' = FoundIn(r)
        BY DEF FoundIn
      <4>4. GameOf(g)' = [phase |-> "done",
                          round |-> Cardinality(SessionsOf(g)),
                          table |-> sess[r].board, won |-> FoundIn(r)]
        BY <1>2, <2>1, <4>1, GameOfSessionsNext DEF FoundIn
      <4>5. Phase(sess[r].state) # "done"
        BY Zenon DEF Phase
      <4> QED BY <4>2, <4>4, <4>5
    <3> QED BY <3>1, <3>2
  <2>3. /\ games'[g] # games[g] /\ games[g] = GameOf(g)
        /\ games' = [games EXCEPT ![g] = [GameOf(g) EXCEPT !.phase = "done"]]
    BY <1>1, <1>4, <2>2, OneGame, Zenon
  <2>4. Atomic!Settle(g)
    BY <2>2, <2>3 DEF Atomic!Settle
  <2> QED BY <1>1, <2>3, <2>4, GameMoves
<1> QED BY <1>5, <1>6

\* A session that is created is the next round of its game.
LEMMA CreatePlays ==
  ASSUME Inv, Excl, NEW t \in Threads, CreateSession(t)
  PROVE  Atomic!GameNext
<1>1. PICK s \in Sids, p \in Players, d \in Dates :
        /\ sess[s] = NoSession /\ found[s] = <<>>
        /\ sess' = [sess EXCEPT ![s] =
             [state |-> "active", player |-> p, date |-> d, board |-> Daily[d]]]
        /\ UNCHANGED <<found, completions>>
        /\ ~HasCompleted(p, d)
        /\ ActiveSessions(p, d) = {}
        /\ \A r \in SessionsOf(<<p, d>>) : r < s
  BY CreateEffect
<1>2. /\ \A r \in Sids : r # s => sess'[r] = sess[r]
      /\ sess'[s].state = "active" /\ sess'[s].player = p /\ sess'[s].date = d
      /\ sess'[s].board = Daily[d] /\ sess[s].state = "absent"
  BY <1>1 DEF Inv, TypeOK, NoSession
<1>3. \A q, e : HasCompleted(q, e)' <=> HasCompleted(q, e)
  BY <1>1 DEF HasCompleted
<1> DEFINE g == <<p, d>>
<1>4. g \in Players \X Dates /\ g[1] = p /\ g[2] = d
  OBVIOUS
<1>5. ASSUME NEW f \in Players \X Dates, f # g
      PROVE  GameOf(f)' = GameOf(f)
  <2>1. ~(f[1] = p /\ f[2] = d)
    BY <1>5
  <2>2. SessionsOf(f)' = SessionsOf(f) /\ s \notin SessionsOf(f)
    BY <1>2, <2>1 DEF SessionsOf
  <2>3. \A r \in SessionsOf(f) : sess'[r] = sess[r] /\ found'[r] = found[r]
    BY <1>1, <1>2, <2>2 DEF SessionsOf
  <2> QED BY <1>3, <2>2, <2>3, SameGame
<1>6. /\ SessionsOf(g)' = SessionsOf(g) \cup {s} /\ s \notin SessionsOf(g)
      /\ \A r \in SessionsOf(g)' : r <= s
  <2>1. SessionsOf(g)' = SessionsOf(g) \cup {s} /\ s \notin SessionsOf(g)
    BY <1>2 DEF SessionsOf
  <2>2. \A r \in SessionsOf(g) : r \in Sids /\ r < s
    BY <1>1 DEF SessionsOf
  <2> QED BY <2>1, <2>2 DEF Sids
<1> HIDE DEF g
<1>7. ~HasCompleted(g[1], g[2]) /\ ~HasCompleted(g[1], g[2])'
  BY <1>1, <1>3, <1>4
<1>8. PICK n \in Nat :
        /\ n = Cardinality(SessionsOf(g))
        /\ Cardinality(SessionsOf(g)') = n + 1
  BY <1>6, SessionsCount, FS_AddElement DEF SessionsOf
<1>9. /\ GameOf(g).phase \in {"none", "over"}
      /\ GameOf(g).round = n
  <2>1. CASE SessionsOf(g) = {}
    <3>1. GameOf(g) = [phase |-> "none", round |-> 0, table |-> {}, won |-> {}]
      BY <1>7, <2>1, GameOfNone
    <3>2. n = 0
      BY <1>8, <2>1, FS_EmptySet
    <3> QED BY <3>1, <3>2
  <2>2. CASE SessionsOf(g) # {}
    <3>1. PICK r \in SessionsOf(g) : \A q \in SessionsOf(g) : q <= r
      BY <2>2, HasLast DEF SessionsOf
    <3>2. GameOf(g) = [phase |-> Phase(sess[r].state),
                       round |-> Cardinality(SessionsOf(g)),
                       table |-> sess[r].board, won |-> FoundIn(r)]
      BY <1>7, <3>1, GameOfSessions
    <3>3. r \in Sids /\ sess[r].player = p /\ sess[r].date = d
      BY <1>4, <3>1 DEF SessionsOf
    <3>4. sess[r].state # "active"
      BY <1>1, <3>3 DEF ActiveSessions
    <3>5. Phase(sess[r].state) \in {"none", "over"}
      BY <3>4, Zenon DEF Phase
    <3> QED BY <1>8, <3>2, <3>5
  <2> QED BY <2>1, <2>2
<1> DEFINE x == [phase |-> "playing", round |-> n + 1, table |-> Daily[d],
                 won |-> {}]
<1>10. GameOf(g)' = x
  <2>1. {found'[s][i] : i \in DOMAIN found'[s]} = {}
    BY <1>1
  <2>2. Phase("active") = "playing"
    BY Zenon DEF Phase
  <2>3. s \in SessionsOf(g)'
    BY <1>6
  <2>4. GameOf(g)' = [phase |-> Phase(sess'[s].state),
                      round |-> Cardinality(SessionsOf(g)'),
                      table |-> sess'[s].board,
                      won   |-> {found'[s][i] : i \in DOMAIN found'[s]}]
    BY <1>6, <1>7, <2>3, GameOfSessionsNext
  <2> QED BY <1>2, <1>8, <2>1, <2>2, <2>4
<1>11. GameOf(g) # x
  BY <1>9
<1> HIDE DEF x
<1>12. /\ games'[g] # games[g] /\ games[g] = GameOf(g)
       /\ games' = [games EXCEPT ![g] = x]
  BY <1>4, <1>5, <1>10, <1>11, OneGame DEF g
<1>13. Atomic!Begin(g)
  BY <1>4, <1>9, <1>12 DEF Atomic!Begin, x
<1> QED BY <1>4, <1>12, <1>13, GameMoves

\* A set that is committed is found on the table of the game: the session is the
\* last of its player and day, and what was loaded is what is there.
LEMMA PlayPlays ==
  ASSUME Inv, Excl, NEW t \in Threads, NEW S \in ValidSets, Play(t, S)
  PROVE  Atomic!GameNext
<1>1. PICK s \in Sids, p \in Players, d \in Dates, board \in SUBSET Cards :
        /\ p = sess[s].player /\ d = sess[s].date /\ board = sess[s].board
        /\ sess[s].state = "active"
        /\ ~HasCompleted(p, d)
        /\ S \subseteq board
        /\ \A r \in Sids : r # s => sess'[r] = sess[r] /\ found'[r] = found[r]
        /\ sess'[s].player = p /\ sess'[s].date = d
        /\ sess'[s].board = board \ S
        /\ sess'[s].state = IF HasSet(board \ S) THEN "active" ELSE "finished"
        /\ found'[s] = Append(found[s], S)
  <2> DEFINE s == th[t].sid
             rest == sess[s].board \ S
  <2>1. /\ s \in Sids /\ sess[s].state = "active"
        /\ sess[s].player \in Players /\ sess[s].date \in Dates
        /\ ~HasCompleted(sess[s].player, sess[s].date)
        /\ S \subseteq sess[s].board
        /\ \A r \in Sids : r # s => sess'[r] = sess[r] /\ found'[r] = found[r]
        /\ sess'[s].player = sess[s].player /\ sess'[s].date = sess[s].date
        /\ sess'[s].board = rest
        /\ sess'[s].state = IF HasSet(rest) THEN "active" ELSE "finished"
        /\ found'[s] = Append(found[s], S)
    BY PlayEffect
  <2>2. sess[s].board \in SUBSET Cards
    BY <2>1 DEF Inv, TypeOK, Session
  <2> HIDE DEF s
  <2> QED BY <2>1, <2>2
<1>2. UNCHANGED completions
  BY DEF Play
<1>3. \A q, e : HasCompleted(q, e)' <=> HasCompleted(q, e)
  BY <1>2 DEF HasCompleted
<1> DEFINE g == <<p, d>>
<1>4. g \in Players \X Dates /\ g[1] = p /\ g[2] = d
  OBVIOUS
<1>5. \A f : SessionsOf(f)' = SessionsOf(f)
  BY <1>1 DEF SessionsOf
<1>6. ASSUME NEW f \in Players \X Dates, f # g
      PROVE  GameOf(f)' = GameOf(f)
  <2>1. ~(f[1] = p /\ f[2] = d)
    BY <1>6
  <2>2. \A r \in SessionsOf(f) : r \in Sids /\ r # s
    BY <1>1, <2>1 DEF SessionsOf
  <2>3. \A r \in SessionsOf(f) : sess'[r] = sess[r] /\ found'[r] = found[r]
    BY <1>1, <2>2
  <2> QED BY <1>3, <1>5, <2>3, SameGame
<1>7. s \in SessionsOf(g) /\ \A r \in SessionsOf(g) : r <= s
  BY <1>1, <1>4 DEF SessionsOf, Excl, ActiveIsLatest
<1> HIDE DEF g
<1>8. ~HasCompleted(g[1], g[2]) /\ ~HasCompleted(g[1], g[2])'
  BY <1>1, <1>3, <1>4
<1> DEFINE n == Cardinality(SessionsOf(g))
           after == IF HasSet(board \ S) THEN "playing" ELSE "over"
           x == [phase |-> "playing", round |-> n, table |-> board,
                 won |-> FoundIn(s)]
           y == [phase |-> after, round |-> n, table |-> board \ S,
                 won |-> FoundIn(s) \cup {S}]
<1>9. GameOf(g) = x
  <2>1. Phase("active") = "playing"
    BY Zenon DEF Phase
  <2>2. GameOf(g) = [phase |-> Phase(sess[s].state), round |-> n,
                     table |-> sess[s].board, won |-> FoundIn(s)]
    BY <1>7, <1>8, GameOfSessions
  <2> QED BY <1>1, <2>1, <2>2
<1>10. GameOf(g)' = y
  <2>1. Phase(sess'[s].state) = after
    <3>1. Phase("active") = "playing" /\ Phase("finished") = "over"
      BY Zenon DEF Phase
    <3> QED BY <1>1, <3>1
  <2>2. {found'[s][i] : i \in DOMAIN found'[s]} = FoundIn(s) \cup {S}
    <3>1. found[s] \in Seq(ValidSets)
      BY DEF Inv, TypeOK
    <3>2. {Append(found[s], S)[i] : i \in DOMAIN Append(found[s], S)}
            = {found[s][i] : i \in DOMAIN found[s]} \cup {S}
      BY <3>1, AppendFound
    <3> QED BY <1>1, <3>2 DEF FoundIn
  <2>3. GameOf(g)' = [phase |-> Phase(sess'[s].state), round |-> n,
                      table |-> sess'[s].board,
                      won |-> {found'[s][i] : i \in DOMAIN found'[s]}]
    BY <1>5, <1>7, <1>8, GameOfSessionsNext
  <2> QED BY <1>1, <2>1, <2>2, <2>3
<1>11. x # y /\ y = Atomic!Found(x, S)
  <2>1. x.table = board /\ y.table = board \ S /\ board \ S # board
    BY <1>1, DeckAssumption
  <2>2. HasSet(board \ S) <=> Atomic!HasSet(board \ S)
    BY DEF HasSet, Atomic!HasSet
  <2> QED BY <2>1, <2>2 DEF Atomic!Found
<1>12. x.phase = "playing" /\ x.table = board
  OBVIOUS
<1> HIDE DEF x, y
<1>13. /\ games'[g] # games[g] /\ games[g] = x
       /\ games' = [games EXCEPT ![g] = y]
  BY <1>4, <1>6, <1>9, <1>10, <1>11, OneGame DEF g
<1>14. Atomic!Find(g, S)
  BY <1>1, <1>11, <1>12, <1>13 DEF Atomic!Find
<1> QED BY <1>4, <1>13, <1>14, GameMoves

LEMMA NextPlays ==
  ASSUME Inv, Excl, [Next]_vars
  PROVE  [Atomic!GameNext]_games
<1>1. CASE UNCHANGED <<sess, found, completions>>
  <2>1. \A g : SessionsOf(g)' = SessionsOf(g)
    BY <1>1 DEF SessionsOf
  <2>2. \A q, e : HasCompleted(q, e)' <=> HasCompleted(q, e)
    BY <1>1 DEF HasCompleted
  <2>3. \A g \in Players \X Dates : GameOf(g)' = GameOf(g)
    BY <1>1, <2>1, <2>2, SameGame
  <2> QED BY <2>3, SameGames
<1>2. ASSUME UNCHANGED <<sess, found>>,
             NEW p \in Players, NEW d \in Dates, NEW s \in Sids \cup {None},
             Record(p, d, s)
      PROVE  [Atomic!GameNext]_games
  BY <1>2, RecordPlays
<1> QED BY <1>1, <1>2, StepKinds, CreatePlays, PlayPlays

LEMMA InitPlays == Init => Atomic!GameInit
<1> SUFFICES ASSUME Init PROVE Atomic!GameInit
  OBVIOUS
<1>1. ASSUME NEW g PROVE GameOf(g) = Atomic!NoGame
  <2>1. SessionsOf(g) = {}
    <3>1. NoSession.state = "absent"
      BY DEF NoSession
    <3> QED BY <3>1 DEF Init, SessionsOf
  <2>2. ~HasCompleted(g[1], g[2])
    BY DEF Init, HasCompleted
  <2>3. GameOf(g) = [phase |-> "none", round |-> 0, table |-> {}, won |-> {}]
    BY <2>1, <2>2, GameOfNone
  <2> QED BY <2>3 DEF Atomic!NoGame
<1> QED BY <1>1 DEF games, Atomic!GameInit, Atomic!Games

\* While the requests of one player do not overlap, every step of the handlers is
\* one step of the play as a player understands it, or none: each request takes
\* effect at one moment (main.py:785-811, 1076-1097).
THEOREM HandlersPlayAtomically ==
  ASSUME Exclusive PROVE Spec => PlaysAtomically
<1>1. Inv /\ Excl /\ [Next]_vars => [Atomic!GameNext]_games
  BY NextPlays
<1> QED
  BY InitPlays, <1>1, ExclusiveInvariance, PTL
     DEF Spec, PlaysAtomically, Atomic!GameSpec
=============================================================================
