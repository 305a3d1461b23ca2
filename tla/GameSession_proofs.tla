------------------------- MODULE GameSession_proofs -------------------------
(***************************************************************************)
(* Proofs about GameSession, for any number of threads, players, days,     *)
(* cards and sessions, whether or not requests are exclusive and handlers  *)
(* die: Inv is inductive, and the four properties of states that hold      *)
(* under every interleaving, and FinishedForGood, follow from it.          *)
(***************************************************************************)
EXTENDS GameSession, TLAPS

USE NoneAssumption

-----------------------------------------------------------------------------
(* Boards *)

\* Rows of FoundSet only accumulate.
LEMMA AppendFound ==
  ASSUME NEW q \in Seq(ValidSets), NEW S \in ValidSets
  PROVE  /\ Append(q, S) \in Seq(ValidSets)
         /\ {Append(q, S)[i] : i \in DOMAIN Append(q, S)}
              = {q[i] : i \in DOMAIN q} \cup {S}
  <1> DEFINE r == Append(q, S)
  <1>1. /\ r \in Seq(ValidSets)
        /\ DOMAIN q = 1 .. Len(q) /\ Len(q) \in Nat
        /\ DOMAIN r = 1 .. (Len(q) + 1)
        /\ \A i \in 1 .. Len(q) : r[i] = q[i]
        /\ r[Len(q) + 1] = S
    OBVIOUS
  <1> HIDE DEF r
  <1>2. QED
    BY <1>1 DEF r

-----------------------------------------------------------------------------
(* Init *)

LEMMA InitInv == Init => Inv
  <1> SUFFICES ASSUME Init PROVE Inv
    OBVIOUS
  <1> USE DEF Init, Idle, NoSession
  <1>1. TypeOK
    BY DEF TypeOK, Session, Handler, Stages, Sids
  <1>2. RowsComplete /\ HandlersInStep
    BY DEF RowsComplete, HandlersInStep, InStep
  <1>3. LegalBoards /\ NeverStranded /\ TimeAfterFinish
    BY DEF LegalBoards, NeverStranded, TimeAfterFinish
  <1>4. QED
    BY <1>1, <1>2, <1>3 DEF Inv

-----------------------------------------------------------------------------
(* Steps that leave sessions and found sets alone *)

\* Such a step keeps Inv when the handler it moves stays in step with the
\* tables, and what it adds to the other variables fits.
LEMMA LocalStep ==
  ASSUME Inv, NEW t \in Threads, NEW h \in Handler,
         th' = [th EXCEPT ![t] = h],
         UNCHANGED <<sess, found>>,
         InStep(h),
         h.pc = "create" => \A r \in Threads \ {t} :
                              th[r].pc = "create" => th[r].sid # h.sid,
         name' \in [Players -> Names \cup {Anonymous, Absent}],
         cookies' \subseteq Players,
         handed' \subseteq {s \in Sids : sess[s].state # "absent"},
         completions' \in Seq(Completion),
         TimeAfterFinish'
  PROVE  Inv'
  <1>1. TypeOK'
    BY DEF Inv, TypeOK
  <1>2. RowsComplete'
    BY DEF Inv, RowsComplete
  <1>3. \A board, s : Reachable(board, s)' <=> Reachable(board, s)
    BY DEF Reachable, FoundIn
  <1>4. HandlersInStep'
    <2>1. \A r \in Threads : th'[r] = IF r = t THEN h ELSE th[r]
      BY DEF Inv, TypeOK
    <2>2. \A r \in Threads : InStep(th'[r])
      BY <2>1 DEF Inv, HandlersInStep
    <2>3. \A r \in Threads : InStep(th[r])'
      BY <2>2, <1>3 DEF InStep
    <2>4. QED
      BY <2>1, <2>3 DEF Inv, HandlersInStep
  <1>5. LegalBoards' /\ NeverStranded'
    BY <1>3 DEF Inv, LegalBoards, NeverStranded
  <1>6. QED
    BY <1>1, <1>2, <1>4, <1>5 DEF Inv

\* A step that changes no completion keeps what is true of completions.
LEMMA SameTimes ==
  ASSUME Inv, UNCHANGED <<sess, completions>>
  PROVE  completions' \in Seq(Completion) /\ TimeAfterFinish'
  BY DEF Inv, TypeOK, TimeAfterFinish

\* Recording a time keeps what is true of completions, when the session it
\* comes from, if any, is finished and is that player's.
LEMMA RecordTime ==
  ASSUME Inv, UNCHANGED sess,
         NEW p \in Players, NEW d \in Dates, NEW s \in Sids \cup {None},
         s # None => /\ sess[s].state = "finished"
                     /\ sess[s].player = p /\ sess[s].date = d,
         Record(p, d, s)
  PROVE  completions' \in Seq(Completion) /\ TimeAfterFinish'
  <1> DEFINE row == [player |-> p, date |-> d, by |-> s]
  <1>1. row \in Completion
    BY DEF Completion
  <1>2. completions \in Seq(Completion) /\ completions' = Append(completions, row)
    BY DEF Inv, TypeOK, Record
  <1>3. /\ completions' \in Seq(Completion)
        /\ \A i \in DOMAIN completions' :
             \/ i \in DOMAIN completions /\ completions'[i] = completions[i]
             \/ completions'[i] = row
    <2> HIDE DEF row
    <2> QED BY <1>1, <1>2
  <1>4. TimeAfterFinish'
    BY <1>3 DEF Inv, TimeAfterFinish
  <1>5. QED
    BY <1>3, <1>4

-----------------------------------------------------------------------------
(* The handler that ends, or only moves on *)

LEMMA IdleFits == Idle \in Handler /\ Idle.pc # "create" /\ InStep(Idle)
  BY DEF Idle, Handler, Stages, InStep

LEMMA ReturnStep ==
  ASSUME Inv, NEW t \in Threads, Return(t), UNCHANGED <<name, sess, found>>,
         cookies' \subseteq Players,
         handed' \subseteq {s \in Sids : sess[s].state # "absent"},
         completions' \in Seq(Completion), TimeAfterFinish'
  PROVE  Inv'
  BY IdleFits, LocalStep DEF Return, Inv, TypeOK

LEMMA QuietReturn ==
  ASSUME Inv, NEW t \in Threads, Return(t), UNCHANGED <<tables, clients>>
  PROVE  Inv'
  BY ReturnStep, SameTimes DEF tables, clients, Inv, TypeOK, RowsComplete

\* Where a handler goes next decides what it must be in step with.
LEMMA GotoStep ==
  ASSUME Inv, NEW t \in Threads, NEW stage \in Stages, stage # "create",
         Goto(t, stage), UNCHANGED <<name, sess, found, clients>>,
         completions' \in Seq(Completion), TimeAfterFinish',
         InStep([th[t] EXCEPT !.pc = stage])
  PROVE  Inv'
  <1> DEFINE h == [th[t] EXCEPT !.pc = stage]
  <1>1. th[t] \in Handler /\ th \in [Threads -> Handler]
    BY DEF Inv, TypeOK
  <1>2. h \in Handler /\ h.pc # "create"
    BY <1>1 DEF Handler
  <1>3. th' = [th EXCEPT ![t] = h]
    BY <1>1 DEF Goto
  <1>4. /\ name' \in [Players -> Names \cup {Anonymous, Absent}]
        /\ cookies' \subseteq Players
        /\ handed' \subseteq {s \in Sids : sess[s].state # "absent"}
    BY DEF Inv, TypeOK, RowsComplete, clients
  <1> HIDE DEF h
  <1>5. InStep(h)
    BY DEF h
  <1>6. QED
    BY <1>2, <1>3, <1>4, <1>5, LocalStep

-----------------------------------------------------------------------------
(* start_session *)

LEMMA StartRequestInv ==
  ASSUME Inv, NEW t \in Threads, StartRequest(t)
  PROVE  Inv'
  <1>1. PICK u \in Names \cup {None}, c \in cookies \cup {None}, d \in Dates :
          th' = [th EXCEPT ![t] =
                   [Idle EXCEPT !.pc = "resolve", !.user = u, !.cookie = c,
                                !.date = d]]
    BY DEF StartRequest
  <1> DEFINE h == [Idle EXCEPT !.pc = "resolve", !.user = u, !.cookie = c,
                               !.date = d]
  <1>2. h \in Handler /\ InStep(h) /\ h.pc # "create"
    BY DEF Inv, TypeOK, Handler, Stages, Idle, InStep
  <1>3. UNCHANGED <<tables, clients>>
    BY DEF StartRequest
  <1> HIDE DEF h
  <1>4. th' = [th EXCEPT ![t] = h]
    BY <1>1 DEF h
  <1>5. QED
    BY <1>2, <1>3, <1>4, LocalStep, SameTimes
       DEF tables, clients, Inv, TypeOK, RowsComplete

\* The handler has a player: the conclusion of Resolve and of Register.
LEMMA SettleInv ==
  ASSUME Inv, NEW t \in Threads, NEW p \in Players, NEW inserted \in BOOLEAN,
         th[t].pc \in {"resolve", "register"}, Settle(t, p, inserted),
         name' \in [Players -> Names \cup {Anonymous, Absent}],
         UNCHANGED <<sess, found, completions, clients>>
  PROVE  Inv'
  <1> DEFINE h == [th[t] EXCEPT !.pc = "check", !.pid = p, !.user = None,
                                !.cookie = None, !.fresh = inserted]
  <1>1. th[t] \in Handler /\ th \in [Threads -> Handler]
    BY DEF Inv, TypeOK
  <1>2. h \in Handler /\ h.pc # "create"
    BY <1>1 DEF Handler, Stages
  <1>3. InStep(h)
    BY <1>1, <1>2 DEF Inv, HandlersInStep, InStep, Handler
  <1>4. th' = [th EXCEPT ![t] = h]
    BY <1>1 DEF Settle
  <1> HIDE DEF h
  <1>5. QED
    BY <1>2, <1>3, <1>4, LocalStep, SameTimes
       DEF clients, Inv, TypeOK, RowsComplete

LEMMA ResolveInv ==
  ASSUME Inv, NEW t \in Threads, Resolve(t)
  PROVE  Inv'
  <1>1. th[t] \in Handler /\ th[t].pc = "resolve"
    BY DEF Resolve, Inv, TypeOK
  <1>2. UNCHANGED <<tables, clients>>
    BY DEF Resolve
  <1>3. ASSUME NEW p \in Players, Settle(t, p, FALSE)
        PROVE  Inv'
    BY <1>1, <1>2, <1>3, SettleInv DEF tables, Inv, TypeOK
  <1>4. CASE Goto(t, "register")
    <2>1. InStep([th[t] EXCEPT !.pc = "register"])
      BY <1>1 DEF Inv, HandlersInStep, InStep, Handler
    <2>2. QED
      BY <1>2, <1>4, <2>1, GotoStep, SameTimes DEF tables, Stages
  <1>5. QED
    BY <1>1, <1>3, <1>4 DEF Resolve, Named, Handler

LEMMA RegisterInv ==
  ASSUME Inv, NEW t \in Threads, Register(t)
  PROVE  Inv'
  <1>1. th[t] \in Handler /\ th[t].pc = "register"
    BY DEF Register, Inv, TypeOK
  <1>2. UNCHANGED <<sess, found, completions, clients>>
    BY DEF Register
  <1>3. CASE Return(t) /\ UNCHANGED name
    BY <1>2, <1>3, QuietReturn DEF tables
  <1>4. ASSUME NEW p \in Players, Settle(t, p, TRUE),
               name' = [name EXCEPT ![p] = IF th[t].user = None
                                           THEN Anonymous ELSE th[t].user]
        PROVE  Inv'
    <2>1. name' \in [Players -> Names \cup {Anonymous, Absent}]
      BY <1>1, <1>4 DEF Inv, TypeOK, Handler
    <2>2. QED
      BY <1>1, <1>2, <1>4, <2>1, SettleInv
  <1>5. QED
    BY <1>3, <1>4 DEF Register

LEMMA CheckStartInv ==
  ASSUME Inv, NEW t \in Threads, CheckStart(t)
  PROVE  Inv'
  <1>1. th[t] \in Handler /\ th[t].pc = "check"
    BY DEF CheckStart, Inv, TypeOK
  <1>2. UNCHANGED <<tables, clients>>
    BY DEF CheckStart
  <1>3. CASE Return(t)
    BY <1>2, <1>3, QuietReturn
  <1>4. CASE Goto(t, "find")
    <2>1. InStep([th[t] EXCEPT !.pc = "find"])
      BY <1>1 DEF Inv, HandlersInStep, InStep, Handler
    <2>2. QED
      BY <1>2, <1>4, <2>1, GotoStep, SameTimes DEF tables, Stages
  <1>5. QED
    BY <1>3, <1>4 DEF CheckStart

LEMMA FindActiveInv ==
  ASSUME Inv, NEW t \in Threads, FindActive(t)
  PROVE  Inv'
  <1>1. th[t] \in Handler /\ th[t].pc = "find"
    BY DEF FindActive, Inv, TypeOK
  <1>2. UNCHANGED tables
    BY DEF FindActive
  <1>3. ASSUME NEW s \in Sids, Reply(t, s),
               IsLatest(s, ActiveSessions(th[t].pid, th[t].date))
        PROVE  Inv'
    <2>1. th[t].pid \in Players
      BY <1>1 DEF Inv, HandlersInStep, InStep
    <2>2. sess[s].state = "active"
      BY <1>3 DEF IsLatest, ActiveSessions
    <2>3. /\ cookies' \subseteq Players
          /\ handed' \subseteq {r \in Sids : sess[r].state # "absent"}
          /\ Return(t)
      BY <1>3, <2>1, <2>2 DEF Reply, Inv, TypeOK, RowsComplete
    <2>4. QED
      BY <1>2, <2>3, ReturnStep, SameTimes DEF tables
  <1>4. CASE Goto(t, "new") /\ UNCHANGED clients
    <2>1. InStep([th[t] EXCEPT !.pc = "new"])
      BY <1>1 DEF Inv, HandlersInStep, InStep, Handler
    <2>2. QED
      BY <1>2, <1>4, <2>1, GotoStep, SameTimes DEF tables, Stages
  <1>5. QED
    BY <1>3, <1>4 DEF FindActive

LEMMA NewSessionInv ==
  ASSUME Inv, NEW t \in Threads, NewSession(t)
  PROVE  Inv'
  <1>1. th[t] \in Handler /\ th \in [Threads -> Handler] /\ th[t].pc = "new"
    BY DEF NewSession, Inv, TypeOK
  <1>2. UNCHANGED <<tables, clients>>
    BY DEF NewSession
  <1>3. CASE Return(t)
    BY <1>2, <1>3, QuietReturn
  <1>4. ASSUME NEW s \in Sids,
               \A r \in {q \in Sids : sess[q].state # "absent"}
                          \cup {th[r].sid : r \in {q \in Threads :
                                                     th[q].pc = "create"}} : r < s,
               th' = [th EXCEPT ![t].sid = s, ![t].pc = "create"]
        PROVE  Inv'
    <2> DEFINE h == [th[t] EXCEPT !.sid = s, !.pc = "create"]
    <2>1. h \in Handler /\ h.sid = s
      BY <1>1 DEF Handler, Stages
    <2>2. th' = [th EXCEPT ![t] = h]
      BY <1>1, <1>4
    <2>3. sess[s].state = "absent"
      <3>1. s \in Int /\ ~(s < s)
        BY DEF Sids
      <3>2. sess[s].state # "absent" => s < s
        BY <1>4
      <3>3. QED
        BY <3>1, <3>2
    <2>4. \A r \in Threads : th[r].pc = "create" => th[r].sid # s
      <3>1. s \in Int /\ ~(s < s)
        BY DEF Sids
      <3>2. \A r \in Threads : th[r].pc = "create" => th[r].sid < s
        BY <1>4
      <3>3. QED
        BY <3>1, <3>2
    <2>5. InStep(h)
      BY <1>1, <2>1, <2>3 DEF Inv, HandlersInStep, InStep, Handler
    <2> HIDE DEF h
    <2>6. QED
      BY <1>2, <2>1, <2>2, <2>4, <2>5, LocalStep, SameTimes
         DEF tables, clients, Inv, TypeOK, RowsComplete
  <1>5. QED
    BY <1>3, <1>4 DEF NewSession

\* The row that is inserted has an id no handler works on, and the day's board,
\* which has a set.
LEMMA CreateSessionInv ==
  ASSUME Inv, NEW t \in Threads, CreateSession(t)
  PROVE  Inv'
  <1>1. /\ th[t] \in Handler /\ th \in [Threads -> Handler]
        /\ th[t].pc = "create"
    BY DEF CreateSession, Inv, TypeOK
  <1>2. PICK s \in Sids, d \in Dates, p \in Players :
          /\ s = th[t].sid /\ d = th[t].date /\ p = th[t].pid
          /\ sess[s].state = "absent"
    BY <1>1 DEF Inv, HandlersInStep, InStep, Handler
  <1> DEFINE row == [state |-> "active", player |-> p, date |-> d,
                     board |-> Daily[d]]
  <1>3. /\ sess' = [sess EXCEPT ![s] = row]
        /\ th' = [th EXCEPT ![t] = Idle]
        /\ handed' = handed \cup {s}
        /\ cookies' \subseteq cookies \cup {p}
        /\ UNCHANGED <<name, found, completions>>
    BY <1>2 DEF CreateSession, Reply, Return
  <1>4. row \in Session /\ HasSet(row.board) /\ row.board = Daily[d]
    BY <1>2, DeckAssumption DEF Session
  <1> HIDE DEF row
  <1>5. /\ \A r \in Sids : sess'[r] = IF r = s THEN row ELSE sess[r]
        /\ row.state = "active" /\ row.player = p /\ row.date = d
    BY <1>2, <1>3 DEF row, Inv, TypeOK
  <1>6. TypeOK'
    BY <1>2, <1>3, <1>4, IdleFits DEF Inv, TypeOK
  <1>7. RowsComplete'
    BY <1>2, <1>3, <1>5 DEF Inv, RowsComplete, TypeOK
  <1>8. \A r \in Sids : \A board : sess[r].state # "absent" =>
          (Reachable(board, r)' <=> Reachable(board, r))
    BY <1>2, <1>3, <1>5 DEF Reachable, FoundIn
  <1>9. HandlersInStep'
    <2>1. \A r \in Threads : th'[r] = IF r = t THEN Idle ELSE th[r]
      BY <1>1, <1>3
    <2>2. InStep(th[t])'
      BY <2>1 DEF InStep, Idle
    <2>3. ASSUME NEW r \in Threads, r # t
          PROVE  InStep(th[r])'
      <3>1. th'[r] = th[r] /\ InStep(th[r]) /\ th[r] \in Handler
        BY <2>1, <2>3, <1>1 DEF Inv, HandlersInStep
      <3>2. th[r].pc = "create" => th[r].sid # s
        BY <1>1, <1>2, <2>3 DEF Inv, HandlersInStep
      <3>3. th[r].sid # None => th[r].sid \in Sids
        BY <3>1 DEF Handler
      <3>4. QED
        BY <1>2, <1>5, <1>8, <3>1, <3>2, <3>3 DEF InStep
    <2>4. \A q, r \in Threads :
            (th[q].pc = "create" /\ th[r].pc = "create"
               /\ th[q].sid = th[r].sid => q = r)'
      BY <2>1 DEF Inv, HandlersInStep, Idle
    <2>5. QED
      BY <2>2, <2>3, <2>4 DEF HandlersInStep
  <1>10. LegalBoards'
    <2>1. Reachable(row.board, s)'
      <3>1. /\ {} \in SUBSET FoundIn(s)' /\ Disjoint({})
            /\ (UNION {}) \subseteq Daily[d] /\ Daily[d] = Daily[d] \ (UNION {})
        BY DEF Disjoint
      <3>2. sess'[s].date = d
        BY <1>2, <1>5
      <3>3. QED
        BY <1>4, <3>1, <3>2 DEF Reachable
    <2>2. QED
      BY <1>5, <1>8, <2>1 DEF Inv, LegalBoards
  <1>11. NeverStranded'
    BY <1>4, <1>5 DEF Inv, NeverStranded
  <1>12. TimeAfterFinish'
    <2>1. \A i \in DOMAIN completions :
            completions[i].by # None => completions[i].by \in Sids
      <3>1. \A i \in DOMAIN completions : completions[i] \in Completion
        BY DEF Inv, TypeOK
      <3>2. QED
        BY <3>1 DEF Completion
    <2>2. QED
      BY <1>2, <1>3, <1>5, <2>1 DEF Inv, TimeAfterFinish
  <1>13. QED
    BY <1>6, <1>7, <1>9, <1>10, <1>11, <1>12 DEF Inv

-----------------------------------------------------------------------------
(* submit_set *)

LEMMA SubmitRequestInv ==
  ASSUME Inv, NEW t \in Threads, SubmitRequest(t)
  PROVE  Inv'
  <1>1. PICK s \in handed \cup {None}, u \in Names \cup {None},
             d \in Dates \cup {None}, solo \in BOOLEAN :
          /\ th' = [th EXCEPT ![t] =
                      [Idle EXCEPT !.pc = "load", !.user = u, !.date = d,
                                   !.sid = s, !.solo = solo]]
          /\ s = None <=> d # None
    BY DEF SubmitRequest
  <1> DEFINE h == [Idle EXCEPT !.pc = "load", !.user = u, !.date = d,
                               !.sid = s, !.solo = solo]
  <1>2. h \in Handler /\ InStep(h) /\ h.pc # "create"
    BY <1>1 DEF Inv, TypeOK, RowsComplete, Handler, Stages, Idle, InStep
  <1>3. UNCHANGED <<tables, clients>>
    BY DEF SubmitRequest
  <1> HIDE DEF h
  <1>4. th' = [th EXCEPT ![t] = h]
    BY <1>1 DEF h
  <1>5. QED
    BY <1>2, <1>3, <1>4, LocalStep, SameTimes
       DEF tables, clients, Inv, TypeOK, RowsComplete

LEMMA LoadInv ==
  ASSUME Inv, NEW t \in Threads, Load(t)
  PROVE  Inv'
  <1>1. th[t] \in Handler /\ th \in [Threads -> Handler] /\ th[t].pc = "load"
    BY DEF Load, Inv, TypeOK
  <1>2. UNCHANGED <<tables, clients>>
    BY DEF Load
  <1>3. CASE Return(t)
    BY <1>2, <1>3, QuietReturn
  <1>4. ASSUME NEW h \in Handler, InStep(h), h.pc = "guard",
               th' = [th EXCEPT ![t] = h]
        PROVE  Inv'
    BY <1>2, <1>4, LocalStep, SameTimes
       DEF tables, clients, Inv, TypeOK, RowsComplete
  <1>5. CASE /\ th[t].sid = None
             /\ th' = [th EXCEPT ![t].board = Daily[th[t].date],
                                 ![t].pc = "guard"]
    <2> DEFINE h == [th[t] EXCEPT !.board = Daily[th[t].date], !.pc = "guard"]
    <2>1. th[t].date \in Dates
      BY <1>1, <1>5 DEF Inv, HandlersInStep, InStep
    <2>2. h \in Handler
      <3>1. Daily[th[t].date] \in SUBSET Cards
        BY <2>1, DeckAssumption
      <3>2. QED
        BY <1>1, <3>1 DEF Handler, Stages
    <2>3. InStep(h) /\ h.pc = "guard"
      BY <1>1, <1>5, <2>1, <2>2 DEF InStep, Handler
    <2>4. th' = [th EXCEPT ![t] = h]
      BY <1>1, <1>5
    <2> HIDE DEF h
    <2>5. QED
      BY <1>4, <2>2, <2>3, <2>4
  <1>6. CASE /\ th[t].sid # None
             /\ sess[th[t].sid].state = "active"
             /\ th' = [th EXCEPT ![t].board = sess[th[t].sid].board,
                                 ![t].date = sess[th[t].sid].date,
                                 ![t].pid = sess[th[t].sid].player,
                                 ![t].pc = "guard"]
    <2> DEFINE s == th[t].sid
               h == [th[t] EXCEPT !.board = sess[s].board, !.date = sess[s].date,
                                  !.pid = sess[s].player, !.pc = "guard"]
    <2>1. s \in Sids /\ sess[s] \in Session
      BY <1>1, <1>6 DEF Inv, TypeOK, Handler
    <2>2. Reachable(sess[s].board, s)
      BY <1>6, <2>1 DEF Inv, LegalBoards
    <2>3. h \in Handler
      BY <1>1, <2>1 DEF Handler, Session, Stages
    <2>4. InStep(h) /\ h.pc = "guard"
      BY <1>1, <1>6, <2>1, <2>2, <2>3 DEF InStep, Handler
    <2>5. th' = [th EXCEPT ![t] = h]
      BY <1>1, <1>6
    <2> HIDE DEF h
    <2>6. QED
      BY <1>4, <2>3, <2>4, <2>5
  <1>7. QED
    BY <1>3, <1>5, <1>6 DEF Load

LEMMA GuardInv ==
  ASSUME Inv, NEW t \in Threads, Guard(t)
  PROVE  Inv'
  <1>1. th[t] \in Handler /\ th[t].pc = "guard"
    BY DEF Guard, Inv, TypeOK
  <1>2. UNCHANGED <<tables, clients>>
    BY DEF Guard
  <1>3. CASE Return(t)
    BY <1>2, <1>3, QuietReturn
  <1>4. CASE Goto(t, "apply")
    <2>1. InStep([th[t] EXCEPT !.pc = "apply"])
      BY <1>1 DEF Inv, HandlersInStep, InStep, Handler
    <2>2. QED
      BY <1>2, <1>4, <2>1, GotoStep, SameTimes DEF tables, Stages
  <1>5. QED
    BY <1>3, <1>4 DEF Guard

\* After a commit the handler goes on to a standalone time, or ends.
LEMMA ContinueStep ==
  ASSUME Inv, NEW t \in Threads, th[t].pc \in {"apply", "record"},
         Continue(t), UNCHANGED <<name, sess, found, clients>>,
         completions' \in Seq(Completion), TimeAfterFinish'
  PROVE  Inv'
  <1>1. th[t] \in Handler
    BY DEF Inv, TypeOK
  <1>2. CASE Return(t)
    BY <1>2, ReturnStep DEF clients, Inv, TypeOK, RowsComplete
  <1>3. CASE Goto(t, "standalone")
    <2>1. InStep([th[t] EXCEPT !.pc = "standalone"])
      BY <1>1 DEF Inv, HandlersInStep, InStep, Handler
    <2>2. QED
      BY <1>3, <2>1, GotoStep DEF Stages
  <1>4. QED
    BY <1>2, <1>3 DEF Continue

LEMMA ApplyToDailyInv ==
  ASSUME Inv, NEW t \in Threads, ApplyToDaily(t)
  PROVE  Inv'
  BY ContinueStep, SameTimes DEF ApplyToDaily, tables

LEMMA RecordSessionInv ==
  ASSUME Inv, NEW t \in Threads, RecordSession(t)
  PROVE  Inv'
  <1>1. th[t] \in Handler /\ th[t].pc = "record"
    BY DEF RecordSession, Inv, TypeOK
  <1>2. /\ th[t].sid \in Sids /\ sess[th[t].sid].state = "finished"
        /\ th[t].pid = sess[th[t].sid].player
        /\ th[t].date = sess[th[t].sid].date
    BY <1>1 DEF Inv, HandlersInStep, InStep, Handler
  <1>3. th[t].pid \in Players /\ th[t].date \in Dates
    BY <1>2 DEF Inv, RowsComplete
  <1>4. completions' \in Seq(Completion) /\ TimeAfterFinish'
    BY <1>2, <1>3, RecordTime DEF RecordSession
  <1>5. QED
    BY <1>1, <1>4, ContinueStep DEF RecordSession

LEMMA RecordStandaloneInv ==
  ASSUME Inv, NEW t \in Threads, RecordStandalone(t)
  PROVE  Inv'
  <1>1. th[t].date \in Dates
    <2>1. th[t] \in Handler /\ th[t].pc = "standalone"
      BY DEF RecordStandalone, Inv, TypeOK
    <2>2. CASE th[t].sid = None
      BY <2>1, <2>2 DEF Inv, HandlersInStep, InStep
    <2>3. CASE th[t].sid # None
      BY <2>1, <2>3 DEF Inv, HandlersInStep, InStep, RowsComplete, Handler
    <2>4. QED
      BY <2>2, <2>3
  <1>2. completions' \in Seq(Completion) /\ TimeAfterFinish'
    <2>1. CASE UNCHANGED completions
      BY <2>1, SameTimes DEF RecordStandalone
    <2>2. ASSUME NEW p \in Named(th[t].user), Record(p, th[t].date, None)
          PROVE  completions' \in Seq(Completion) /\ TimeAfterFinish'
      BY <1>1, <2>2, RecordTime DEF RecordStandalone, Named
    <2>3. QED
      BY <2>1, <2>2 DEF RecordStandalone
  <1>3. QED
    BY <1>2, ReturnStep DEF RecordStandalone, clients, Inv, TypeOK, RowsComplete

LEMMA CompleteDailyInv ==
  ASSUME Inv, NEW t \in Threads, CompleteDaily(t)
  PROVE  Inv'
  <1>1. PICK u \in Names, d \in Dates, p \in Players : Record(p, d, None)
    BY DEF CompleteDaily, Named
  <1>2. completions' \in Seq(Completion) /\ TimeAfterFinish'
    BY <1>1, RecordTime DEF CompleteDaily
  <1>3. th[t] \in Handler /\ th' = [th EXCEPT ![t] = th[t]]
    BY DEF CompleteDaily, Inv, TypeOK
  <1>4. InStep(th[t])
    BY DEF Inv, HandlersInStep
  <1>5. th[t].pc = "create" => \A r \in Threads \ {t} :
          th[r].pc = "create" => th[r].sid # th[t].sid
    BY DEF Inv, HandlersInStep
  <1>6. QED
    BY <1>2, <1>3, <1>4, <1>5, LocalStep
       DEF CompleteDaily, clients, Inv, TypeOK, RowsComplete

\* A commit of a set: the row keeps its player and day and never loses its
\* finished flag, the rows of FoundSet grow, so that what was reachable stays
\* reachable, and the board that is written is reachable because the board
\* that was loaded was.
LEMMA PlayInv ==
  ASSUME Inv, NEW t \in Threads, NEW S \in ValidSets, Play(t, S)
  PROVE  Inv' /\ \A r \in Sids : sess[r].state = "finished"
                                   => sess'[r].state = "finished"
  <1>1. /\ th[t] \in Handler /\ th \in [Threads -> Handler]
        /\ th[t].pc = "apply"
        /\ InStep(th[t])
    BY DEF Play, Inv, TypeOK, HandlersInStep
  <1>2. PICK s \in Sids, b \in SUBSET Cards, d \in Dates :
          /\ s = th[t].sid /\ b = th[t].board /\ d = th[t].date
          /\ sess[s].state # "absent"
          /\ th[t].pid = sess[s].player /\ d = sess[s].date
          /\ Reachable(b, s)
    <2>1. /\ th[t].sid \in Sids /\ sess[th[t].sid].state # "absent"
          /\ th[t].pid = sess[th[t].sid].player
          /\ th[t].date = sess[th[t].sid].date
          /\ Reachable(th[t].board, th[t].sid)
      BY <1>1 DEF Play, InStep, Handler
    <2>2. sess[th[t].sid].date \in Dates
      BY <2>1 DEF Inv, RowsComplete
    <2>3. th[t].board \in SUBSET Cards
      BY <1>1 DEF Handler
    <2>4. QED
      BY <2>1, <2>2, <2>3
  <1> DEFINE rest == b \ S
             last == ~HasSet(rest)
             row  == [sess[s] EXCEPT !.board = rest,
                                     !.state = IF last THEN "finished" ELSE @]
  <1>3. /\ sess' = [sess EXCEPT ![s] = row]
        /\ found' = [found EXCEPT ![s] = Append(@, S)]
        /\ S \subseteq b
        /\ UNCHANGED <<name, completions, clients>>
    BY <1>2 DEF Play, Inv, TypeOK
  <1>4. /\ row \in Session /\ row.board = rest /\ row.state # "absent"
        /\ row.player = sess[s].player /\ row.date = d
        /\ last => row.state = "finished"
        /\ ~last => row.state = sess[s].state
    <2>1. sess[s] \in Session /\ rest \in SUBSET Cards
      BY <1>2 DEF Inv, TypeOK
    <2> HIDE DEF last, rest
    <2>2. CASE last
      BY <1>2, <2>1, <2>2 DEF Session
    <2>3. CASE ~last
      BY <1>2, <2>1, <2>3 DEF Session
    <2>4. QED
      BY <2>2, <2>3
  <1>5. PICK h \in Handler :
          /\ th' = [th EXCEPT ![t] = h]
          /\ \/ h = Idle
             \/ /\ h = [th[t] EXCEPT !.pc = "record"] /\ last
             \/ h = [th[t] EXCEPT !.pc = "standalone"]
    <2>1. /\ [th[t] EXCEPT !.pc = "record"] \in Handler
          /\ [th[t] EXCEPT !.pc = "standalone"] \in Handler
          /\ Idle \in Handler
      BY <1>1, IdleFits DEF Handler, Stages
    <2>2. CASE last
      <3>1. th' = [th EXCEPT ![t] = [th[t] EXCEPT !.pc = "record"]]
        BY <1>1, <1>2, <2>2 DEF Play, Goto
      <3>2. QED
        BY <2>1, <2>2, <3>1
    <2>3. CASE ~last
      <3>1. Continue(t)
        BY <1>2, <2>3 DEF Play
      <3>2. \/ th' = [th EXCEPT ![t] = [th[t] EXCEPT !.pc = "standalone"]]
            \/ th' = [th EXCEPT ![t] = Idle]
        BY <1>1, <3>1 DEF Continue, Goto, Return
      <3>3. QED
        BY <2>1, <3>2
    <2>4. QED
      BY <2>2, <2>3
  <1> HIDE DEF row, last
  <1>6. \A r \in Sids : sess'[r] = IF r = s THEN row ELSE sess[r]
    BY <1>2, <1>3 DEF Inv, TypeOK
  <1>7. /\ \A r \in Sids : FoundIn(r) \subseteq FoundIn(r)'
        /\ S \in FoundIn(s)'
        /\ found' \in [Sids -> Seq(ValidSets)]
    <2>1. /\ found \in [Sids -> Seq(ValidSets)]
          /\ found[s] \in Seq(ValidSets)
      BY DEF Inv, TypeOK
    <2>2. /\ Append(found[s], S) \in Seq(ValidSets)
          /\ {Append(found[s], S)[i] : i \in DOMAIN Append(found[s], S)}
               = FoundIn(s) \cup {S}
      BY <2>1, AppendFound DEF FoundIn
    <2>3. \A r \in Sids : found'[r] = IF r = s THEN Append(found[s], S)
                                             ELSE found[r]
      BY <1>3, <2>1
    <2>4. FoundIn(s)' = FoundIn(s) \cup {S}
      BY <2>2, <2>3 DEF FoundIn
    <2>5. \A r \in Sids \ {s} : FoundIn(r)' = FoundIn(r)
      BY <2>3 DEF FoundIn
    <2>6. QED
      BY <1>3, <2>1, <2>2, <2>4, <2>5
  <1>8. \A r \in Sids : \A board : Reachable(board, r) => Reachable(board, r)'
    <2>1. \A r \in Sids : sess'[r].date = sess[r].date
      BY <1>2, <1>4, <1>6
    <2>2. QED
      BY <1>7, <2>1 DEF Reachable
  <1>9. Reachable(rest, s)'
    <2>1. PICK won \in SUBSET FoundIn(s) :
            /\ Disjoint(won)
            /\ UNION won \subseteq Daily[d]
            /\ b = Daily[d] \ UNION won
      BY <1>2 DEF Reachable
    <2>2. /\ Disjoint(won \cup {S})
          /\ UNION (won \cup {S}) \subseteq Daily[d]
          /\ rest = Daily[d] \ UNION (won \cup {S})
      <3>1. \A T \in won : S \cap T = {}
        BY <1>3, <2>1
      <3>2. UNION (won \cup {S}) = (UNION won) \cup S
        OBVIOUS
      <3>3. QED
        BY <1>3, <2>1, <3>1, <3>2 DEF Disjoint
    <2>3. won \cup {S} \in SUBSET FoundIn(s)'
      BY <1>7, <2>1
    <2>4. sess'[s].date = d
      BY <1>4, <1>6
    <2>5. QED
      BY <2>2, <2>3, <2>4 DEF Reachable
  <1>10. TypeOK'
    BY <1>3, <1>4, <1>5, <1>7 DEF Inv, TypeOK, clients
  <1>11. RowsComplete'
    BY <1>2, <1>3, <1>4, <1>6 DEF Inv, RowsComplete, clients, TypeOK
  <1>12. HandlersInStep'
    <2>1. \A r \in Threads : th'[r] = IF r = t THEN h ELSE th[r]
      BY <1>1, <1>5
    <2>2. InStep(th[t])'
      <3>1. CASE h = Idle
        BY <2>1, <3>1 DEF InStep, Idle
      <3>2. /\ th[t].sid = s /\ th[t].pid = sess[s].player
            /\ th[t].date = d /\ th'[t] = h /\ sess'[s] = row /\ s # None
        BY <1>2, <1>6, <2>1, BoundAssumption DEF Sids
      <3>3. CASE h = [th[t] EXCEPT !.pc = "record"] /\ last
        <4>1. /\ th'[t].pc = "record" /\ th'[t].sid = s
              /\ th'[t].pid = row.player /\ th'[t].date = d
          BY <1>1, <1>2, <1>4, <3>2, <3>3 DEF Handler
        <4>2. row.state = "finished"
          BY <1>4, <3>3
        <4>3. QED
          BY <1>4, <3>2, <4>1, <4>2 DEF InStep
      <3>4. CASE h = [th[t] EXCEPT !.pc = "standalone"]
        <4>1. /\ th'[t].pc = "standalone" /\ th'[t].sid = s
              /\ th'[t].pid = row.player /\ th'[t].date = d
          BY <1>1, <1>2, <1>4, <3>2, <3>4 DEF Handler
        <4>2. QED
          BY <1>4, <3>2, <4>1 DEF InStep
      <3>5. QED
        BY <1>5, <3>1, <3>3, <3>4
    <2>3. ASSUME NEW r \in Threads, r # t
          PROVE  InStep(th[r])'
      <3>1. th'[r] = th[r] /\ InStep(th[r]) /\ th[r] \in Handler
        BY <1>1, <2>1, <2>3 DEF Inv, HandlersInStep
      <3>2. th[r].sid # None => th[r].sid \in Sids
        BY <3>1 DEF Handler
      <3>3. QED
        BY <1>2, <1>4, <1>6, <1>8, <3>1, <3>2 DEF InStep
    <2>4. \A q, r \in Threads :
            (th[q].pc = "create" /\ th[r].pc = "create"
               /\ th[q].sid = th[r].sid => q = r)'
      <3>1. h.pc # "create"
        BY <1>1, <1>5 DEF Idle, Handler
      <3>2. QED
        BY <2>1, <3>1 DEF Inv, HandlersInStep
    <2>5. QED
      BY <2>2, <2>3, <2>4 DEF HandlersInStep
  <1>13. LegalBoards'
    BY <1>4, <1>6, <1>8, <1>9 DEF Inv, LegalBoards
  <1>14. NeverStranded'
    BY <1>4, <1>6 DEF Inv, NeverStranded, last
  <1>15. \A r \in Sids : sess[r].state = "finished"
                           => sess'[r].state = "finished"
    BY <1>4, <1>6
  <1>16. TimeAfterFinish'
    <2>1. \A i \in DOMAIN completions :
            completions[i].by # None => completions[i].by \in Sids
      <3>1. \A i \in DOMAIN completions : completions[i] \in Completion
        BY DEF Inv, TypeOK
      <3>2. QED
        BY <3>1 DEF Completion
    <2>2. \A r \in Sids : sess'[r].player = sess[r].player
                            /\ sess'[r].date = sess[r].date
      BY <1>2, <1>4, <1>6
    <2>3. QED
      BY <1>3, <1>15, <2>1, <2>2 DEF Inv, TimeAfterFinish
  <1>17. QED
    BY <1>10, <1>11, <1>12, <1>13, <1>14, <1>15, <1>16 DEF Inv

-----------------------------------------------------------------------------
(* The other steps, and all of them *)

LEMMA SameTables ==
  ASSUME Inv, UNCHANGED <<tables, cookies, th>>,
         handed' \subseteq {s \in Sids : sess[s].state # "absent"}
  PROVE  Inv'
  <1>1. \A board, s : Reachable(board, s)' <=> Reachable(board, s)
    BY DEF Reachable, FoundIn, tables
  <1>2. \A t \in Threads : InStep(th[t])'
    BY <1>1 DEF InStep, Inv, HandlersInStep, tables
  <1>3. TypeOK' /\ RowsComplete' /\ NeverStranded' /\ TimeAfterFinish'
    BY DEF Inv, TypeOK, RowsComplete, NeverStranded, TimeAfterFinish, tables
  <1>4. HandlersInStep' /\ LegalBoards'
    BY <1>1, <1>2 DEF Inv, HandlersInStep, LegalBoards, tables
  <1>5. QED
    BY <1>3, <1>4 DEF Inv

LEMMA GetCurrentSessionInv ==
  ASSUME Inv, GetCurrentSession
  PROVE  Inv'
  <1>1. PICK s \in Sids : sess[s].state = "active" /\ handed' = handed \cup {s}
    BY DEF GetCurrentSession, IsLatest, ActiveSessions
  <1>2. handed' \subseteq {r \in Sids : sess[r].state # "absent"}
    BY <1>1 DEF Inv, RowsComplete, TypeOK
  <1>3. QED
    BY <1>2, SameTables DEF GetCurrentSession

\* Inv is inductive, and no step takes back a finished flag.
LEMMA NextInv ==
  ASSUME Inv, [Next]_vars
  PROVE  Inv' /\ \A s \in Sids : sess[s].state = "finished"
                                   => sess'[s].state = "finished"
  <1>1. ASSUME NEW t \in Threads, CreateSession(t)
        PROVE  \A s \in Sids : sess[s].state = "finished"
                                 => sess'[s].state = "finished"
    <2>1. th[t].sid \in Sids /\ sess[th[t].sid].state = "absent"
      BY <1>1 DEF CreateSession, Inv, HandlersInStep, InStep
    <2>2. QED
      BY <1>1, <2>1 DEF CreateSession, Inv, TypeOK
  <1>2. ASSUME NEW t \in Threads, Request(t)
        PROVE  Inv' /\ UNCHANGED sess
    BY <1>2, StartRequestInv, SubmitRequestInv, CompleteDailyInv
       DEF Request, StartRequest, SubmitRequest, CompleteDaily, tables
  <1>3. ASSUME NEW t \in Threads, StartStep(t)
        PROVE  Inv' /\ (CreateSession(t) \/ UNCHANGED sess)
    BY <1>3, ResolveInv, RegisterInv, CheckStartInv, FindActiveInv,
       NewSessionInv, CreateSessionInv
       DEF StartStep, Resolve, Register, CheckStart, FindActive, NewSession, tables
  <1>4. ASSUME NEW t \in Threads, SubmitStep(t)
        PROVE  /\ Inv'
               /\ \/ \E S \in ValidSets : Play(t, S)
                  \/ UNCHANGED sess
    <2>1. CASE Reject(t)
      BY <2>1, QuietReturn DEF Reject, tables
    <2>2. QED
      BY <1>4, <2>1, LoadInv, GuardInv, ApplyToDailyInv, PlayInv,
         RecordSessionInv, RecordStandaloneInv
         DEF SubmitStep, Load, Guard, ApplyToDaily, RecordSession,
             RecordStandalone, tables
  <1>5. ASSUME NEW t \in Threads, Die(t)
        PROVE  Inv' /\ UNCHANGED sess
    BY <1>5, QuietReturn DEF Die, tables
  <1>6. CASE GetCurrentSession
    BY <1>6, GetCurrentSessionInv DEF GetCurrentSession, tables
  <1>7. CASE UNCHANGED vars
    BY <1>7, SameTables DEF vars, tables, Inv, RowsComplete, TypeOK
  <1>8. QED
    BY <1>1, <1>2, <1>3, <1>4, <1>5, <1>6, <1>7, PlayInv DEF Next

-----------------------------------------------------------------------------
(* Theorems *)

\* In every reachable state the rows, the handlers and the boards they loaded
\* agree (app/main.py and app/crud.py as a whole).
THEOREM Invariance == Spec => []Inv
  <1>1. Inv /\ [Next]_vars => Inv'
    BY NextInv
  <1>2. QED
    BY InitInv, <1>1, PTL DEF Spec

\* Every variable keeps its type: in particular no time is recorded without a
\* player and a day.
THEOREM TypeCorrect == Spec => []TypeOK
  BY Invariance, PTL DEF Inv

\* Stale handlers put cards back on a board, but never make up a board.
THEOREM BoardsStayLegal == Spec => []LegalBoards
  BY Invariance, PTL DEF Inv

\* A session that can be given back to its player has a set left to find.
THEOREM NobodyIsStranded == Spec => []NeverStranded
  BY Invariance, PTL DEF Inv

\* A session's time is its player's, and comes after the finished flag.
THEOREM TimesFollowFinish == Spec => []TimeAfterFinish
  BY Invariance, PTL DEF Inv

\* What a handler holds agrees with the tables at each of its stages.
THEOREM HandlersStayInStep == Spec => []HandlersInStep
  BY Invariance, PTL DEF Inv

\* No commit of a stale row takes back the finished flag.
THEOREM FinishedIsFinal == Spec => FinishedForGood
  <1>1. Inv /\ [Next]_vars =>
          [\A s \in Sids : sess[s].state = "finished"
                             => sess'[s].state = "finished"]_vars
    BY NextInv
  <1>2. QED
    BY Invariance, <1>1, PTL DEF Spec, FinishedForGood
=============================================================================
