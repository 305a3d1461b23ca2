------------------------ MODULE RealtimeClient_proofs ------------------------
(***************************************************************************)
(* The promises of the realtime client, for any number of sockets, any     *)
(* bound on the timers and any delays.                                     *)
(***************************************************************************)
EXTENDS RealtimeClient, FiniteSetTheorems, TLAPS

-----------------------------------------------------------------------------
(* Types *)

\* The delay stays under its cap.
LEMMA DelayType ==
  /\ Shortest \in 0 .. Longest
  /\ \A d \in 0 .. Longest : Longer(d) \in 0 .. Longest
BY DelayAssumption DEF Shortest, Longer

\* open makes one more socket, and the client holds it, or an exception ends it.
LEMMA OpenType ==
  ASSUME TypeOK, Open
  PROVE  /\ closed' = FALSE
         /\ \/ /\ ws' \in Sockets /\ sockets' \in [Sockets -> Socket]
               /\ Live' = Live \cup {ws'} /\ sockets'[ws'].state = "connecting"
               /\ threw' = FALSE
            \/ threw' = TRUE /\ UNCHANGED <<sockets, ws>> /\ Live' = Live
<1>a. CASE threw' = TRUE /\ UNCHANGED <<sockets, ws>>
  BY <1>a DEF Open, Live
<1>b. CASE \E w \in Sockets \ Live :
              /\ sockets' = [sockets EXCEPT ![w].state = "connecting"]
              /\ ws' = w
              /\ threw' = FALSE
  <2>1. PICK w \in Sockets \ Live :
          /\ sockets' = [sockets EXCEPT ![w].state = "connecting"]
          /\ ws' = w
    BY <1>b
  <2>2. /\ sockets'[w].state = "connecting"
        /\ \A v \in Sockets \ {w} : sockets'[v] = sockets[v]
    BY <2>1 DEF TypeOK, Socket
  <2>3. sockets' \in [Sockets -> Socket]
    BY <2>1 DEF TypeOK, Socket
  <2> QED BY <1>b, <2>1, <2>2, <2>3 DEF Open, Live
<1> QED BY <1>a, <1>b DEF Open

\* The sockets that an onclose leaves.
LEMMA CloseType ==
  ASSUME TypeOK, NEW w \in Sockets, SocketCloses(w)
  PROVE  /\ sockets' \in [Sockets -> Socket]
         /\ w \in Live /\ Live' = Live \ {w}
         /\ \A v \in Sockets \ {w} : sockets'[v] = sockets[v]
         /\ sockets'[w] = NoSocket
         /\ \/ /\ ws' = None /\ threw' = threw
               /\ IF closed THEN UNCHANGED <<timers, delay>>
                  ELSE /\ timers' = timers + 1 /\ timers' \in 0 .. MaxTimers
                       /\ delay' = Longer(delay)
            \/ threw' = TRUE /\ UNCHANGED <<ws, timers, delay>>
         /\ UNCHANGED <<closed, used, crossed>>
<1>1. sockets' = [sockets EXCEPT ![w] = NoSocket]
  BY DEF SocketCloses
<1>2. /\ sockets'[w] = NoSocket
      /\ \A v \in Sockets \ {w} : sockets'[v] = sockets[v]
      /\ sockets' \in [Sockets -> Socket]
  BY <1>1 DEF TypeOK, Socket, NoSocket
<1>3. w \in Live /\ Live' = Live \ {w}
  BY <1>2 DEF SocketCloses, Live, NoSocket
<1>4. timers \in 0 .. MaxTimers /\ timers < MaxTimers => timers + 1 \in 0 .. MaxTimers
  BY BoundAssumption
<1> QED BY <1>2, <1>3, <1>4, BoundAssumption
        DEF SocketCloses, Reconnect, Again, TypeOK

\* onopen changes no life of a socket.
LEMMA OpensType ==
  ASSUME TypeOK, NEW w \in Sockets, SocketOpens(w)
  PROVE  /\ sockets' \in [Sockets -> Socket] /\ w \in Live /\ Live' = Live
         /\ sockets'[w].state = "open" /\ sockets'[w].subscribed = (ws = w)
         /\ \A v \in Sockets \ {w} :
              /\ sockets'[v].state = sockets[v].state
              /\ sockets[v].subscribed => sockets'[v].subscribed
         /\ UNCHANGED <<ws, closed, timers, used, crossed, threw>>
<1>1. sockets' = [v \in Sockets |->
        IF v = w
        THEN [state |-> "open", subscribed |-> ws = w]
        ELSE [sockets[v] EXCEPT !.subscribed = @ \/ (v = ws /\ CanSend)]]
  BY DEF SocketOpens
<1>2. \A v \in Sockets : sockets[v] \in Socket
  BY DEF TypeOK
<1>3. ASSUME NEW v \in Sockets \ {w}
      PROVE  /\ sockets'[v] \in Socket /\ sockets'[v].state = sockets[v].state
             /\ sockets[v].subscribed => sockets'[v].subscribed
  <2> DEFINE b == sockets[v].subscribed \/ (v = ws /\ CanSend)
  <2>1. sockets'[v] = [sockets[v] EXCEPT !.subscribed = b]
    BY <1>1
  <2>2. b \in BOOLEAN
    BY <1>2 DEF Socket
  <2>3. sockets[v].subscribed => b
    OBVIOUS
  <2> HIDE DEF b
  <2> QED BY <1>2, <2>1, <2>2, <2>3 DEF Socket
<1>4. sockets'[w] = [state |-> "open", subscribed |-> ws = w]
  BY <1>1
<1>5. sockets'[w] \in Socket
  BY <1>4 DEF Socket
<1>6. sockets' \in [Sockets -> Socket]
  <2>1. sockets' = [v \in Sockets |-> sockets'[v]]
    BY <1>1
  <2>2. \A v \in Sockets : sockets'[v] \in Socket
    BY <1>3, <1>5
  <2> QED BY <2>1, <2>2
<1>7. w \in Live /\ Live' = Live
  BY <1>3, <1>4 DEF SocketOpens, Live
<1> QED BY <1>3, <1>4, <1>6, <1>7 DEF SocketOpens

\* close hangs up the socket that the client holds.
LEMMA HangType ==
  ASSUME TypeOK, Hang
  PROVE  /\ sockets' \in [Sockets -> Socket]
         /\ \A v \in Sockets : (v = ws /\ ws \in Live) \/ sockets'[v] = sockets[v]
         /\ ws \in Live => sockets'[ws].state = "closing"
         /\ Live' = Live
<1>1. CASE ws \notin Live
  BY <1>1 DEF Hang, TypeOK, Live
<1>2. CASE ws \in Live
  <2>1. ws \in Sockets /\ sockets' = [sockets EXCEPT ![ws].state = "closing"]
    BY <1>2 DEF Hang, Live
  <2>2. /\ sockets' \in [Sockets -> Socket]
        /\ sockets'[ws].state = "closing"
        /\ \A v \in Sockets \ {ws} : sockets'[v] = sockets[v]
    BY <2>1 DEF TypeOK, Socket
  <2> QED BY <1>2, <2>1, <2>2 DEF Live
<1> QED BY <1>1, <1>2

LEMMA TypeStep == TypeOK /\ [Next]_vars => TypeOK'
<1> SUFFICES ASSUME TypeOK, [Next]_vars PROVE TypeOK'
  OBVIOUS
<1>1. CASE CallConnect
  BY <1>1, OpenType DEF CallConnect, TypeOK
<1>2. CASE TimerFires
  <2>1. timers' \in 0 .. MaxTimers
    BY <1>2, BoundAssumption DEF TimerFires, TypeOK
  <2> QED BY <1>2, <2>1, OpenType DEF TimerFires, TypeOK
<1>3. CASE CallClose
  BY <1>3, HangType DEF CallClose, TypeOK
<1>4. ASSUME NEW w \in Sockets, SocketOpens(w) PROVE TypeOK'
  <2>1. delay' \in 0 .. Longest
    BY <1>4, DelayType DEF SocketOpens
  <2> QED BY <1>4, <2>1, OpensType DEF TypeOK
<1>5. ASSUME NEW w \in Sockets, SocketCloses(w) PROVE TypeOK'
  BY <1>5, CloseType, DelayType DEF TypeOK
<1>6. CASE UNCHANGED vars
  BY <1>6 DEF vars, TypeOK
<1> QED BY <1>1, <1>2, <1>3, <1>4, <1>5, <1>6 DEF Next

LEMMA InitType == Init => TypeOK
<1> SUFFICES ASSUME Init PROVE TypeOK
  OBVIOUS
<1>1. [w \in Sockets |-> NoSocket] \in [Sockets -> Socket]
  BY DEF NoSocket, Socket
<1>2. 0 \in 0 .. MaxTimers
  BY BoundAssumption
<1> QED BY <1>1, <1>2, DelayType DEF Init, TypeOK

\* Every variable keeps its type; the delay never exceeds its cap.
THEOREM TypeCorrect == Spec => []TypeOK
BY InitType, TypeStep, PTL DEF Spec

-----------------------------------------------------------------------------
(* Never given up *)

\* Whatever the application calls and however sockets end, a client that was
\* connected and not closed has a line or one is due, unless connect or onclose
\* ended in an exception since a socket was last made.
THEOREM KeepsTrying == Spec => []NeverGivenUp
<1>1. Init => NeverGivenUp
  BY DEF Init, NeverGivenUp
<1>2. TypeOK /\ NeverGivenUp /\ [Next]_vars => NeverGivenUp'
  <2> SUFFICES ASSUME TypeOK, NeverGivenUp, [Next]_vars PROVE NeverGivenUp'
    OBVIOUS
  <2>1. CASE CallConnect
    BY <2>1, OpenType DEF CallConnect, NeverGivenUp
  <2>2. CASE TimerFires
    BY <2>2, OpenType DEF TimerFires, NeverGivenUp
  <2>3. CASE CallClose
    <3>1. closed'
      BY <2>3, Zenon DEF CallClose
    <3> QED BY <3>1, SMT DEF NeverGivenUp
  <2>4. ASSUME NEW w \in Sockets, SocketOpens(w) PROVE NeverGivenUp'
    <3>1. UNCHANGED <<used, closed, timers, threw>> /\ Live' = Live
      BY <2>4, OpensType
    <3> QED BY <3>1 DEF NeverGivenUp
  <2>5. ASSUME NEW w \in Sockets, SocketCloses(w) PROVE NeverGivenUp'
    <3>0. CASE threw'
      BY <3>0, SMT DEF NeverGivenUp
    <3>1. CASE closed
      <4>1. closed'
        BY <2>5, <3>1, Zenon DEF SocketCloses
      <4> QED BY <4>1, SMT DEF NeverGivenUp
    <3>2. CASE ~closed /\ ~threw'
      <4>1. timers' = timers + 1 /\ timers \in 0 .. MaxTimers
        BY <2>5, <3>2, CloseType DEF TypeOK
      <4>2. timers' > 0
        BY <4>1, BoundAssumption
      <4> QED BY <4>2 DEF NeverGivenUp
    <3> QED BY <3>0, <3>1, <3>2
  <2>6. CASE UNCHANGED vars
    BY <2>6 DEF vars, NeverGivenUp, Live
  <2> QED BY <2>1, <2>2, <2>3, <2>4, <2>5, <2>6 DEF Next
<1> QED BY <1>1, <1>2, TypeCorrect, PTL DEF Spec

-----------------------------------------------------------------------------
(* One line *)

\* OneLine without counting, with the socket that the client holds, and the
\* room that an open one has.
Line ==
  ~crossed =>
    /\ Live \subseteq {ws}
    /\ timers > 0 => timers = 1 /\ Live = {}
    /\ closed => timers = 0
    /\ \A w \in Sockets : sockets[w].state = "open" => sockets[w].subscribed

LEMMA LineStep == TypeOK /\ Line /\ [Next]_vars => Line'
<1> SUFFICES ASSUME TypeOK, Line, [Next]_vars PROVE Line'
  OBVIOUS
<1>1. CASE CallConnect
  <2>1. SUFFICES ASSUME ~crossed' PROVE Line'
    BY DEF Line
  <2>2. Live = {} /\ timers = 0 /\ ~crossed
    <3>1. ~(crossed \/ Live # {} \/ timers > 0)
      BY <1>1, <2>1, Zenon DEF CallConnect
    <3> QED BY <3>1, BoundAssumption DEF TypeOK
  <2>3. /\ closed' = FALSE /\ Live' \subseteq {ws'}
        /\ \A w \in Live' : sockets'[w].state = "connecting"
    BY <1>1, <2>2, OpenType DEF CallConnect
  <2>4. \A w \in Sockets : sockets'[w].state # "open"
    BY <2>3 DEF Live
  <2> QED BY <1>1, <2>2, <2>3, <2>4 DEF CallConnect, Line
<1>2. CASE TimerFires
  <2>1. SUFFICES ASSUME ~crossed PROVE Line'
    BY <1>2 DEF Line, TimerFires
  <2>2. timers = 1 /\ Live = {}
    BY <1>2, <2>1 DEF TimerFires, Line
  <2>3. /\ closed' = FALSE /\ Live' \subseteq {ws'} /\ timers' = 0
        /\ \A w \in Live' : sockets'[w].state = "connecting"
    <3>1. timers' = 0 /\ Open
      BY <1>2, <2>2 DEF TimerFires
    <3>2. /\ closed' = FALSE
          /\ (Live' = {ws'} /\ sockets'[ws'].state = "connecting") \/ Live' = {}
      BY <2>2, <3>1, OpenType
    <3> QED BY <3>1, <3>2
  <2>4. \A w \in Sockets : sockets'[w].state # "open"
    BY <2>3 DEF Live
  <2> QED BY <2>3, <2>4 DEF Line
<1>3. CASE CallClose
  <2>1. SUFFICES ASSUME ~crossed' PROVE Line'
    BY DEF Line
  <2>2. ~crossed /\ timers = 0 /\ timers' = 0 /\ ws' = ws
    <3>1. ~(crossed \/ timers > 0)
      BY <1>3, <2>1, Zenon DEF CallClose
    <3> QED BY <1>3, <3>1, BoundAssumption DEF CallClose, TypeOK
  <2>3. Live' \subseteq {ws}
    BY <1>3, <2>2, HangType DEF CallClose, Line
  <2>4. \A w \in Sockets : sockets'[w].state = "open" => sockets'[w].subscribed
    BY <1>3, <2>2, HangType DEF CallClose, Line
  <2> QED BY <2>2, <2>3, <2>4 DEF Line
<1>4. ASSUME NEW w \in Sockets, SocketOpens(w) PROVE Line'
  <2>1. SUFFICES ASSUME ~crossed PROVE Line'
    BY <1>4, OpensType DEF Line
  <2>2. w \in Live /\ ws = w
    BY <1>4, <2>1, OpensType DEF Line
  <2>3. sockets'[w].subscribed
    BY <1>4, <2>2, OpensType
  <2> QED BY <1>4, <2>1, <2>2, <2>3, OpensType DEF Line
<1>5. ASSUME NEW w \in Sockets, SocketCloses(w) PROVE Line'
  <2>1. SUFFICES ASSUME ~crossed PROVE Line'
    BY <1>5, CloseType DEF Line
  <2>a. w \in Live /\ Live' = Live \ {w}
    BY <1>5, CloseType
  <2>b. Live \subseteq {ws} /\ timers = 0
    BY <2>1, <2>a, BoundAssumption DEF Line, TypeOK
  <2>2. w \in Live /\ Live \subseteq {ws} /\ Live' = {} /\ timers = 0
    BY <2>a, <2>b
  <2>3. closed' => timers' = 0
    BY <1>5, <2>2, CloseType
  <2>4. timers' > 0 => timers' = 1
    <3>1. timers' = timers + 1 \/ timers' = timers
      BY <1>5, CloseType
    <3> QED BY <2>2, <3>1
  <2>5. \A v \in Sockets : sockets'[v].state = "open" => sockets'[v].subscribed
    BY <2>2 DEF Live
  <2> QED BY <2>2, <2>3, <2>4, <2>5 DEF Line
<1>6. CASE UNCHANGED vars
  BY <1>6 DEF vars, Line, Live
<1> QED BY <1>1, <1>2, <1>3, <1>4, <1>5, <1>6 DEF Next

LEMMA LineInvariance == Spec => [](TypeOK /\ Line)
<1>1. Init => Line
  BY DEF Init, Line, Live, NoSocket
<1> QED BY <1>1, InitType, TypeStep, LineStep, PTL DEF Spec

\* A client that was not crossed has one socket at most, or one that is due, and
\* none is due once it is closed.
THEOREM LinesStaySingle == Spec => []OneLine
<1>1. TypeOK /\ Line => OneLine
  <2> SUFFICES ASSUME TypeOK, Line, ~crossed PROVE OneLine
    BY DEF OneLine
  <2>1. CASE Live = {}
    <3>1. Cardinality(Live) = 0
      BY <2>1, FS_EmptySet
    <3> QED BY <3>1 DEF OneLine, Line, TypeOK
  <2>2. CASE Live # {}
    <3>1. Live = {ws}
      BY <2>2 DEF Line
    <3>2. Cardinality(Live) = 1
      BY <3>1, FS_Singleton
    <3>3. timers = 0
      BY <2>2 DEF Line, TypeOK
    <3> QED BY <3>2, <3>3 DEF OneLine
  <2> QED BY <2>1, <2>2
<1> QED BY <1>1, LineInvariance, PTL

\* While the application has not crossed the client, the socket that is open is
\* the one that the client sends on, and its room was asked for.
THEOREM OpenStaysHeld == Spec => []OpenIsHeld
<1>1. TypeOK /\ Line => OpenIsHeld
  BY NoneIsNoSocket DEF OpenIsHeld, Line, Live, CanSend
<1> QED BY <1>1, LineInvariance, PTL
=============================================================================
