--------------------------- MODULE RealtimeClient ---------------------------
(***************************************************************************)
(* The client of the realtime gateway (frontend/src/lib/realtime.ts): it   *)
(* opens a WebSocket and opens another, after a growing delay, whenever    *)
(* one closes, until it is closed by the application.                      *)
(*                                                                         *)
(* The application calls what it likes when it likes; its onOpen           *)
(* subscribes to a room, which the gateway knows by the socket, and its    *)
(* onClose may throw.  It sees neither the sockets nor the timers, and so  *)
(* may cross the client: it connects while there is a line already, or     *)
(* closes while one is due.                                                *)
(***************************************************************************)
EXTENDS Integers, FiniteSets

CONSTANTS
  Sockets,      \* bound: sockets that are not quite gone
  MaxTimers,    \* bound: reconnections due
  Base,         \* backoffBaseMs, 250
  Longest,      \* the longest delay, 10000
  None          \* no socket

ASSUME DelayAssumption == Base \in Nat \ {0} /\ Longest \in Nat
ASSUME BoundAssumption == MaxTimers \in Nat
ASSUME NoneIsNoSocket == None \notin Sockets

VARIABLES
  ws,           \* the socket the client holds
  sockets,      \* each socket
  delay,        \* of the next reconnection; the code counts attempts, of which
                \* Base * 2^attempt up to Longest is all that matters
  closed,
  timers,       \* reconnections that are due
  used,         \* history: connect was called
  crossed,      \* history: the application crossed the client
  threw         \* history: an exception ended connect or onclose, and no
                \* socket has been made since

vars == <<ws, sockets, delay, closed, timers, used, crossed, threw>>

Shortest == IF Base < Longest THEN Base ELSE Longest

Socket ==
  [state : {"none", "connecting", "open", "closing"}, subscribed : BOOLEAN]

TypeOK ==
  /\ ws \in Sockets \cup {None}
  /\ sockets \in [Sockets -> Socket]
  /\ delay \in 0 .. Longest
  /\ closed \in BOOLEAN
  /\ timers \in 0 .. MaxTimers
  /\ used \in BOOLEAN
  /\ crossed \in BOOLEAN
  /\ threw \in BOOLEAN

NoSocket == [state |-> "none", subscribed |-> FALSE]
Live == {w \in Sockets : sockets[w].state # "none"}

Init ==
  /\ ws = None
  /\ sockets = [w \in Sockets |-> NoSocket]
  /\ delay = Shortest
  /\ closed = FALSE
  /\ timers = 0
  /\ used = FALSE
  /\ crossed = FALSE
  /\ threw = FALSE

\* connect.  `new URL` or `new WebSocket` may throw: the client holds what it
\* held then, and nothing is due.
Open ==
  /\ closed' = FALSE
  /\ \/ /\ \E w \in Sockets \ Live :
             /\ sockets' = [sockets EXCEPT ![w].state = "connecting"]
             /\ ws' = w
        /\ threw' = FALSE
     \/ /\ threw' = TRUE
        /\ UNCHANGED <<sockets, ws>>

CallConnect ==
  /\ Open
  /\ used' = TRUE
  /\ crossed' = (crossed \/ Live # {} \/ timers > 0)
  /\ UNCHANGED <<delay, timers>>

\* A reconnection that is due opens a line, even when the client was closed.
TimerFires ==
  /\ timers > 0
  /\ timers' = timers - 1
  /\ Open
  /\ UNCHANGED <<delay, used, crossed>>

\* What send asks for.
CanSend == ws # None /\ sockets[ws].state = "open"

\* Mutant of SocketOpens: the room is not asked for again after a reconnection.
SocketOpensFirst(w) ==
  /\ sockets[w].state = "connecting"
  /\ delay' = Shortest
  /\ sockets' = [sockets EXCEPT
       ![w] = [state |-> "open", subscribed |-> delay = Shortest]]
  /\ UNCHANGED <<ws, closed, timers, used, crossed, threw>>

\* onopen: the attempts are forgotten, and the application subscribes; it does
\* so over the socket the client holds.
SocketOpens(w) ==
  /\ sockets[w].state = "connecting"
  /\ delay' = Shortest
  /\ sockets' = [v \in Sockets |->
       IF v = w
       THEN [state |-> "open", subscribed |-> ws = w]
       ELSE [sockets[v] EXCEPT !.subscribed = @ \/ (v = ws /\ CanSend)]]
  /\ UNCHANGED <<ws, closed, timers, used, crossed, threw>>

\* Mutant of Again: it is not tried once more after the longest delay.
AgainUntilLongest == timers' = IF delay < Longest THEN timers + 1 ELSE timers

Again == timers' = timers + 1

\* Mutant of Longer: the delay grows without bound.
LongerUncapped(d) == 2 * d

Longer(d) == IF 2 * d < Longest THEN 2 * d ELSE Longest

\* reconnect
Reconnect ==
  /\ timers < MaxTimers
  /\ Again
  /\ delay' = Longer(delay)

\* Mutant of SocketCloses: a client that was closed reconnects as well.
SocketClosesAnyway(w) ==
  /\ w \in Live
  /\ sockets' = [sockets EXCEPT ![w] = NoSocket]
  /\ ws' = None
  /\ Reconnect
  /\ UNCHANGED <<closed, used, crossed, threw>>

\* onclose: the client holds no socket then, whichever has closed; but the
\* application's onClose comes first, and what follows is left out if it throws.
SocketCloses(w) ==
  /\ w \in Live
  /\ sockets' = [sockets EXCEPT ![w] = NoSocket]
  /\ \/ /\ ws' = None
        /\ IF closed THEN UNCHANGED <<timers, delay>> ELSE Reconnect
        /\ UNCHANGED threw
     \/ /\ threw' = TRUE
        /\ UNCHANGED <<ws, timers, delay>>
  /\ UNCHANGED <<closed, used, crossed>>

\* Mutant of Hang: a line that is not open yet is left alone.
HangOpen ==
  sockets' = IF CanSend THEN [sockets EXCEPT ![ws].state = "closing"] ELSE sockets

\* The close of a socket that is gone does nothing.
Hang ==
  sockets' = IF ws \in Live THEN [sockets EXCEPT ![ws].state = "closing"] ELSE sockets

\* close
CallClose ==
  /\ closed' = TRUE
  /\ Hang
  /\ crossed' = (crossed \/ timers > 0)
  /\ UNCHANGED <<ws, delay, timers, used, threw>>

Next ==
  \/ CallConnect \/ TimerFires \/ CallClose
  \/ \E w \in Sockets : SocketOpens(w) \/ SocketCloses(w)

Spec == Init /\ [][Next]_vars

\* The browser fires its timers, and ends the closing of a socket.
FairSpec ==
  /\ Spec
  /\ WF_vars(TimerFires)
  /\ \A w \in Sockets : WF_vars(sockets[w].state = "closing" /\ SocketCloses(w))

-----------------------------------------------------------------------------
\* A client that was not crossed (no connect on top of a line or of one that is
\* due, no close while one is due) has one line at most, and none is due once it
\* is closed: messages come once, and close is final, even after exceptions
\* (connect, reconnect and close share no handle on the timer).
OneLine ==
  ~crossed =>
    /\ Cardinality(Live) + timers <= 1
    /\ closed => timers = 0

\* Unless the application crossed the client, as with a second connect, the
\* client holds the socket that is open, after each reconnection too, and so its
\* send is not refused; and the room was asked for on that socket, if the
\* application's onOpen subscribes (onopen, onclose, send).
OpenIsHeld ==
  ~crossed =>
    \A w \in Sockets : sockets[w].state = "open" =>
      ws = w /\ CanSend /\ sockets[w].subscribed

\* Whatever the application calls and whenever, a client that is not closed has a
\* line or is to have one: onclose gives up only when it, or connect, ends in an
\* exception (connect, onclose, reconnect), until the next socket is made.
NeverGivenUp == used /\ ~closed /\ ~threw => Live # {} \/ timers > 0

\* A closed client that was not crossed lets go of its line, also of one that
\* was only being opened.
CloseSettles ==
  closed /\ ~crossed ~> (Live = {} \/ ~closed \/ crossed)
=============================================================================
