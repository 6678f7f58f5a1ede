--------------------------- MODULE SightCoreWebSocket ---------------------------
(***************************************************************************)
(* SightCoreWebSocket (databridge/seenvault/sightcore_connection.ts): a     *)
(* socket that is connected again after it has closed.                      *)
(*                                                                          *)
(* The code runs on one thread of JavaScript, an action is one call or one  *)
(* event handler.  The socket itself is the browser's: it closes at any     *)
(* time, an error of it is followed by its close event, and close() is      *)
(* answered by one later.                                                   *)
(***************************************************************************)
EXTENDS Integers, FiniteSets

CONSTANTS
    MaxReconnectAttempts,  \* maxReconnectAttempts
    MaxSockets             \* bound on the sockets made

ASSUME SocketBounds == MaxReconnectAttempts \in Nat /\ MaxSockets \in Nat

VARIABLES
    made,      \* sockets made; `this.socket' is the last one
    ready,     \* readyState of each
    attempts,  \* reconnectAttempts
    timers,    \* reconnections a timer has been set for
    heartbeat  \* heartbeatTimer is set

linkVars == <<made, ready, attempts, timers, heartbeat>>

SocketInit ==
    /\ made = 0 /\ ready = [s \in 1..MaxSockets |-> "none"]
    /\ attempts = 0 /\ timers = 0 /\ heartbeat = FALSE

\* new WebSocket, with handlers of its own.
MakeSocket ==
    /\ made < MaxSockets
    /\ made' = made + 1
    /\ ready' = [ready EXCEPT ![made + 1] = "connecting"]

\* connect, called once by the owner.
Connect ==
    /\ made = 0
    /\ MakeSocket
    /\ UNCHANGED <<attempts, timers, heartbeat>>

\* The timer of a reconnection.
Reconnect ==
    /\ timers > 0 /\ timers' = timers - 1
    /\ MakeSocket
    /\ UNCHANGED <<attempts, heartbeat>>

\* onopen
OnOpen(s) ==
    /\ ready[s] = "connecting"
    /\ ready' = [ready EXCEPT ![s] = "open"]
    /\ attempts' = 0 /\ heartbeat' = TRUE
    /\ UNCHANGED <<made, timers>>

\* close() of the current socket: nothing if it is closed already.
CloseCurrent ==
    IF made > 0 /\ ready[made] \in {"connecting", "open"}
    THEN ready' = [ready EXCEPT ![made] = "closing"]
    ELSE UNCHANGED ready

\* Mutant of OnError: the error is taken for the end of the connection.
OnErrorReconnects(s) ==
    /\ ready[s] \in {"connecting", "open", "closing"}
    /\ CloseCurrent
    /\ timers' = timers + 1
    /\ UNCHANGED <<made, attempts, heartbeat>>

\* onerror: the current socket is closed; its close event does the rest.
OnError(s) ==
    /\ ready[s] \in {"connecting", "open", "closing"}
    /\ CloseCurrent
    /\ UNCHANGED <<made, attempts, timers, heartbeat>>

\* onclose, also after disconnect: the heartbeat stops and, unless too many
\* attempts have failed in a row, a reconnection is due.
OnClose(s) ==
    /\ ready[s] \in {"connecting", "open", "closing"}
    /\ ready' = [ready EXCEPT ![s] = "closed"]
    /\ heartbeat' = FALSE
    /\ IF attempts < MaxReconnectAttempts
       THEN attempts' = attempts + 1 /\ timers' = timers + 1
       ELSE UNCHANGED <<attempts, timers>>
    /\ UNCHANGED made

Disconnect ==
    /\ heartbeat' = FALSE
    /\ CloseCurrent
    /\ UNCHANGED <<made, attempts, timers>>

SocketNext ==
    \/ Connect \/ Reconnect \/ Disconnect
    \/ \E s \in 1..made : OnOpen(s) \/ OnError(s) \/ OnClose(s)

SocketSpec == SocketInit /\ [][SocketNext]_linkVars

Living == {s \in 1..made : ready[s] \in {"connecting", "open", "closing"}}

\* Whatever closes, fails and is disconnected in between, there is one
\* connection at most, made or due, and it is the current one; the heartbeat
\* runs on it alone; and it is given up only when all attempts have failed.
OneConnection ==
    /\ Cardinality(Living) + timers <= 1
    /\ Living \subseteq {made}
    /\ heartbeat => made > 0 /\ ready[made] \in {"open", "closing"}
    /\ made > 0 /\ Living = {} /\ timers = 0 => attempts = MaxReconnectAttempts
=============================================================================
