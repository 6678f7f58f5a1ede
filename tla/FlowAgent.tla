------------------------------- MODULE FlowAgent -------------------------------
(***************************************************************************)
(* The invocations of a FlowAgent (mindgrid/brainhub/lockzone/              *)
(* flow_agent.ts): the gate that bounds how many are between acquire() and  *)
(* release(), the middleware, the execution and its timeout.                *)
(*                                                                          *)
(* The code runs on one thread of JavaScript; an invocation is interrupted  *)
(* at its awaits only, and each action is what runs from one await to the   *)
(* next.                                                                    *)
(***************************************************************************)
EXTENDS Integers, Sequences, FiniteSets

CONSTANTS
    Call,           \* the invocations
    MaxConcurrency  \* options.maxConcurrency, 0 for no limit

ASSUME ConcurrencyIsNumber == MaxConcurrency \in Nat

VARIABLES
    registered,  \* the invocations' action is registered
    at,          \* where each invocation is
    inFlight,
    queue,       \* the invocations whose promise acquire() has not resolved
    executing    \* the executions under way, those timed out included

agentVars == <<registered, at, inFlight, queue, executing>>

AgentInit ==
    /\ registered = FALSE
    /\ at = [c \in Call |-> "idle"]
    /\ inFlight = 0 /\ queue = <<>> /\ executing = {}

Register == /\ ~registered /\ registered' = TRUE
            /\ UNCHANGED <<at, inFlight, queue, executing>>

Unregister == /\ registered /\ registered' = FALSE
              /\ UNCHANGED <<at, inFlight, queue, executing>>

\* The number of slots, all of them taken by `n' invocations.
Free(n) == MaxConcurrency = 0 \/ n < MaxConcurrency

\* invoke, up to the first await: an unknown action is answered at once, and
\* acquire() takes a slot or queues the invocation.
Invoke(c) ==
    /\ at[c] = "idle"
    /\ IF ~registered
       THEN at' = [at EXCEPT ![c] = "done"] /\ UNCHANGED <<inFlight, queue>>
       ELSE IF Free(inFlight)
       THEN /\ at' = [at EXCEPT ![c] = "admitted"]
            /\ inFlight' = inFlight + 1
            /\ UNCHANGED queue
       ELSE /\ at' = [at EXCEPT ![c] = "queued"]
            /\ queue' = Append(queue, c)
            /\ UNCHANGED inFlight
    /\ UNCHANGED <<registered, executing>>

Less(n) == IF n > 0 THEN n - 1 ELSE 0

\* Mutant of Release: the slot is not handed on.
ReleaseOnly(c) ==
    /\ at' = [at EXCEPT ![c] = "done"]
    /\ inFlight' = Less(inFlight)
    /\ UNCHANGED queue

\* release(), in the finally block: the slot goes to the first one waiting, which
\* goes on in a later turn of the event loop.
Release(c) ==
    IF queue = <<>>
    THEN /\ at' = [at EXCEPT ![c] = "done"]
         /\ inFlight' = Less(inFlight)
         /\ UNCHANGED queue
    ELSE /\ at' = [at EXCEPT ![c] = "done", ![Head(queue)] = "admitted"]
         /\ inFlight' = Less(inFlight) + 1
         /\ queue' = Tail(queue)

\* The middleware runs or throws, and the payload is valid or not; then the
\* action's execution starts.
Start(c) ==
    /\ at[c] = "admitted"
    /\ \/ Release(c) /\ UNCHANGED executing
       \/ /\ at' = [at EXCEPT ![c] = "running"]
          /\ executing' = executing \cup {c}
          /\ UNCHANGED <<inFlight, queue>>
    /\ UNCHANGED registered

\* The execution resolves or rejects; after its timeout nobody looks at it.
Finish(c) ==
    /\ c \in executing
    /\ executing' = executing \ {c}
    /\ IF at[c] = "running" THEN Release(c) ELSE UNCHANGED <<at, inFlight, queue>>
    /\ UNCHANGED registered

\* withTimeout rejects; the execution itself goes on.
Timeout(c) ==
    /\ at[c] = "running"
    /\ Release(c)
    /\ UNCHANGED <<registered, executing>>

AgentNext ==
    \/ Register \/ Unregister
    \/ \E c \in Call : Invoke(c) \/ Start(c) \/ Finish(c) \/ Timeout(c)

AgentSpec == AgentInit /\ [][AgentNext]_agentVars

Holding == {c \in Call : at[c] \in {"admitted", "running"}}

\* The count is that of the invocations past the gate, of which there are never
\* more than allowed, and an invocation waits only while all slots are taken, so
\* that none is forgotten when the last one releases its slot.
NoneForgotten ==
    /\ inFlight = Cardinality(Holding)
    /\ MaxConcurrency # 0 => inFlight <= MaxConcurrency
    /\ queue # <<>> => inFlight = MaxConcurrency
    /\ \A c \in Call : at[c] = "queued" <=> \E i \in DOMAIN queue : queue[i] = c
=============================================================================
