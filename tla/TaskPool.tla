------------------------------ MODULE TaskPool ------------------------------
(***************************************************************************)
(* What the users of runtime/framework/threadpool.h rely on, and all that  *)
(* the other modules assume of a pool: closures are started in the order   *)
(* in which Schedule accepted them, each one once, at most MaxThreads at a *)
(* time, and each accepted closure finishes.                               *)
(***************************************************************************)
EXTENDS Naturals, FiniteSets, Sequences

CONSTANTS
    Tasks,       \* the closures
    MaxThreads   \* max_num_threads_

VARIABLES
    queue,    \* closures accepted and not started, oldest first
    running,  \* closures that are being executed
    done      \* closures whose execution is over

poolVars == <<queue, running, done>>

Init == queue = <<>> /\ running = {} /\ done = {}

Started(t) == t \in running \cup done

Submit(t) ==
    /\ ~Started(t)
    /\ \A i \in 1..Len(queue) : queue[i] # t
    /\ queue' = Append(queue, t)
    /\ UNCHANGED <<running, done>>

Start ==
    /\ queue # <<>>
    /\ Cardinality(running) < MaxThreads
    /\ running' = running \cup {Head(queue)}
    /\ queue' = Tail(queue)
    /\ UNCHANGED done

Finish(t) ==
    /\ t \in running
    /\ running' = running \ {t}
    /\ done' = done \cup {t}
    /\ UNCHANGED queue

Next == Start \/ \E t \in Tasks : Submit(t) \/ Finish(t)

Spec ==
    /\ Init /\ [][Next]_poolVars
    /\ WF_poolVars(Start)
    /\ \A t \in Tasks : WF_poolVars(Finish(t))
=============================================================================
