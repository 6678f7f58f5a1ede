----------------------------- MODULE ThreadPool -----------------------------
(***************************************************************************)
(* The pool of worker threads: runtime/framework/threadpool.{h,cc} and the *)
(* threads of worker_thread.{h,cc}.                                        *)
(*                                                                         *)
(* Everything is guarded by mutex_, which a worker drops while it runs a   *)
(* closure; Await gives it up as well.  So each stretch of code under the  *)
(* mutex is one action.  Any thread may call Schedule while the pool       *)
(* exists; once the destructor has begun only running closures can.        *)
(***************************************************************************)
EXTENDS Naturals, FiniteSets, Sequences

CONSTANTS
    Workers,      \* threads the pool may create: max_num_threads_ of them
    Tasks,        \* closures, each scheduled at most once
    NoTask,       \* what an idle worker runs
    CreateFaults  \* WorkerThread::Create may fail

ASSUME PoolAssumption ==
    /\ IsFiniteSet(Workers) /\ Workers # {}
    /\ IsFiniteSet(Tasks) /\ NoTask \notin Tasks
    /\ CreateFaults \in BOOLEAN

MaxThreads == Cardinality(Workers)

VARIABLES
    threads,    \* the workers of threads_, and after the swap threads_to_join
    stopped,    \* stopped_
    tasks,      \* tasks_
    active,     \* num_active_tasks_
    pc,         \* where each worker is
    running,    \* the closure each worker has taken
    destructor, \* where the destructor is
    waiter,     \* a client's call of WaitUntilDone
    accepted,   \* history: closures accepted by Schedule, in that order
    started,    \* history: closures taken by a worker, in that order
    finished,   \* history: closures that have returned
    shortOf     \* history: a creation of a thread has failed

vars == <<threads, stopped, tasks, active, pc, running, destructor, waiter,
          accepted, started, finished, shortOf>>

SeqSet(s) == {s[i] : i \in 1..Len(s)}
Idle == [pc |-> "idle", seen |-> {}]

TypeOK ==
    /\ threads \subseteq Workers
    /\ stopped \in BOOLEAN
    /\ tasks \in Seq(Tasks)
    /\ active \in 0..MaxThreads
    /\ pc \in [Workers -> {"none", "awaiting", "running", "returned", "exited"}]
    /\ running \in [Workers -> Tasks \cup {NoTask}]
    /\ destructor \in {"no", "joining", "done"}
    /\ waiter \in [pc : {"idle", "waiting", "ok", "timeout"}, seen : SUBSET Tasks]
    /\ accepted \in Seq(Tasks)
    /\ started \in Seq(Tasks)
    /\ finished \subseteq Tasks
    /\ shortOf \in BOOLEAN

Init ==
    /\ threads = {} /\ stopped = FALSE
    /\ tasks = <<>> /\ active = 0
    /\ pc = [w \in Workers |-> "none"]
    /\ running = [w \in Workers |-> NoTask]
    /\ destructor = "no" /\ waiter = Idle
    /\ accepted = <<>> /\ started = <<>> /\ finished = {}
    /\ shortOf = FALSE

-----------------------------------------------------------------------------
(* Schedule.                                                               *)

\* Some thread is there to make the call.
CanCall == destructor = "no" \/ \E w \in Workers : pc[w] = "running"

\* Mutant of NeedsThread: one thread too few.
NeedsThreadTooLate ==
    /\ threads # Workers
    /\ Cardinality(threads) < active + Len(tasks)

\* All threads are (supposed to be) busy, and there may be one more.
NeedsThread ==
    /\ threads # Workers
    /\ Cardinality(threads) <= active + Len(tasks)

Enqueue(t) ==
    /\ tasks' = Append(tasks, t)
    /\ accepted' = Append(accepted, t)

\* A new worker goes straight to its Await.
CreateThread(w) ==
    /\ w \notin threads
    /\ threads' = threads \cup {w}
    /\ pc' = [pc EXCEPT ![w] = "awaiting"]

Schedule(t) ==
    /\ CanCall /\ ~stopped
    /\ t \notin SeqSet(accepted)
    /\ \/ /\ NeedsThread
          /\ \E w \in Workers : CreateThread(w)
          /\ Enqueue(t)
          /\ UNCHANGED shortOf
       \/ /\ NeedsThread /\ CreateFaults
          /\ shortOf' = TRUE
          /\ IF threads = {} THEN UNCHANGED <<tasks, accepted>> ELSE Enqueue(t)
          /\ UNCHANGED <<threads, pc>>
       \/ /\ ~NeedsThread
          /\ Enqueue(t)
          /\ UNCHANGED <<threads, pc, shortOf>>
    /\ UNCHANGED <<stopped, active, running, destructor, waiter, started, finished>>

-----------------------------------------------------------------------------
(* RunWorker.                                                              *)

\* Mutant of TakeTask: the youngest closure is taken.
TakeYoungest(w) ==
    /\ pc[w] = "awaiting" /\ tasks # <<>>
    /\ running' = [running EXCEPT ![w] = tasks[Len(tasks)]]
    /\ tasks' = SubSeq(tasks, 1, Len(tasks) - 1)
    /\ started' = Append(started, tasks[Len(tasks)])
    /\ active' = active + 1
    /\ pc' = [pc EXCEPT ![w] = "running"]
    /\ UNCHANGED <<threads, stopped, destructor, waiter, accepted, finished, shortOf>>

\* Mutant of TakeTask: the closure is not counted as active.
TakeUncounted(w) ==
    /\ pc[w] = "awaiting" /\ tasks # <<>>
    /\ running' = [running EXCEPT ![w] = Head(tasks)]
    /\ tasks' = Tail(tasks)
    /\ started' = Append(started, Head(tasks))
    /\ active' = active
    /\ pc' = [pc EXCEPT ![w] = "running"]
    /\ UNCHANGED <<threads, stopped, destructor, waiter, accepted, finished, shortOf>>

\* Await finds a closure, which runs with the mutex released.
TakeTask(w) ==
    /\ pc[w] = "awaiting" /\ tasks # <<>>
    /\ running' = [running EXCEPT ![w] = Head(tasks)]
    /\ tasks' = Tail(tasks)
    /\ started' = Append(started, Head(tasks))
    /\ active' = active + 1
    /\ pc' = [pc EXCEPT ![w] = "running"]
    /\ UNCHANGED <<threads, stopped, destructor, waiter, accepted, finished, shortOf>>

\* The closure returns; the worker has yet to get the mutex back.
TaskReturns(w) ==
    /\ pc[w] = "running"
    /\ finished' = finished \cup {running[w]}
    /\ running' = [running EXCEPT ![w] = NoTask]
    /\ pc' = [pc EXCEPT ![w] = "returned"]
    /\ UNCHANGED <<threads, stopped, tasks, active, destructor, waiter, accepted,
                   started, shortOf>>

\* The worker counts itself out and awaits the next closure.
Resume(w) ==
    /\ pc[w] = "returned"
    /\ active' = active - 1
    /\ pc' = [pc EXCEPT ![w] = "awaiting"]
    /\ UNCHANGED <<threads, stopped, tasks, running, destructor, waiter, accepted,
                   started, finished, shortOf>>

\* Mutants of MayExit: pending closures are dropped, or nobody is let go.
MayExitAtOnce == stopped
MayNotExit == stopped /\ tasks # <<>>

\* A worker ends only when the pool is stopped and nothing is left to run.
MayExit == stopped /\ tasks = <<>>

Exit(w) ==
    /\ pc[w] = "awaiting"
    /\ MayExit
    /\ pc' = [pc EXCEPT ![w] = "exited"]
    /\ UNCHANGED <<threads, stopped, tasks, active, running, destructor, waiter,
                   accepted, started, finished, shortOf>>

Worker(w) == TakeTask(w) \/ TaskReturns(w) \/ Resume(w) \/ Exit(w)

-----------------------------------------------------------------------------
(* The destructor and WaitUntilDone.                                       *)

Stop ==
    /\ destructor = "no"
    /\ waiter.pc # "waiting"
    /\ stopped' = TRUE
    /\ destructor' = "joining"
    /\ UNCHANGED <<threads, tasks, active, pc, running, waiter, accepted, started,
                   finished, shortOf>>

Joined ==
    /\ destructor = "joining"
    /\ \A w \in threads : pc[w] = "exited"
    /\ destructor' = "done"
    /\ UNCHANGED <<threads, stopped, tasks, active, pc, running, waiter, accepted,
                   started, finished, shortOf>>

WaitBegins ==
    /\ destructor = "no"
    /\ waiter.pc # "waiting"
    /\ waiter' = [pc |-> "waiting", seen |-> SeqSet(accepted)]
    /\ UNCHANGED <<threads, stopped, tasks, active, pc, running, destructor,
                   accepted, started, finished, shortOf>>

IsDone == tasks = <<>> /\ active = 0

\* The deadline may pass first.
WaitEnds ==
    /\ waiter.pc = "waiting"
    /\ waiter' \in {[waiter EXCEPT !.pc = r] :
                      r \in {"timeout"} \cup (IF IsDone THEN {"ok"} ELSE {})}
    /\ UNCHANGED <<threads, stopped, tasks, active, pc, running, destructor,
                   accepted, started, finished, shortOf>>

Client == Stop \/ WaitBegins \/ WaitEnds \/ \E t \in Tasks : Schedule(t)

Next == Client \/ Joined \/ \E w \in Workers : Worker(w)

\* Workers and the destructor keep running, closures return, waits time out.
Fairness ==
    /\ \A w \in Workers : WF_vars(Worker(w))
    /\ WF_vars(Joined) /\ WF_vars(WaitEnds)

Spec == Init /\ [][Next]_vars /\ Fairness

-----------------------------------------------------------------------------
(* Properties.                                                             *)

\* No accepted closure is lost, duplicated or overtaken: those taken by the
\* workers followed by those still queued are the accepted ones, in order.
NoneLostNorOvertaken == accepted = started \o tasks

\* Schedule creates threads on demand, but never too late: unless a creation has
\* failed, a closure waits in the queue only if a worker is about to take it or
\* the pool has all the threads it may have.
ThreadsOnDemand ==
    ~shortOf => \/ threads = Workers
                \/ Cardinality(threads) >= active + Len(tasks)

\* An OK from WaitUntilDone means that every closure scheduled before the call
\* has returned.
WaitMeansFinished == waiter.pc = "ok" => waiter.seen \subseteq finished

\* The CHECK of the destructor holds, and the shutdown drops no closure that was
\* accepted before it began.
ShutdownDrains ==
    destructor = "done" => active = 0 /\ SeqSet(accepted) \subseteq finished

\* The destructor returns.
DestructorReturns == destructor = "joining" ~> destructor = "done"

\* The pool implements the abstract pool.
Pool == INSTANCE TaskPool WITH
            queue <- tasks,
            running <- {running[w] : w \in {x \in Workers : pc[x] = "running"}},
            done <- finished

ImplementsPool == Pool!Spec

\* The safety part of it, which is proved.
StepsOfPool == Pool!Init /\ [][Pool!Next]_(Pool!poolVars)

-----------------------------------------------------------------------------
(* The inductive invariant behind the safety theorems.                     *)

\* The workers that num_active_tasks_ counts.
Busy == {w \in Workers : pc[w] \in {"running", "returned"}}

AcceptedOnce ==
    \A i, j \in 1..Len(accepted) : i # j => accepted[i] # accepted[j]

\* A thread exists once it has been created, and ends only when the pool is
\* stopped and its queue empty.
ThreadsSound ==
    \A w \in Workers :
        /\ w \in threads <=> pc[w] # "none"
        /\ pc[w] = "exited" => stopped /\ tasks = <<>>

\* The closures that were taken have returned or are being run, each by one worker.
RunningSound ==
    /\ \A w \in Workers : pc[w] = "running" => running[w] \in Tasks \ finished
    /\ \A v, w \in Workers :
         pc[v] = "running" /\ pc[w] = "running" /\ v # w => running[v] # running[w]
    /\ SeqSet(started) =
         finished \cup {running[w] : w \in {x \in Workers : pc[x] = "running"}}

\* No closure is accepted without a thread to run it.
QueueServed == tasks # <<>> => threads # {}

DestructorSound ==
    /\ stopped <=> destructor # "no"
    /\ destructor = "done" => \A w \in threads : pc[w] = "exited"

WaiterSound == waiter.seen \subseteq SeqSet(accepted)

PoolInv ==
    /\ TypeOK
    /\ NoneLostNorOvertaken
    /\ AcceptedOnce
    /\ ThreadsSound
    /\ active = Cardinality(Busy)
    /\ RunningSound
    /\ QueueServed
    /\ ThreadsOnDemand
    /\ DestructorSound
    /\ WaiterSound
    /\ WaitMeansFinished
=============================================================================
