-------------------------- MODULE ThreadPoolProofs --------------------------
(***************************************************************************)
(* Proofs about ThreadPool, for any number of workers and closures, with   *)
(* and without failures to create a thread.                                *)
(***************************************************************************)
EXTENDS ThreadPool, FiniteSetTheorems, SequenceTheorems, TLAPS

-----------------------------------------------------------------------------
(* Facts about the data.                                                   *)

\* Moving the head of one queue to the end of another.
LEMMA MoveHead ==
  ASSUME NEW S, NEW a \in Seq(S), NEW b \in Seq(S), b # <<>>
  PROVE  Append(a, Head(b)) \o Tail(b) = a \o b
<1>0. Len(b) \in Nat \ {0} /\ Head(b) \in S /\ Tail(b) \in Seq(S)
  OBVIOUS
<1>1. /\ Append(a, Head(b)) \o Tail(b) \in Seq(S) /\ a \o b \in Seq(S)
      /\ Len(Append(a, Head(b)) \o Tail(b)) = Len(a \o b)
  BY <1>0
<1>2. \A i \in 1..Len(a \o b) :
         (Append(a, Head(b)) \o Tail(b))[i] = (a \o b)[i]
  BY <1>0
<1>3. QED
  BY <1>1, <1>2, SeqEqual

LEMMA SeqSetAppend ==
  ASSUME NEW S, NEW a \in Seq(S), NEW x \in S
  PROVE  /\ SeqSet(Append(a, x)) = SeqSet(a) \cup {x}
         /\ SeqSet(a) \subseteq S
<1>1. Len(Append(a, x)) = Len(a) + 1 /\ Len(a) \in Nat
  OBVIOUS
<1>2. \A i \in 1..Len(a) : Append(a, x)[i] = a[i]
  OBVIOUS
<1>3. Append(a, x)[Len(a) + 1] = x
  OBVIOUS
<1>4. SeqSet(Append(a, x)) \subseteq SeqSet(a) \cup {x}
  BY <1>1, <1>2, <1>3 DEF SeqSet
<1>5. SeqSet(a) \cup {x} \subseteq SeqSet(Append(a, x))
  BY <1>1, <1>2, <1>3 DEF SeqSet
<1>6. SeqSet(a) \subseteq S
  BY DEF SeqSet
<1>7. QED
  BY <1>4, <1>5, <1>6

\* The workers are finitely many.
LEMMA WorkersFinite ==
  /\ IsFiniteSet(Workers) /\ MaxThreads \in Nat \ {0}
  /\ \A S \in SUBSET Workers :
       /\ IsFiniteSet(S) /\ Cardinality(S) \in 0..MaxThreads
       /\ Cardinality(S) = MaxThreads => S = Workers
  BY PoolAssumption, FS_CardinalityType, FS_Subset, FS_EmptySet DEF MaxThreads

\* The number of busy workers after one of them joins or leaves.
LEMMA BusyJoins ==
  ASSUME NEW w \in Workers, w \notin Busy, Busy' = Busy \cup {w}
  PROVE  Cardinality(Busy') = Cardinality(Busy) + 1
<1>1. IsFiniteSet(Busy)
  BY WorkersFinite DEF Busy
<1>2. QED
  BY <1>1, FS_AddElement

LEMMA BusyLeaves ==
  ASSUME NEW w \in Workers, w \in Busy, Busy' = Busy \ {w}
  PROVE  Cardinality(Busy') = Cardinality(Busy) - 1
<1>1. IsFiniteSet(Busy)
  BY WorkersFinite DEF Busy
<1>2. QED
  BY <1>1, FS_RemoveElement

\* active counts the workers between taking a closure and counting it out.
LEMMA ActiveType ==
  active = Cardinality(Busy) => active \in 0..MaxThreads
  BY WorkersFinite DEF Busy

-----------------------------------------------------------------------------
(* The invariant holds initially, and every action keeps it.               *)

LEMMA InitInv == Init => PoolInv
<1> SUFFICES ASSUME Init PROVE PoolInv
  OBVIOUS
<1> USE DEF Init
<1>1. Busy = {}
  BY DEF Busy
<1>2. active = Cardinality(Busy)
  BY <1>1, FS_EmptySet
<1>3. TypeOK
  <2>1. active \in 0..MaxThreads
    BY <1>2, ActiveType
  <2>2. waiter \in [pc : {"idle", "waiting", "ok", "timeout"}, seen : SUBSET Tasks]
    BY DEF Idle
  <2>3. /\ tasks \in Seq(Tasks) /\ accepted \in Seq(Tasks) /\ started \in Seq(Tasks)
    BY EmptySeq
  <2>4. QED
    BY <2>1, <2>2, <2>3 DEF TypeOK
<1>4. NoneLostNorOvertaken
  BY DEF NoneLostNorOvertaken
<1>5. SeqSet(accepted) = {} /\ SeqSet(started) = {}
  BY DEF SeqSet
<1>6. ThreadsOnDemand
  BY FS_EmptySet DEF ThreadsOnDemand
<1>7. QED
  BY <1>2, <1>3, <1>4, <1>5, <1>6
  DEF PoolInv, AcceptedOnce, ThreadsSound, RunningSound, QueueServed, DestructorSound,
      WaiterSound, WaitMeansFinished, Idle

\* A closure that enters the queue is accepted and neither taken nor run.
LEMMA EnqueueFacts ==
  ASSUME PoolInv, NEW t \in Tasks, t \notin SeqSet(accepted), Enqueue(t),
         UNCHANGED <<started>>
  PROVE  /\ tasks' \in Seq(Tasks) /\ accepted' \in Seq(Tasks)
         /\ tasks' # <<>> /\ Len(tasks') = Len(tasks) + 1
         /\ NoneLostNorOvertaken' /\ AcceptedOnce'
         /\ SeqSet(accepted) \subseteq SeqSet(accepted')
<1>1. /\ tasks \in Seq(Tasks) /\ accepted \in Seq(Tasks) /\ started \in Seq(Tasks)
      /\ tasks' = Append(tasks, t) /\ accepted' = Append(accepted, t)
  BY DEF PoolInv, TypeOK, Enqueue
<1>2. NoneLostNorOvertaken'
  <2>1. accepted = started \o tasks
    BY DEF PoolInv, NoneLostNorOvertaken
  <2>2. accepted' = accepted \o <<t>> /\ tasks' = tasks \o <<t>>
    BY <1>1, AppendIsConcat
  <2>3. <<t>> \in Seq(Tasks)
    OBVIOUS
  <2>4. started \in Seq(Tasks) /\ tasks \in Seq(Tasks)
    BY <1>1
  <2>5. (started \o tasks) \o <<t>> = started \o (tasks \o <<t>>)
    BY SMTT(30), <2>3, <2>4, ConcatAssociative
  <2>6. QED
    BY <2>1, <2>2, <2>5 DEF NoneLostNorOvertaken
<1>3. AcceptedOnce'
  <2>1. /\ Len(accepted) \in Nat /\ Len(accepted') = Len(accepted) + 1
        /\ \A i \in 1..Len(accepted) : accepted'[i] = accepted[i]
        /\ accepted'[Len(accepted) + 1] = t
    BY <1>1, AppendProperties
  <2>2. \A i \in 1..Len(accepted) : accepted[i] # t
    BY DEF SeqSet
  <2>3. \A i, j \in 1..Len(accepted) : i # j => accepted[i] # accepted[j]
    BY DEF PoolInv, AcceptedOnce
  <2>4. ASSUME NEW i \in 1..Len(accepted'), NEW j \in 1..Len(accepted'), i # j
        PROVE  accepted'[i] # accepted'[j]
    <3>1. i = Len(accepted) + 1 \/ i \in 1..Len(accepted)
      BY <2>1
    <3>2. j = Len(accepted) + 1 \/ j \in 1..Len(accepted)
      BY <2>1
    <3>3. QED
      BY <2>1, <2>2, <2>3, <2>4, <3>1, <3>2
  <2>5. QED
    BY <2>4 DEF AcceptedOnce
<1>4. tasks' # <<>> /\ Len(tasks') = Len(tasks) + 1
  BY <1>1
<1>5. SeqSet(accepted') = SeqSet(accepted) \cup {t}
  BY <1>1, SeqSetAppend
<1>6. QED
  BY <1>1, <1>2, <1>3, <1>4, <1>5

LEMMA ScheduleStep ==
  ASSUME PoolInv, NEW t \in Tasks, Schedule(t)
  PROVE  PoolInv'
<1> USE DEF PoolInv
<1>0. /\ TypeOK /\ ~stopped /\ destructor = "no" /\ t \notin SeqSet(accepted)
      /\ UNCHANGED <<stopped, active, running, destructor, waiter, started, finished>>
  BY DEF Schedule, DestructorSound
<1>1. CASE NeedsThread /\ (\E w \in Workers : CreateThread(w)) /\ Enqueue(t)
           /\ UNCHANGED shortOf
  <2>1. PICK w \in Workers : CreateThread(w)
    BY <1>1
  <2>2. /\ threads' = threads \cup {w} /\ w \notin threads
        /\ pc[w] = "none" /\ pc' = [pc EXCEPT ![w] = "awaiting"]
    BY <2>1, <1>0 DEF CreateThread, ThreadsSound, TypeOK
  <2>3. Busy' = Busy /\ \A v \in Workers : pc'[v] = "running" <=> pc[v] = "running"
    BY <2>2, <1>0 DEF Busy, TypeOK
  <2>4. active' = Cardinality(Busy')
    BY <2>3, <1>0
  <2>5. TypeOK'
    BY <1>0, <1>1, <2>2, EnqueueFacts DEF TypeOK
  <2>6. Cardinality(threads') = Cardinality(threads) + 1
    BY <2>2, <1>0, WorkersFinite, FS_AddElement DEF TypeOK
  <2>7. ThreadsOnDemand'
    <3>1. /\ Cardinality(threads) \in Nat /\ active \in Nat /\ Len(tasks) \in Nat
          /\ Len(tasks') = Len(tasks) + 1
      BY <1>0, <1>1, WorkersFinite, EnqueueFacts DEF TypeOK
    <3>2. threads # Workers
      BY <1>1 DEF NeedsThread
    <3>3. QED
      BY <1>0, <1>1, <2>6, <3>1, <3>2 DEF ThreadsOnDemand
  <2>8. ThreadsSound' /\ QueueServed' /\ DestructorSound'
    BY <1>0, <2>2 DEF ThreadsSound, QueueServed, DestructorSound, TypeOK
  <2>9. RunningSound'
    BY <1>0, <2>3 DEF RunningSound
  <2>10. QED
    BY <1>0, <1>1, <2>4, <2>5, <2>7, <2>8, <2>9, EnqueueFacts
    DEF WaiterSound, WaitMeansFinished
<1>2. CASE NeedsThread /\ shortOf' = TRUE /\ UNCHANGED <<threads, pc>>
           /\ IF threads = {} THEN UNCHANGED <<tasks, accepted>> ELSE Enqueue(t)
  <2>1. Busy' = Busy
    BY <1>2 DEF Busy
  <2>2. CASE threads = {}
    <3>1. UNCHANGED <<tasks, accepted>>
      BY <1>2, <2>2
    <3>2. TypeOK'
      BY <1>0, <1>2, <3>1 DEF TypeOK
    <3>3. ThreadsSound' /\ RunningSound' /\ QueueServed' /\ ThreadsOnDemand' /\ DestructorSound'
      BY <1>0, <1>2, <3>1
      DEF ThreadsSound, RunningSound, QueueServed, ThreadsOnDemand, DestructorSound
    <3>4. NoneLostNorOvertaken' /\ AcceptedOnce' /\ WaiterSound' /\ WaitMeansFinished'
      BY <1>0, <3>1
      DEF NoneLostNorOvertaken, AcceptedOnce, WaiterSound, WaitMeansFinished
    <3>5. active' = Cardinality(Busy')
      BY <1>0, <2>1
    <3>6. QED
      BY <3>2, <3>3, <3>4, <3>5
  <2>3. CASE threads # {}
    <3>1. Enqueue(t)
      BY <1>2, <2>3
    <3>2. TypeOK'
      BY <1>0, <1>2, <3>1, EnqueueFacts DEF TypeOK
    <3>3. ThreadsSound' /\ RunningSound' /\ QueueServed' /\ ThreadsOnDemand' /\ DestructorSound'
      BY <1>0, <1>2, <2>3
      DEF ThreadsSound, RunningSound, QueueServed, ThreadsOnDemand, DestructorSound
    <3>4. QED
      BY <1>0, <1>2, <2>1, <3>1, <3>2, <3>3, EnqueueFacts DEF WaiterSound, WaitMeansFinished
  <2>4. QED
    BY <2>2, <2>3
<1>3. CASE ~NeedsThread /\ Enqueue(t) /\ UNCHANGED <<threads, pc, shortOf>>
  <2>1. Busy' = Busy
    BY <1>3 DEF Busy
  <2>2. TypeOK'
    BY <1>0, <1>3, EnqueueFacts DEF TypeOK
  <2>3. /\ Cardinality(threads) \in Nat /\ active \in Nat /\ Len(tasks) \in Nat
        /\ Len(tasks') = Len(tasks) + 1
    BY <1>0, <1>3, WorkersFinite, EnqueueFacts DEF TypeOK
  <2>4. /\ threads' = Workers \/ Cardinality(threads') >= active' + Len(tasks')
        /\ threads' = Workers \/ Cardinality(threads') # 0
    BY <1>0, <1>3, <2>3 DEF NeedsThread
  <2>5. threads' # {}
    BY <2>4, FS_EmptySet, PoolAssumption
  <2>6. ThreadsSound' /\ RunningSound' /\ QueueServed' /\ ThreadsOnDemand' /\ DestructorSound'
    BY <1>0, <1>3, <2>4, <2>5
    DEF ThreadsSound, RunningSound, QueueServed, ThreadsOnDemand, DestructorSound
  <2>7. QED
    BY <1>0, <1>3, <2>1, <2>2, <2>6, EnqueueFacts DEF WaiterSound, WaitMeansFinished
<1>4. QED
  BY <1>1, <1>2, <1>3 DEF Schedule

\* The closure at the head of the queue has been accepted and not taken yet.
LEMMA HeadIsNew ==
  ASSUME PoolInv, tasks # <<>>
  PROVE  /\ Head(tasks) \in Tasks \ SeqSet(started)
         /\ Len(tasks) \in Nat \ {0} /\ Tail(tasks) \in Seq(Tasks)
         /\ Len(Tail(tasks)) = Len(tasks) - 1
<1>1. /\ tasks \in Seq(Tasks) /\ started \in Seq(Tasks)
      /\ Len(tasks) \in Nat \ {0} /\ Len(started) \in Nat
  BY DEF PoolInv, TypeOK
<1>2. /\ accepted = started \o tasks
      /\ \A i \in 1..Len(started) : accepted[i] = started[i]
      /\ accepted[Len(started) + 1] = Head(tasks)
      /\ Len(started) + 1 \in 1..Len(accepted)
      /\ Len(accepted) >= Len(started)
  BY <1>1 DEF PoolInv, NoneLostNorOvertaken
<1>3. \A i \in 1..Len(started) : started[i] # Head(tasks)
  BY <1>1, <1>2 DEF PoolInv, AcceptedOnce
<1>4. QED
  BY <1>1, <1>3 DEF SeqSet

LEMMA TakeStep ==
  ASSUME PoolInv, NEW w \in Workers, TakeTask(w)
  PROVE  PoolInv'
<1> USE DEF PoolInv
<1>0. /\ TypeOK /\ tasks # <<>> /\ pc[w] = "awaiting"
      /\ running' = [running EXCEPT ![w] = Head(tasks)]
      /\ tasks' = Tail(tasks) /\ started' = Append(started, Head(tasks))
      /\ active' = active + 1
      /\ pc' = [pc EXCEPT ![w] = "running"]
      /\ UNCHANGED <<threads, stopped, destructor, waiter, accepted, finished, shortOf>>
  BY DEF TakeTask
<1>1. Busy' = Busy \cup {w} /\ w \notin Busy
  BY <1>0 DEF Busy, TypeOK
<1>2. active' = Cardinality(Busy')
  BY <1>0, <1>1, BusyJoins
<1>3. active' \in 0..MaxThreads
  BY <1>2, WorkersFinite DEF Busy
<1>4. TypeOK'
  BY <1>0, <1>3, HeadIsNew DEF TypeOK
<1>5. NoneLostNorOvertaken'
  <2>1. started \in Seq(Tasks) /\ tasks \in Seq(Tasks) /\ tasks # <<>>
    BY <1>0 DEF TypeOK
  <2>2. Append(started, Head(tasks)) \o Tail(tasks) = started \o tasks
    BY <2>1, MoveHead, Zenon
  <2>3. QED
    BY <1>0, <2>2 DEF NoneLostNorOvertaken
<1>6. SeqSet(started') = SeqSet(started) \cup {Head(tasks)}
  BY <1>0, HeadIsNew, SeqSetAppend DEF TypeOK
<1>7. RunningSound'
  <2>1. {running'[v] : v \in {x \in Workers : pc'[x] = "running"}} =
          {running[v] : v \in {x \in Workers : pc[x] = "running"}} \cup {Head(tasks)}
    <3>1. \A v \in Workers : v # w => pc'[v] = pc[v] /\ running'[v] = running[v]
      BY <1>0 DEF TypeOK
    <3>2. pc'[w] = "running" /\ running'[w] = Head(tasks) /\ pc[w] # "running"
      BY <1>0 DEF TypeOK
    <3>3. QED
      BY <3>1, <3>2
  <2>2. SeqSet(started') = finished' \cup
          {running'[v] : v \in {x \in Workers : pc'[x] = "running"}}
    BY <1>0, <1>6, <2>1 DEF RunningSound
  <2>3. \A v \in Workers : pc[v] = "running" => running[v] # Head(tasks)
    BY <1>0, HeadIsNew DEF RunningSound
  <2>4. Head(tasks) \in Tasks \ finished
    BY <1>0, HeadIsNew DEF RunningSound
  <2>5. \A v \in Workers : pc'[v] = "running" => running'[v] \in Tasks \ finished'
    BY <1>0, <2>4 DEF TypeOK, RunningSound
  <2>6. \A u, v \in Workers :
           pc'[u] = "running" /\ pc'[v] = "running" /\ u # v => running'[u] # running'[v]
    BY <1>0, <2>3 DEF TypeOK, RunningSound
  <2>7. QED
    BY <2>2, <2>5, <2>6 DEF RunningSound
<1>8. ThreadsSound'
  BY <1>0 DEF ThreadsSound, TypeOK
<1>9. ThreadsOnDemand'
  BY <1>0, HeadIsNew DEF ThreadsOnDemand, TypeOK
<1>10. QueueServed'
  BY <1>0 DEF QueueServed
<1>11. DestructorSound'
  BY <1>0 DEF DestructorSound, ThreadsSound, TypeOK
<1>12. QED
  BY <1>0, <1>2, <1>4, <1>5, <1>7, <1>8, <1>9, <1>10, <1>11
  DEF AcceptedOnce, WaiterSound, WaitMeansFinished

LEMMA ReturnStep ==
  ASSUME PoolInv, NEW w \in Workers, TaskReturns(w)
  PROVE  PoolInv'
<1> USE DEF PoolInv
<1>0. /\ TypeOK /\ pc[w] = "running"
      /\ finished' = finished \cup {running[w]}
      /\ running' = [running EXCEPT ![w] = NoTask]
      /\ pc' = [pc EXCEPT ![w] = "returned"]
      /\ UNCHANGED <<threads, stopped, tasks, active, destructor, waiter, accepted,
                     started, shortOf>>
  BY DEF TaskReturns
<1>1. Busy' = Busy
  BY <1>0 DEF Busy, TypeOK
<1>2. running[w] \in Tasks
  BY <1>0 DEF RunningSound
<1>3. TypeOK'
  BY <1>0, <1>2 DEF TypeOK
<1>4. \A v \in Workers : v # w => pc'[v] = pc[v] /\ running'[v] = running[v]
  BY <1>0 DEF TypeOK
<1>5. pc'[w] # "running"
  BY <1>0 DEF TypeOK
<1>6. RunningSound'
  <2>1. SeqSet(started') = finished' \cup
          {running'[v] : v \in {x \in Workers : pc'[x] = "running"}}
    BY <1>0, <1>4, <1>5 DEF RunningSound
  <2>2. QED
    BY <1>0, <1>4, <1>5, <2>1 DEF RunningSound
<1>7. ThreadsSound' /\ DestructorSound'
  BY <1>0 DEF ThreadsSound, DestructorSound, TypeOK
<1>8. QED
  BY <1>0, <1>1, <1>3, <1>6, <1>7
  DEF NoneLostNorOvertaken, AcceptedOnce, QueueServed, ThreadsOnDemand, WaiterSound,
      WaitMeansFinished

LEMMA ResumeStep ==
  ASSUME PoolInv, NEW w \in Workers, Resume(w)
  PROVE  PoolInv'
<1> USE DEF PoolInv
<1>0. /\ TypeOK /\ pc[w] = "returned" /\ active' = active - 1
      /\ pc' = [pc EXCEPT ![w] = "awaiting"]
      /\ UNCHANGED <<threads, stopped, tasks, running, destructor, waiter, accepted,
                     started, finished, shortOf>>
  BY DEF Resume
<1>1. Busy' = Busy \ {w} /\ w \in Busy
  BY <1>0 DEF Busy, TypeOK
<1>2. active' = Cardinality(Busy')
  BY <1>0, <1>1, BusyLeaves
<1>3. active' \in 0..MaxThreads
  BY <1>2, WorkersFinite DEF Busy
<1>4. TypeOK'
  BY <1>0, <1>3 DEF TypeOK
<1>5. \A v \in Workers : pc'[v] = "running" <=> pc[v] = "running"
  BY <1>0 DEF TypeOK
<1>6. RunningSound'
  BY <1>0, <1>5 DEF RunningSound
<1>7. ThreadsSound' /\ DestructorSound'
  BY <1>0 DEF ThreadsSound, DestructorSound, TypeOK
<1>8. ThreadsOnDemand'
  BY SMTT(30), <1>0, WorkersFinite DEF ThreadsOnDemand, TypeOK
<1>9. QED
  BY <1>0, <1>2, <1>4, <1>6, <1>7, <1>8
  DEF NoneLostNorOvertaken, AcceptedOnce, QueueServed, WaiterSound, WaitMeansFinished

LEMMA ExitStep ==
  ASSUME PoolInv, NEW w \in Workers, Exit(w)
  PROVE  PoolInv'
<1> USE DEF PoolInv
<1>0. /\ TypeOK /\ pc[w] = "awaiting" /\ stopped /\ tasks = <<>>
      /\ pc' = [pc EXCEPT ![w] = "exited"]
      /\ UNCHANGED <<threads, stopped, tasks, active, running, destructor, waiter,
                     accepted, started, finished, shortOf>>
  BY DEF Exit, MayExit
<1>1. Busy' = Busy
  BY <1>0 DEF Busy, TypeOK
<1>2. \A v \in Workers : pc'[v] = "running" <=> pc[v] = "running"
  BY <1>0 DEF TypeOK
<1>3. RunningSound'
  BY <1>0, <1>2 DEF RunningSound
<1>4. TypeOK' /\ ThreadsSound' /\ DestructorSound'
  BY <1>0 DEF ThreadsSound, DestructorSound, TypeOK
<1>5. /\ NoneLostNorOvertaken' /\ AcceptedOnce' /\ QueueServed' /\ ThreadsOnDemand'
      /\ WaiterSound' /\ WaitMeansFinished'
  <2>1. UNCHANGED <<threads, tasks, active, waiter, accepted, started, finished, shortOf>>
    BY <1>0
  <2>2. QED
    BY <2>1
    DEF NoneLostNorOvertaken, AcceptedOnce, QueueServed, ThreadsOnDemand, WaiterSound,
        WaitMeansFinished
<1>6. QED
  BY <1>0, <1>1, <1>3, <1>4, <1>5

\* The destructor moves; the workers and the queue do not.
LEMMA DestructorStep ==
  ASSUME PoolInv, Stop \/ Joined
  PROVE  PoolInv'
<1> USE DEF PoolInv
<1>1. UNCHANGED <<threads, tasks, active, pc, running, waiter, accepted, started,
                  finished, shortOf>>
  BY DEF Stop, Joined
<1>2. Busy' = Busy
  BY <1>1 DEF Busy
<1>3. TypeOK' /\ ThreadsSound' /\ DestructorSound'
  BY DEF Stop, Joined, TypeOK, ThreadsSound, DestructorSound
<1>4. QED
  BY <1>1, <1>2, <1>3
  DEF NoneLostNorOvertaken, AcceptedOnce, RunningSound, QueueServed, ThreadsOnDemand,
      WaiterSound, WaitMeansFinished

\* When no worker is busy and nothing is queued, all that was accepted has
\* returned.
LEMMA NothingLeft ==
  ASSUME PoolInv, tasks = <<>>, active = 0
  PROVE  SeqSet(accepted) \subseteq finished
<1>1. Busy = {}
  BY WorkersFinite, FS_EmptySet DEF PoolInv, Busy
<1>2. \A w \in Workers : pc[w] # "running"
  BY <1>1 DEF Busy
<1>3. started \in Seq(Tasks) /\ accepted = started \o <<>>
  BY DEF PoolInv, TypeOK, NoneLostNorOvertaken
<1>4. accepted = started
  BY <1>3, ConcatEmptySeq
<1>5. QED
  BY <1>2, <1>4 DEF PoolInv, RunningSound

LEMMA WaitStep ==
  ASSUME PoolInv, WaitBegins \/ WaitEnds
  PROVE  PoolInv'
<1> USE DEF PoolInv
<1>1. UNCHANGED <<threads, stopped, tasks, active, pc, running, destructor, accepted,
                  started, finished, shortOf>>
  BY DEF WaitBegins, WaitEnds
<1>2. Busy' = Busy
  BY <1>1 DEF Busy
<1>3. TypeOK' /\ WaiterSound' /\ WaitMeansFinished'
  <2>0. SeqSet(accepted) \subseteq Tasks
    BY DEF TypeOK, SeqSet
  <2>1. CASE WaitBegins
    BY <2>0, <2>1, <1>1 DEF WaitBegins, TypeOK, WaiterSound, WaitMeansFinished
  <2>2. CASE WaitEnds
    <3>1. PICK r \in {"timeout"} \cup (IF IsDone THEN {"ok"} ELSE {}) :
             waiter' = [waiter EXCEPT !.pc = r]
      BY <2>2 DEF WaitEnds
    <3>2. waiter'.seen = waiter.seen /\ waiter'.pc = r
      BY <3>1 DEF TypeOK
    <3>3. TypeOK' /\ WaiterSound'
      BY <1>1, <3>1, <3>2 DEF TypeOK, WaiterSound
    <3>4. WaitMeansFinished'
      BY <1>1, <3>2, NothingLeft DEF WaitMeansFinished, WaiterSound, IsDone
    <3>5. QED
      BY <3>3, <3>4
  <2>3. QED
    BY <2>1, <2>2
<1>4. QED
  BY <1>1, <1>2, <1>3
  DEF NoneLostNorOvertaken, AcceptedOnce, ThreadsSound, RunningSound, QueueServed,
      ThreadsOnDemand, DestructorSound

LEMMA StutterStep ==
  ASSUME PoolInv, UNCHANGED vars
  PROVE  PoolInv'
<1>1. Busy' = Busy
  BY DEF vars, Busy
<1>2. QED
  BY <1>1
  DEF vars, PoolInv, TypeOK, NoneLostNorOvertaken, AcceptedOnce, ThreadsSound,
      RunningSound, QueueServed, ThreadsOnDemand, DestructorSound, WaiterSound,
      WaitMeansFinished

LEMMA NextInv == PoolInv /\ [Next]_vars => PoolInv'
<1> SUFFICES ASSUME PoolInv, [Next]_vars PROVE PoolInv'
  OBVIOUS
<1>1. CASE \E t \in Tasks : Schedule(t)
  BY <1>1, ScheduleStep
<1>2. CASE Stop \/ Joined
  BY <1>2, DestructorStep
<1>3. CASE WaitBegins \/ WaitEnds
  BY <1>3, WaitStep
<1>4. CASE \E w \in Workers : Worker(w)
  BY <1>4, TakeStep, ReturnStep, ResumeStep, ExitStep DEF Worker
<1>5. CASE UNCHANGED vars
  BY <1>5, StutterStep
<1>6. QED
  BY <1>1, <1>2, <1>3, <1>4, <1>5 DEF Next, Client

-----------------------------------------------------------------------------
(* The theorems.                                                           *)

\* The queue, the counters and the threads of the pool agree in every state.
THEOREM PoolInvariant == Spec => []PoolInv
<1>1. Init => PoolInv
  BY InitInv
<1>2. PoolInv /\ [Next]_vars => PoolInv'
  BY NextInv
<1>3. QED
  BY <1>1, <1>2, PTL DEF Spec

\* No closure that Schedule accepted is lost, duplicated or overtaken.
THEOREM ClosuresInOrder == Spec => []NoneLostNorOvertaken
<1>1. PoolInv => NoneLostNorOvertaken
  BY DEF PoolInv
<1>2. QED
  BY <1>1, PoolInvariant, PTL

\* Schedule creates a thread whenever one is needed and may be created.
THEOREM ThreadsWhenNeeded == Spec => []ThreadsOnDemand
<1>1. PoolInv => ThreadsOnDemand
  BY DEF PoolInv
<1>2. QED
  BY <1>1, PoolInvariant, PTL

\* An OK from WaitUntilDone means what its callers take it for.
THEOREM WaitIsSound == Spec => []WaitMeansFinished
<1>1. PoolInv => WaitMeansFinished
  BY DEF PoolInv
<1>2. QED
  BY <1>1, PoolInvariant, PTL

\* When the destructor has joined the threads, every accepted closure has returned
\* and its CHECK of num_active_tasks_ holds.
THEOREM DestructorDrains == Spec => []ShutdownDrains
<1>1. PoolInv => ShutdownDrains
  <2> SUFFICES ASSUME PoolInv, destructor = "done"
               PROVE  active = 0 /\ SeqSet(accepted) \subseteq finished
    BY DEF ShutdownDrains
  <2> USE DEF PoolInv
  <2>1. \A w \in Workers : pc[w] \in {"none", "exited"}
    BY DEF DestructorSound, ThreadsSound, TypeOK
  <2>2. Busy = {}
    BY <2>1 DEF Busy
  <2>3. active = 0
    BY <2>2, FS_EmptySet
  <2>4. tasks = <<>>
    BY DEF DestructorSound, ThreadsSound, QueueServed, TypeOK
  <2>5. QED
    BY <2>3, <2>4, NothingLeft
<1>2. QED
  BY <1>1, PoolInvariant, PTL

-----------------------------------------------------------------------------
(* The pool implements the abstract pool.                                  *)

RunningNow == {running[w] : w \in {x \in Workers : pc[x] = "running"}}

LEMMA PoolVarsUnchanged ==
  ASSUME UNCHANGED <<tasks, finished>>, RunningNow' = RunningNow
  PROVE  UNCHANGED Pool!poolVars
  BY DEF Pool!poolVars, RunningNow

\* While a worker awaits, fewer closures run than there are workers.
LEMMA RoomForOne ==
  ASSUME PoolInv, NEW w \in Workers, pc[w] # "running"
  PROVE  Cardinality(RunningNow) < MaxThreads
<1> DEFINE R == {x \in Workers : pc[x] = "running"}
           f == [x \in R |-> running[x]]
<1>1. IsFiniteSet(R) /\ Cardinality(R) \in 0..MaxThreads /\ R # Workers
  BY WorkersFinite
<1>2. Cardinality(R) < MaxThreads
  BY <1>1, WorkersFinite
<1>3. f \in Surjection(R, RunningNow)
  BY DEF Surjection, RunningNow
<1>4. Cardinality(RunningNow) <= Cardinality(R) /\ IsFiniteSet(RunningNow)
  BY <1>1, <1>3, FS_Surjection
<1>5. Cardinality(RunningNow) \in Nat
  BY <1>4, FS_CardinalityType
<1>6. QED
  BY <1>1, <1>2, <1>4, <1>5, WorkersFinite

LEMMA ScheduleRefines ==
  ASSUME PoolInv, NEW t \in Tasks, Schedule(t)
  PROVE  Pool!Submit(t) \/ UNCHANGED Pool!poolVars
<1>0. /\ TypeOK /\ t \notin SeqSet(accepted) /\ UNCHANGED <<running, finished>>
  BY DEF Schedule, PoolInv
<1>1. RunningNow' = RunningNow
  <2>1. CASE UNCHANGED pc
    BY <2>1, <1>0 DEF RunningNow
  <2>2. CASE \E w \in Workers : CreateThread(w)
    <3>1. \A v \in Workers : pc'[v] = "running" <=> pc[v] = "running"
      BY <2>2, <1>0 DEF CreateThread, PoolInv, ThreadsSound, TypeOK
    <3>2. QED
      BY <3>1, <1>0 DEF RunningNow
  <2>3. QED
    BY <2>1, <2>2 DEF Schedule
<1>2. CASE Enqueue(t)
  <2>1. /\ tasks \in Seq(Tasks) /\ started \in Seq(Tasks)
        /\ accepted = started \o tasks
    BY DEF PoolInv, TypeOK, NoneLostNorOvertaken
  <2>2. \A i \in 1..Len(tasks) : tasks[i] \in SeqSet(accepted)
    <3>1. \A i \in 1..Len(tasks) :
             /\ accepted[Len(started) + i] = tasks[i]
             /\ Len(started) + i \in 1..Len(accepted)
      BY <2>1
    <3>2. QED
      BY <3>1 DEF SeqSet
  <2>3. \A i \in 1..Len(started) : started[i] \in SeqSet(accepted)
    <3>1. \A i \in 1..Len(started) :
             accepted[i] = started[i] /\ i \in 1..Len(accepted)
      BY <2>1
    <3>2. QED
      BY <3>1 DEF SeqSet
  <2>4. SeqSet(started) \subseteq SeqSet(accepted)
    BY <2>3 DEF SeqSet
  <2>5. t \notin RunningNow \cup finished
    BY <1>0, <2>4 DEF PoolInv, RunningSound, RunningNow
  <2>6. \A i \in 1..Len(tasks) : tasks[i] # t
    BY <1>0, <2>2
  <2>7. QED
    BY <1>0, <1>1, <1>2, <2>5, <2>6
    DEF Pool!Submit, Pool!Started, Enqueue, RunningNow
<1>3. CASE UNCHANGED <<tasks, accepted>>
  BY <1>0, <1>1, <1>3, PoolVarsUnchanged
<1>4. QED
  BY <1>2, <1>3 DEF Schedule

LEMMA TakeRefines ==
  ASSUME PoolInv, NEW w \in Workers, TakeTask(w)
  PROVE  Pool!Start
<1>0. /\ TypeOK /\ tasks # <<>> /\ pc[w] = "awaiting"
      /\ running' = [running EXCEPT ![w] = Head(tasks)]
      /\ tasks' = Tail(tasks) /\ finished' = finished
      /\ pc' = [pc EXCEPT ![w] = "running"]
  BY DEF TakeTask, PoolInv
<1>1. \A v \in Workers : v # w => pc'[v] = pc[v] /\ running'[v] = running[v]
  BY <1>0 DEF TypeOK
<1>2. pc'[w] = "running" /\ running'[w] = Head(tasks) /\ pc[w] # "running"
  BY <1>0 DEF TypeOK
<1>3. RunningNow' = RunningNow \cup {Head(tasks)}
  BY <1>1, <1>2 DEF RunningNow
<1>4. Cardinality(RunningNow) < MaxThreads
  BY <1>2, RoomForOne
<1>5. Pool!Cardinality(RunningNow) = Cardinality(RunningNow)
  BY Zenon DEF Pool!Cardinality, Cardinality
<1>6. QED
  BY <1>0, <1>3, <1>4, <1>5 DEF Pool!Start, RunningNow

LEMMA ReturnRefines ==
  ASSUME PoolInv, NEW w \in Workers, TaskReturns(w)
  PROVE  running[w] \in Tasks /\ Pool!Finish(running[w])
<1>0. /\ TypeOK /\ pc[w] = "running"
      /\ finished' = finished \cup {running[w]}
      /\ running' = [running EXCEPT ![w] = NoTask]
      /\ pc' = [pc EXCEPT ![w] = "returned"]
      /\ UNCHANGED tasks
  BY DEF TaskReturns, PoolInv
<1>1. \A v \in Workers : v # w => pc'[v] = pc[v] /\ running'[v] = running[v]
  BY <1>0 DEF TypeOK
<1>2. pc'[w] # "running"
  BY <1>0 DEF TypeOK
<1>3. \A v \in Workers : pc[v] = "running" /\ v # w => running[v] # running[w]
  BY <1>0 DEF PoolInv, RunningSound
<1>4. RunningNow' = RunningNow \ {running[w]}
  BY <1>0, <1>1, <1>2, <1>3 DEF RunningNow
<1>5. running[w] \in Tasks /\ running[w] \in RunningNow
  BY <1>0 DEF PoolInv, RunningSound, RunningNow
<1>6. QED
  BY <1>0, <1>4, <1>5 DEF Pool!Finish, RunningNow

\* A worker that resumes or exits, the destructor and the wait are invisible.
LEMMA OthersRefine ==
  ASSUME PoolInv,
         \/ \E w \in Workers : Resume(w) \/ Exit(w)
         \/ Stop \/ Joined \/ WaitBegins \/ WaitEnds
         \/ UNCHANGED vars
  PROVE  UNCHANGED Pool!poolVars
<1>1. UNCHANGED <<tasks, finished, running>>
  BY DEF Resume, Exit, Stop, Joined, WaitBegins, WaitEnds, vars
<1>2. \A v \in Workers : pc'[v] = "running" <=> pc[v] = "running"
  BY DEF Resume, Exit, Stop, Joined, WaitBegins, WaitEnds, vars, PoolInv, TypeOK
<1>3. RunningNow' = RunningNow
  BY <1>1, <1>2 DEF RunningNow
<1>4. QED
  BY <1>1, <1>3, PoolVarsUnchanged

LEMMA NextRefines ==
  PoolInv /\ [Next]_vars => [Pool!Next]_(Pool!poolVars)
<1> SUFFICES ASSUME PoolInv, [Next]_vars
             PROVE  Pool!Next \/ UNCHANGED Pool!poolVars
  OBVIOUS
<1>1. CASE \E t \in Tasks : Schedule(t)
  BY <1>1, ScheduleRefines DEF Pool!Next
<1>2. CASE \E w \in Workers : TakeTask(w)
  BY <1>2, TakeRefines DEF Pool!Next
<1>3. CASE \E w \in Workers : TaskReturns(w)
  <2>1. PICK w \in Workers : TaskReturns(w)
    BY <1>3
  <2>2. running[w] \in Tasks /\ Pool!Finish(running[w])
    BY <2>1, ReturnRefines
  <2>3. QED
    BY <2>2 DEF Pool!Next, Pool!Finish
<1>4. CASE \/ \E w \in Workers : Resume(w) \/ Exit(w)
           \/ Stop \/ Joined \/ WaitBegins \/ WaitEnds
           \/ UNCHANGED vars
  BY <1>4, OthersRefine
<1>5. QED
  BY <1>1, <1>2, <1>3, <1>4 DEF Next, Client, Worker

LEMMA InitRefines == Init => Pool!Init
  BY DEF Init, Pool!Init

\* Every behaviour of the pool is one of the abstract pool: closures are started in
\* the order in which they were accepted, each once, at most MaxThreads at a time.
THEOREM PoolRefinement == Spec => StepsOfPool
<1>1. Init => Pool!Init
  BY InitRefines
<1>2. PoolInv /\ [Next]_vars => [Pool!Next]_(Pool!poolVars)
  BY NextRefines
<1>3. QED
  BY <1>1, <1>2, PoolInvariant, PTL DEF Spec, StepsOfPool
=============================================================================
