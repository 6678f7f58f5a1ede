----------------------- MODULE ExecutionManagerProofs -----------------------
(***************************************************************************)
(* Proofs about ExecutionManager, for all sessions, tasks and bounds, for  *)
(* any dependencies the clients name, and with every fault of the model    *)
(* allowed: sessions released while busy, slow callbacks, a decode that    *)
(* gives up without finishing.                                             *)
(***************************************************************************)
EXTENDS ExecutionManager, FiniteSetTheorems, TLAPS

USE DEF Known, Ended, IsTaskEndState, EndStates

-----------------------------------------------------------------------------
(* Facts about the data.                                                   *)

\* Short sequences of task states are sequences of task states.
LEMMA ShortSeqs ==
  ASSUME NEW a \in TaskState, NEW b \in TaskState
  PROVE  <<a>> \in Seq(TaskState) /\ <<a, b>> \in Seq(TaskState)
OBVIOUS

\* The entries of the callback queue carry tasks.
LEMMA EntryTasks ==
  ASSUME TypeOK, NEW i \in 1..Len(cbQueue)
  PROVE  /\ cbQueue[i] \in EntrySet
         /\ cbQueue[i].task \in Tasks
         /\ cbQueue[i].result \in Results
         /\ cbQueue[i].mute \in BOOLEAN
<1>1. cbQueue[i] \in EntrySet
  BY DEF TypeOK
<1>2. QED
  BY <1>1 DEF EntrySet

-----------------------------------------------------------------------------
(* The invariant holds initially and is kept by the client's operations.   *)

\* No task is known, queued or running at the start.
LEMMA InitInv == Init => SchedulerInv
  BY ConstantsAssumption
  DEF Init, SchedulerInv, TypeOK, KnownIsIssued, QueueSound, QueueComplete,
      CallbackHeld, RunnerSound, CallbacksSound, WaitersSound, DependenciesSound, TaskState,
      AllKinds, ThreadSet, EntrySet, IdleThread, Thread, Results, Launched

\* A step that leaves the tasks, the queues and the threads alone keeps the
\* invariant if it keeps the types.
LEMMA FrameInv ==
  ASSUME SchedulerInv, TypeOK',
         UNCHANGED <<issued, state, deps, requested, callback, execQueue, exec,
                     cbQueue, cb>>
  PROVE  SchedulerInv'
  BY DEF SchedulerInv, KnownIsIssued, QueueSound, QueueComplete, CallbackHeld,
         RunnerSound, CallbacksSound, WaitersSound, DependenciesSound, PastRun,
         Running

LEMMA SessionStep ==
  ASSUME SchedulerInv, NEW s \in Sessions,
         RegisterNewSession(s) \/ ReleaseSession(s)
  PROVE  SchedulerInv'
<1>1. TypeOK'
  BY DEF SchedulerInv, TypeOK, RegisterNewSession, ReleaseSession, taskAttrs
<1>2. QED
  BY <1>1, FrameInv DEF RegisterNewSession, ReleaseSession, taskAttrs

LEMMA CancelStep ==
  ASSUME SchedulerInv, NEW S, SetCancelled(S)
  PROVE  SchedulerInv'
<1>1. TypeOK'
  BY DEF SchedulerInv, TypeOK, SetCancelled, ReadsFlag, taskAttrs, sessionVars
<1>2. QED
  BY <1>1, FrameInv DEF SetCancelled, taskAttrs

LEMMA CreateFailsStep ==
  ASSUME SchedulerInv, NEW s, NEW t \in Tasks, NEW D \in SUBSET issued,
         t \notin issued, issued' = issued \cup {t},
         CreateTaskFails(s, t, D),
         UNCHANGED <<sessionVars, exec, cbQueue, cb>>
  PROVE  SchedulerInv'
<1>1. TypeOK'
  <2>1. following' \in [Tasks -> SUBSET Tasks]
    <3>1. CASE UNCHANGED following
      BY <3>1 DEF SchedulerInv, TypeOK
    <3>2. CASE \E S \in SUBSET Unfinished(D) :
                 following' = [d \in Tasks |-> IF d \in S
                                               THEN following[d] \cup {t}
                                               ELSE following[d]]
      BY <3>2 DEF SchedulerInv, TypeOK
    <3>3. QED
      BY <3>1, <3>2 DEF CreateTaskFails
  <2>2. QED
    BY <2>1 DEF SchedulerInv, TypeOK, CreateTaskFails, sessionVars
<1>2. UNCHANGED <<state, deps, requested, callback, execQueue, exec, cbQueue, cb>>
  BY DEF CreateTaskFails
<1>3. QED
  BY <1>1, <1>2
  DEF SchedulerInv, KnownIsIssued, QueueSound, QueueComplete, CallbackHeld,
      RunnerSound, CallbacksSound, WaitersSound, DependenciesSound, PastRun,
      Running

\* The initial state is the one of a task that waits, or an end state.
LEMMA InitialStateType ==
  ASSUME NEW D
  PROVE  /\ InitialState(D) \in EndStates \cup {"kCreated"}
         /\ InitialState(D) \notin {"kDone", "kUnknown"}
         /\ InitialState(D) = "kCreated" =>
              \A d \in D : state[d] \notin FailedStates \cup CancelledStates
  BY DEF InitialState

LEMMA CreateSucceedsStep ==
  ASSUME SchedulerInv, NEW s \in Sessions, NEW t \in Tasks, NEW k \in Kinds,
         NEW c \in Sessions \cup {NoSession}, NEW D \in SUBSET issued,
         NEW flag \in BOOLEAN,
         t \notin issued, issued' = issued \cup {t},
         CreateTaskSucceeds(s, t, k, c, D, flag),
         UNCHANGED <<sessionVars, exec, cbQueue, cb>>
  PROVE  SchedulerInv'
<1> DEFINE initial == InitialState(D)
           waits   == Unfinished(D)
           queued  == initial = "kCreated" /\ waits = {}
<1>a. TypeOK /\ state[t] = "kUnknown" /\ D \subseteq Tasks /\ t \notin D
  BY DEF SchedulerInv, TypeOK, KnownIsIssued
<1>b. /\ initial \in EndStates \cup {"kCreated"}
      /\ initial \notin {"kDone", "kUnknown"}
  BY InitialStateType
<1>c. waits \subseteq Tasks /\ t \notin waits
  BY <1>a DEF Unfinished
<1>d. /\ state' = [state EXCEPT ![t] = IF queued THEN "kQueued" ELSE initial]
      /\ execQueue' = IF queued THEN Append(execQueue, t) ELSE execQueue
      /\ deps' = [deps EXCEPT ![t] = waits]
      /\ requested' = [requested EXCEPT ![t] = D]
      /\ callback' = callback \cup {t}
      /\ \A d \in D : Known(d)
  BY DEF CreateTaskSucceeds
<1>e. state'[t] = IF queued THEN "kQueued" ELSE initial
  BY <1>a, <1>d DEF TypeOK
<1>f. \A x \in Tasks \ {t} : /\ state'[x] = state[x] /\ deps'[x] = deps[x]
                             /\ requested'[x] = requested[x]
  BY <1>a, <1>d DEF TypeOK
<1>1. TypeOK'
  <2>1. state' \in [Tasks -> TaskState]
    BY <1>a, <1>b, <1>d DEF TypeOK, TaskState
  <2>2. execQueue' \in Seq(Tasks)
    BY <1>a, <1>d DEF TypeOK
  <2>3. reports' \in [Tasks -> Seq(TaskState)]
    <3>1. /\ <<"kCreated", "kQueued">> \in Seq(TaskState)
          /\ <<initial>> \in Seq(TaskState)
      <4>1. {"kCreated", "kQueued", initial} \subseteq TaskState
        BY <1>b DEF TaskState
      <4>2. QED
        BY <4>1, ShortSeqs
    <3>2. QED
      BY <1>a, <3>1 DEF TypeOK, CreateTaskSucceeds
  <2>4. following' \in [Tasks -> SUBSET Tasks]
    BY <1>a DEF TypeOK, CreateTaskSucceeds
  <2>5. active' \in [Sessions -> SUBSET Tasks]
    BY <1>a DEF TypeOK, CreateTaskSucceeds
  <2>6. /\ owner' \in [Tasks -> Sessions \cup {NoSession}]
        /\ kind' \in [Tasks -> AllKinds]
        /\ target' \in [Tasks -> Sessions \cup {NoSession}]
        /\ requested' \in [Tasks -> SUBSET Tasks]
        /\ deps' \in [Tasks -> SUBSET Tasks]
    BY <1>a, <1>c, ConstantsAssumption DEF TypeOK, CreateTaskSucceeds
  <2>7. cancelled' \subseteq Tasks /\ callback' \subseteq Tasks
    BY <1>a DEF TypeOK, CreateTaskSucceeds
  <2>8. QED
    BY <1>a, <2>1, <2>2, <2>3, <2>4, <2>5, <2>6, <2>7 DEF TypeOK, sessionVars
<1>2. KnownIsIssued'
  BY <1>f DEF SchedulerInv, KnownIsIssued
<1>3. QueueSound' /\ QueueComplete'
  <2>0. \A i \in 1..Len(execQueue) : execQueue[i] \in Tasks /\ execQueue[i] # t
    BY <1>a DEF SchedulerInv, QueueSound, TypeOK
  <2>1. CASE queued
    <3>1. /\ Len(execQueue') = Len(execQueue) + 1
          /\ \A i \in 1..Len(execQueue) : execQueue'[i] = execQueue[i]
          /\ execQueue'[Len(execQueue) + 1] = t
          /\ Len(execQueue) \in Nat
      BY <1>a, <1>d, <2>1 DEF TypeOK
    <3>2. QueueSound'
      BY <1>e, <1>f, <2>0, <2>1, <3>1 DEF SchedulerInv, QueueSound
    <3>3. QueueComplete'
      BY <1>d, <1>e, <1>f, <2>1, <3>1 DEF SchedulerInv, QueueComplete
    <3>4. QED
      BY <3>2, <3>3
  <2>2. CASE ~queued
    <3>1. execQueue' = execQueue /\ state'[t] # "kQueued"
      BY <1>b, <1>d, <1>e, <2>2
    <3>2. QueueSound'
      BY <1>f, <2>0, <3>1 DEF SchedulerInv, QueueSound
    <3>3. QueueComplete'
      BY <1>d, <1>f, <3>1 DEF SchedulerInv, QueueComplete
    <3>4. QED
      BY <3>2, <3>3
  <2>3. QED
    BY <2>1, <2>2
<1>4. RunnerSound'
  BY <1>a, <1>f DEF SchedulerInv, RunnerSound
<1>5. CallbacksSound'
  <2>1. \A i \in 1..Len(cbQueue) : cbQueue[i].task \in Tasks \ {t}
    BY <1>a, EntryTasks DEF SchedulerInv, CallbacksSound
  <2>2. QED
    BY <1>a, <1>f, <2>1 DEF SchedulerInv, CallbacksSound
<1>6. WaitersSound'
  <2>1. waits # {} =>
          state'[t] = "kCreated" \/ (Ended(t)' /\ state'[t] # "kDone")
    BY <1>b, <1>e
  <2>2. QED
    BY <1>a, <1>c, <1>d, <1>f, <2>1 DEF SchedulerInv, WaitersSound, TypeOK
<1>7. DependenciesSound'
  <2>1. \A d \in Tasks : PastRun(d) => PastRun(d)' /\ d # t
    BY <1>a, <1>f DEF PastRun, Running
  <2>2. \A d \in D \ waits : PastRun(d)
    BY <1>a, <1>d DEF Unfinished, PastRun, Running, SchedulerInv, RunnerSound,
                      TypeOK, TaskState
  <2>3. \A d \in requested'[t] : d \in deps'[t] \/ PastRun(d)'
    BY <1>a, <1>d, <2>1, <2>2 DEF TypeOK
  <2>4. \A x \in Tasks \ {t} : requested[x] \subseteq Tasks
    BY <1>a DEF TypeOK
  <2>5. QED
    BY <1>f, <2>1, <2>3, <2>4 DEF SchedulerInv, DependenciesSound
<1>8. CallbackHeld'
  BY <1>d, <1>f DEF SchedulerInv, CallbackHeld
<1>9. QED
  BY <1>1, <1>2, <1>3, <1>4, <1>5, <1>6, <1>7, <1>8 DEF SchedulerInv

-----------------------------------------------------------------------------
(* The steps of the two threads that do not finish a task.                 *)

\* The facts a thread's step needs about the thread records.
LEMMA ThreadTypes ==
  ASSUME TypeOK
  PROVE  /\ exec.pc \in {"idle", "body", "finish", "await"}
         /\ exec.task \in Tasks \cup {NoTask}
         /\ exec.result \in Results /\ exec.mute \in BOOLEAN
         /\ cb.pc \in {"idle", "called"}
         /\ cb.task \in Tasks \cup {NoTask}
         /\ cb.result \in Results /\ cb.mute \in BOOLEAN
  BY DEF TypeOK, ThreadSet

LEMMA ThreadType ==
  ASSUME NEW pcs, NEW pc \in pcs, NEW t \in Tasks \cup {NoTask},
         NEW r \in Results, NEW m \in BOOLEAN
  PROVE  Thread(pc, t, r, m) \in ThreadSet(pcs)
  BY DEF Thread, ThreadSet

LEMMA ToldType ==
  ASSUME TypeOK, NEW S, NEW x \in TaskState
  PROVE  Told(S, x) \in [Tasks -> Seq(TaskState)]
  BY DEF TypeOK, Told

\* The head of the queue is a queued task that still has its callback, so
\* StartTask starts it or finds its session gone.
LEMMA StartStep ==
  ASSUME SchedulerInv, StartTask
  PROVE  SchedulerInv'
<1> DEFINE t == Head(execQueue)
           answer == StartAnswer(t)
<1>a. TypeOK /\ execQueue # <<>> /\ exec.pc = "idle"
  BY DEF SchedulerInv, StartTask
<1>b. /\ Len(execQueue) \in Nat \ {0} /\ t = execQueue[1] /\ t \in Tasks
      /\ execQueue' = Tail(execQueue)
      /\ Len(execQueue') = Len(execQueue) - 1
      /\ \A i \in 1..Len(execQueue') : execQueue'[i] = execQueue[i + 1]
  BY <1>a DEF TypeOK, StartTask
<1>c. state[t] = "kQueued" /\ t \in callback
  BY <1>b DEF SchedulerInv, QueueSound, QueueComplete
<1>d. answer \in {"started", "noSession"}
  BY <1>c DEF StartAnswer
<1>e. /\ state' = [state EXCEPT ![t] = "kProcessing"]
      /\ reports' = Told({t}, "kProcessing")
      /\ callback' \in {callback, callback \ {t}}
      /\ UNCHANGED <<deps, requested, issued, cbQueue, cb>>
  BY <1>d DEF StartTask, taskAttrs
<1>f. exec' \in {Thread("finish", t, "kCancelled", FALSE),
                 Thread("body", t, "kDone", FALSE),
                 Thread("finish", t, "kFailed", TRUE)}
  BY <1>d DEF StartTask
<1>g. exec'.pc \in {"body", "finish"} /\ exec'.task = t
  BY <1>f DEF Thread
<1>1. TypeOK'
  <2>1. exec' \in ThreadSet({"idle", "body", "finish", "await"})
    <3>1. {"kCancelled", "kDone", "kFailed"} \subseteq Results
      BY DEF Results
    <3>2. \A pc \in {"finish", "body"}, r \in {"kCancelled", "kDone", "kFailed"},
             m \in BOOLEAN :
            Thread(pc, t, r, m) \in ThreadSet({"idle", "body", "finish", "await"})
      BY <1>b, <3>1, ThreadType
    <3>3. QED
      BY <1>f, <3>2
  <2>2. state' \in [Tasks -> TaskState] /\ callback' \subseteq Tasks
    BY <1>a, <1>e DEF TypeOK, TaskState
  <2>3. reports' \in [Tasks -> Seq(TaskState)]
    <3>1. "kProcessing" \in TaskState
      BY DEF TaskState
    <3>2. QED
      BY <1>a, <1>e, <3>1, ToldType
  <2>4. execQueue' \in Seq(Tasks)
    BY <1>a, <1>b DEF TypeOK
  <2>5. QED
    BY <1>a, <2>1, <2>2, <2>3, <2>4
    DEF TypeOK, StartTask, taskAttrs, sessionVars
<1>h. /\ state'[t] = "kProcessing"
      /\ \A x \in Tasks \ {t} : state'[x] = state[x]
  BY <1>a, <1>b, <1>e DEF TypeOK
<1>2. KnownIsIssued'
  BY <1>c, <1>e, <1>h DEF SchedulerInv, KnownIsIssued
<1>3. QueueSound'
  <2>1. \A i \in 1..Len(execQueue') : execQueue'[i] \in Tasks \ {t}
    <3>1. TAKE i \in 1..Len(execQueue')
    <3>2. i + 1 \in 1..Len(execQueue) /\ i + 1 # 1 /\ 1 \in 1..Len(execQueue)
      BY <1>b
    <3>3. execQueue[i + 1] # execQueue[1]
      BY <3>2 DEF SchedulerInv, QueueSound
    <3>4. execQueue[i + 1] \in Tasks
      BY <1>a, <3>2 DEF TypeOK
    <3>5. QED
      BY <1>b, <3>3, <3>4
  <2>2. \A i \in 1..Len(execQueue') :
          i + 1 \in 1..Len(execQueue) /\ i + 1 \in Nat
    BY <1>b
  <2>3. \A i \in 1..Len(execQueue') : state'[execQueue'[i]] = "kQueued"
    <3>1. TAKE i \in 1..Len(execQueue')
    <3>2. state[execQueue[i + 1]] = "kQueued"
      BY <2>2 DEF SchedulerInv, QueueSound
    <3>3. execQueue'[i] = execQueue[i + 1]
      BY <1>b
    <3>4. state'[execQueue'[i]] = state[execQueue'[i]]
      BY <1>h, <2>1
    <3>5. QED
      BY <3>2, <3>3, <3>4
  <2>4. ASSUME NEW i \in 1..Len(execQueue'), NEW j \in 1..Len(execQueue'), i # j
        PROVE  execQueue'[i] # execQueue'[j]
    <3>1. i + 1 # j + 1
      BY <2>4
    <3>2. QED
      BY <1>b, <2>2, <3>1 DEF SchedulerInv, QueueSound
  <2>5. QED
    BY <2>3, <2>4 DEF QueueSound
<1>4. QueueComplete'
  <2>1. ASSUME NEW x \in Tasks, state'[x] = "kQueued"
        PROVE  x \in callback' /\ \E i \in 1..Len(execQueue') : execQueue'[i] = x
    <3>1. x # t /\ state[x] = "kQueued"
      BY <1>h, <2>1
    <3>2. x \in callback'
      BY <1>e, <3>1 DEF SchedulerInv, QueueComplete
    <3>3. PICK i \in 1..Len(execQueue) : execQueue[i] = x
      BY <3>1 DEF SchedulerInv, QueueComplete
    <3>4. i # 1 /\ i - 1 \in 1..Len(execQueue')
      BY <1>b, <3>1, <3>3
    <3>5. execQueue'[i - 1] = x
      BY <1>b, <3>3, <3>4
    <3>6. QED
      BY <3>2, <3>4, <3>5
  <2>2. QED
    BY <2>1 DEF QueueComplete
<1>5. RunnerSound'
  BY <1>b, <1>g, <1>h DEF RunnerSound
<1>6. CallbacksSound'
  <2>1. \A i \in 1..Len(cbQueue) : cbQueue[i].task \in Tasks \ {t}
    BY <1>a, <1>c, EntryTasks DEF SchedulerInv, CallbacksSound
  <2>2. cb.pc = "called" => cb.task \in Tasks \ {t}
    BY <1>c DEF SchedulerInv, CallbacksSound
  <2>3. QED
    BY <1>e, <1>h, <2>1, <2>2 DEF SchedulerInv, CallbacksSound
<1>7. WaitersSound'
  BY <1>c, <1>e, <1>h DEF SchedulerInv, WaitersSound
<1>8. DependenciesSound'
  <2>1. \A d \in Tasks : PastRun(d) => PastRun(d)'
    BY <1>c, <1>g, <1>h DEF PastRun, Running
  <2>2. \A x \in Tasks : requested[x] \subseteq Tasks
    BY <1>a DEF TypeOK
  <2>3. QED
    BY <1>c, <1>e, <1>h, <2>1, <2>2
    DEF SchedulerInv, DependenciesSound, Launched
<1>9. CallbackHeld'
  BY <1>e, <1>h DEF SchedulerInv, CallbackHeld
<1>10. QED
  BY <1>1, <1>2, <1>3, <1>4, <1>5, <1>6, <1>7, <1>8, <1>9 DEF SchedulerInv

\* Steps that only move the execution thread along, and tell a callback.
LEMMA ThreadStep ==
  ASSUME SchedulerInv,
         DecodeStep \/ RunBody \/ DecodeBufferFails \/ AwaitCallbacks
  PROVE  SchedulerInv'
<1>a. TypeOK /\ UNCHANGED <<issued, state, deps, requested, callback, execQueue,
                            cbQueue, cb>>
  BY DEF SchedulerInv, DecodeStep, RunBody, DecodeBufferFails, AwaitCallbacks,
         taskAttrs
<1>b. exec' = IdleThread \/ (exec'.pc \in {"body", "finish"} /\ Running(exec'.task))
  <2>1. CASE RunBody
    <3>1. PICK r \in BodyResults(exec.task) :
            exec' = [exec EXCEPT !.pc = "finish", !.result = r]
      BY <2>1 DEF RunBody
    <3>2. exec'.pc = "finish" /\ exec'.task = exec.task
      BY <1>a, <3>1 DEF TypeOK, ThreadSet
    <3>3. QED
      BY <2>1, <3>2 DEF RunBody, Running
  <2>2. QED
    BY <2>1 DEF DecodeStep, DecodeBufferFails, AwaitCallbacks, Running
<1>1. TypeOK'
  <2>1. exec' \in ThreadSet({"idle", "body", "finish", "await"})
    <3>1. CASE RunBody
      <4>1. BodyResults(exec.task) \subseteq Results
        BY DEF BodyResults, Results
      <4>2. QED
        BY <1>a, <3>1, <4>1 DEF RunBody, TypeOK, ThreadSet
    <3>2. CASE DecodeStep \/ DecodeBufferFails \/ AwaitCallbacks
      <4>1. IdleThread \in ThreadSet({"idle", "body", "finish", "await"})
        BY ThreadType DEF IdleThread, Results
      <4>2. exec' \in {exec, IdleThread}
        BY <3>2 DEF DecodeStep, DecodeBufferFails, AwaitCallbacks
      <4>3. QED
        BY <1>a, <4>1, <4>2 DEF TypeOK
    <3>3. QED
      BY <3>1, <3>2
  <2>2. reports' \in [Tasks -> Seq(TaskState)]
    <3>1. {"kProcessing", "kFailed"} \subseteq TaskState
      BY DEF TaskState
    <3>2. \/ UNCHANGED reports
          \/ reports' = Told({exec.task}, "kProcessing")
          \/ reports' = Told({exec.task}, "kFailed")
      BY DEF DecodeStep, RunBody, DecodeBufferFails, AwaitCallbacks
    <3>3. QED
      BY <1>a, <3>1, <3>2, ToldType DEF TypeOK
  <2>3. QED
    BY <1>a, <2>1, <2>2
    DEF TypeOK, DecodeStep, RunBody, DecodeBufferFails, AwaitCallbacks,
        taskAttrs, sessionVars
<1>2. RunnerSound'
  BY <1>a, <1>b
  DEF SchedulerInv, RunnerSound, Running, IdleThread, Thread
<1>3. DependenciesSound'
  <2>1. \A d \in Tasks : PastRun(d) => PastRun(d)'
    BY <1>a, <1>b DEF PastRun, Running, IdleThread, Thread
  <2>2. \A x \in Tasks : requested[x] \subseteq Tasks
    BY <1>a DEF TypeOK
  <2>3. QED
    BY <1>a, <2>1, <2>2 DEF SchedulerInv, DependenciesSound
<1>4. QED
  BY <1>1, <1>2, <1>3, <1>a
  DEF SchedulerInv, KnownIsIssued, QueueSound, QueueComplete, CallbackHeld,
      CallbacksSound, WaitersSound

\* Delivering a last report, and ending its task.
LEMMA CallbackBeginStep ==
  ASSUME SchedulerInv, CallbackBegin
  PROVE  SchedulerInv'
<1> DEFINE e == Head(cbQueue)
<1>a. TypeOK /\ cbQueue # <<>>
  BY DEF SchedulerInv, CallbackBegin
<1>b. /\ Len(cbQueue) \in Nat \ {0} /\ e = cbQueue[1]
      /\ cbQueue' = Tail(cbQueue)
      /\ Len(cbQueue') = Len(cbQueue) - 1
      /\ \A i \in 1..Len(cbQueue') : cbQueue'[i] = cbQueue[i + 1]
  BY <1>a DEF TypeOK, CallbackBegin
<1>c. e.task \in Tasks /\ e.result \in Results /\ e.mute \in BOOLEAN
  BY <1>a, <1>b, EntryTasks
<1>d. /\ cb' = Thread("called", e.task, e.result, e.mute)
      /\ reports' = reports \/ reports' = Told({e.task}, e.result)
      /\ UNCHANGED <<issued, state, deps, requested, callback, execQueue, exec>>
  BY DEF CallbackBegin, taskAttrs
<1>1. TypeOK'
  <2>1. cb' \in ThreadSet({"idle", "called"})
    BY <1>c, <1>d, ThreadType
  <2>2. cbQueue' \in Seq(EntrySet)
    BY <1>a, <1>b DEF TypeOK
  <2>3. reports' \in [Tasks -> Seq(TaskState)]
    <3>1. e.result \in TaskState
      BY <1>c DEF Results, TaskState
    <3>2. QED
      BY <1>a, <1>d, <3>1, ToldType DEF TypeOK
  <2>4. QED
    BY <1>a, <2>1, <2>2, <2>3 DEF TypeOK, CallbackBegin, taskAttrs, sessionVars
<1>2. CallbacksSound'
  <2>1. \A i \in 1..Len(cbQueue') :
          i + 1 \in 1..Len(cbQueue) /\ i + 1 # 1 /\ 1 \in 1..Len(cbQueue)
    BY <1>b
  <2>2. \A i \in 1..Len(cbQueue') :
          /\ state[cbQueue'[i].task] = "kLastCallbackQueued"
          /\ cbQueue'[i].task # e.task
    BY <1>b, <2>1 DEF SchedulerInv, CallbacksSound
  <2>3. ASSUME NEW i \in 1..Len(cbQueue'), NEW j \in 1..Len(cbQueue'), i # j
        PROVE  cbQueue'[i].task # cbQueue'[j].task
    <3>1. i + 1 # j + 1
      BY <2>3
    <3>2. QED
      BY <1>b, <2>1, <3>1 DEF SchedulerInv, CallbacksSound
  <2>4. cb'.task = e.task /\ state[e.task] = "kLastCallbackQueued"
    BY <1>b, <1>d DEF Thread, SchedulerInv, CallbacksSound
  <2>5. QED
    BY <1>c, <1>d, <2>2, <2>3, <2>4 DEF CallbacksSound
<1>3. QED
  BY <1>1, <1>2, <1>d
  DEF SchedulerInv, KnownIsIssued, QueueSound, QueueComplete, CallbackHeld,
      RunnerSound, WaitersSound, DependenciesSound, PastRun, Running

LEMMA CallbackEndStep ==
  ASSUME SchedulerInv, CallbackEnd
  PROVE  SchedulerInv'
<1> DEFINE t == cb.task
<1>a. /\ TypeOK /\ t \in Tasks /\ state[t] = "kLastCallbackQueued"
      /\ \A i \in 1..Len(cbQueue) : cbQueue[i].task \in Tasks \ {t}
      /\ cb.result \in Results
  BY EntryTasks, ThreadTypes DEF SchedulerInv, CallbacksSound, CallbackEnd
<1>b. /\ state' \in {state, [state EXCEPT ![t] = cb.result]}
      /\ reports' \in {reports, Told({t}, "kFailed")}
      /\ cb' = IdleThread
      /\ UNCHANGED <<issued, deps, requested, callback, execQueue, exec, cbQueue>>
  BY DEF CallbackEnd, taskAttrs
<1>c. /\ state'[t] \in Results \cup {"kLastCallbackQueued"}
      /\ \A x \in Tasks \ {t} : state'[x] = state[x]
  BY <1>a, <1>b DEF TypeOK
<1>1. TypeOK'
  <2>1. state' \in [Tasks -> TaskState]
    BY <1>a, <1>b DEF TypeOK, Results, TaskState
  <2>2. reports' \in [Tasks -> Seq(TaskState)]
    <3>1. "kFailed" \in TaskState
      BY DEF TaskState
    <3>2. QED
      BY <1>a, <1>b, <3>1, ToldType DEF TypeOK
  <2>3. active' \in [Sessions -> SUBSET Tasks]
    <3>1. CASE MayEnd(t)
      <4>1. owner[t] \in Sessions
        BY <1>a, <3>1 DEF MayEnd, TypeOK
      <4>2. active' = [active EXCEPT ![owner[t]] = @ \ {t}]
        BY <3>1 DEF CallbackEnd
      <4>3. QED
        BY <1>a, <4>1, <4>2 DEF TypeOK
    <3>2. CASE ~MayEnd(t)
      BY <1>a, <3>2 DEF CallbackEnd, TypeOK
    <3>3. QED
      BY <3>1, <3>2
  <2>4. cb' \in ThreadSet({"idle", "called"})
    BY <1>b, ThreadType DEF IdleThread, Results
  <2>5. QED
    BY <1>a, <2>1, <2>2, <2>3, <2>4
    DEF TypeOK, CallbackEnd, taskAttrs, sessionVars
<1>2. KnownIsIssued'
  BY <1>a, <1>b, <1>c DEF SchedulerInv, KnownIsIssued
<1>3. QueueSound' /\ QueueComplete'
  <2>1. \A i \in 1..Len(execQueue) : execQueue[i] \in Tasks \ {t}
    BY <1>a DEF TypeOK, SchedulerInv, QueueSound
  <2>2. QED
    BY <1>a, <1>b, <1>c, <2>1
    DEF SchedulerInv, QueueSound, QueueComplete, Results
<1>4. RunnerSound'
  BY <1>a, <1>b, <1>c DEF SchedulerInv, RunnerSound
<1>5. CallbacksSound'
  BY <1>a, <1>b, <1>c DEF SchedulerInv, CallbacksSound, IdleThread, Thread
<1>6. WaitersSound'
  BY <1>a, <1>b, <1>c DEF SchedulerInv, WaitersSound
<1>7. DependenciesSound'
  <2>1. \A d \in Tasks : PastRun(d) => PastRun(d)'
    BY <1>a, <1>b, <1>c DEF PastRun, Running, Results
  <2>2. \A x \in Tasks : requested[x] \subseteq Tasks
    BY <1>a DEF TypeOK
  <2>3. state[t] \in Launched /\ state'[t] # "kCreated"
    BY <1>a, <1>c DEF Launched, Results
  <2>4. QED
    BY <1>a, <1>b, <1>c, <2>1, <2>2, <2>3 DEF SchedulerInv, DependenciesSound
<1>8. CallbackHeld'
  BY <1>a, <1>b, <1>c DEF SchedulerInv, CallbackHeld, Results
<1>9. QED
  BY <1>1, <1>2, <1>3, <1>4, <1>5, <1>6, <1>7, <1>8 DEF SchedulerInv

-----------------------------------------------------------------------------
(* Finishing a task.                                                       *)

\* An order of a finite set of tasks is a sequence that holds each of them once.
LEMMA Orders ==
  ASSUME NEW R \in SUBSET Tasks, NEW q \in SetToSeqs(R)
  PROVE  /\ q \in Seq(Tasks) /\ Len(q) \in Nat
         /\ \A i \in 1..Len(q) : q[i] \in R
         /\ \A i, j \in 1..Len(q) : i # j => q[i] # q[j]
         /\ \A x \in R : \E i \in 1..Len(q) : q[i] = x
<1> DEFINE n == Cardinality(R)
<1>1. IsFiniteSet(R)
  BY ConstantsAssumption, FS_Subset
<1>2. n \in Nat
  BY <1>1, FS_CardinalityType
<1>3. /\ q \in [1..n -> R]
      /\ \A i, j \in 1..n : i # j => q[i] # q[j]
  BY DEF SetToSeqs
<1>4. q \in Seq(R) /\ Len(q) = n
  BY <1>2, <1>3
<1>5. q \in Injection(1..n, R)
  BY <1>3 DEF Injection, IsInjective
<1>6. IsFiniteSet(1..n) /\ Cardinality(1..n) = n
  BY <1>2, FS_Interval
<1>7. q \in Surjection(1..n, R)
  BY <1>1, <1>5, <1>6, FS_Injection
<1>8. \A x \in R : \E i \in 1..n : q[i] = x
  BY <1>7 DEF Surjection
<1>9. QED
  BY <1>2, <1>3, <1>4, <1>8

\* A step that queues no task and starts none keeps the queue exact.
LEMMA QueueStays ==
  ASSUME SchedulerInv, UNCHANGED <<execQueue, callback>>,
         \A x \in Tasks : state'[x] = "kQueued" <=> state[x] = "kQueued"
  PROVE  QueueSound' /\ QueueComplete'
<1>1. \A i \in 1..Len(execQueue) : execQueue[i] \in Tasks
  BY DEF SchedulerInv, TypeOK
<1>2. QueueSound'
  BY <1>1 DEF SchedulerInv, QueueSound
<1>3. QueueComplete'
  BY DEF SchedulerInv, QueueComplete
<1>4. QED
  BY <1>2, <1>3

\* Queueing waiting tasks, in any order, keeps the queue exact.
LEMMA QueueGrows ==
  ASSUME SchedulerInv, NEW R \in SUBSET Tasks,
         \A x \in R : state[x] = "kCreated",
         \A x \in Tasks : state'[x] = "kQueued" <=> x \in R \/ state[x] = "kQueued",
         NEW q \in SetToSeqs(R), execQueue' = execQueue \o q,
         UNCHANGED callback
  PROVE  execQueue' \in Seq(Tasks) /\ QueueSound' /\ QueueComplete'
<1> DEFINE n == Len(execQueue)
           m == Len(q)
<1>1. /\ execQueue \in Seq(Tasks) /\ q \in Seq(Tasks)
      /\ n \in Nat /\ m \in Nat
      /\ Len(execQueue') = n + m
      /\ \A i \in 1..n : execQueue'[i] = execQueue[i]
      /\ \A i \in (n + 1)..(n + m) : execQueue'[i] = q[i - n]
  <2>1. execQueue \in Seq(Tasks)
    BY DEF SchedulerInv, TypeOK
  <2>2. q \in Seq(Tasks)
    BY Orders
  <2>3. QED
    BY <2>1, <2>2
<1>2. execQueue' \in Seq(Tasks)
  BY <1>1
<1>3. \A i \in 1..n : execQueue[i] \in Tasks \ R /\ state'[execQueue[i]] = "kQueued"
  <2>1. \A i \in 1..n : execQueue[i] \in Tasks /\ state[execQueue[i]] = "kQueued"
    BY <1>1 DEF SchedulerInv, QueueSound
  <2>2. QED
    BY <2>1
<1>4. \A i \in (n + 1)..(n + m) : i - n \in 1..m /\ execQueue'[i] \in R
  <2>1. \A i \in (n + 1)..(n + m) : i - n \in 1..m
    BY <1>1
  <2>2. \A i \in 1..m : q[i] \in R
    BY Orders
  <2>3. QED
    BY <1>1, <2>1, <2>2
<1>5. \A i \in 1..(n + m) : i \in 1..n \/ i \in (n + 1)..(n + m)
  BY <1>1
<1>6. \A i \in 1..(n + m) : state'[execQueue'[i]] = "kQueued"
  BY <1>1, <1>3, <1>4, <1>5
<1>7. ASSUME NEW i \in 1..(n + m), NEW j \in 1..(n + m), i # j
      PROVE  execQueue'[i] # execQueue'[j]
  <2>1. CASE i \in 1..n /\ j \in 1..n
    BY <1>1, <1>7, <2>1 DEF SchedulerInv, QueueSound
  <2>2. CASE i \in (n + 1)..(n + m) /\ j \in (n + 1)..(n + m)
    <3>1. i - n # j - n /\ i - n \in 1..m /\ j - n \in 1..m
      BY <1>1, <1>4, <1>7, <2>2
    <3>2. \A a, b \in 1..m : a # b => q[a] # q[b]
      BY Orders
    <3>3. q[i - n] # q[j - n]
      BY <3>1, <3>2
    <3>4. QED
      BY <1>1, <2>2, <3>3
  <2>3. CASE i \in 1..n /\ j \in (n + 1)..(n + m)
    BY <1>1, <1>3, <1>4, <2>3
  <2>4. CASE i \in (n + 1)..(n + m) /\ j \in 1..n
    BY <1>1, <1>3, <1>4, <2>4
  <2>5. QED
    BY <1>5, <2>1, <2>2, <2>3, <2>4
<1>8. QueueSound'
  BY <1>1, <1>6, <1>7 DEF QueueSound
<1>9. ASSUME NEW x \in Tasks, state'[x] = "kQueued"
      PROVE  x \in callback' /\ \E i \in 1..(n + m) : execQueue'[i] = x
  <2>1. CASE x \in R
    <3>1. PICK i \in 1..m : q[i] = x
      BY <2>1, Orders
    <3>2. /\ n + i \in (n + 1)..(n + m) /\ n + i \in 1..(n + m)
          /\ (n + i) - n = i
      BY <1>1
    <3>3. execQueue'[n + i] = x
      BY <1>1, <3>1, <3>2
    <3>4. x \in callback'
      BY <2>1 DEF SchedulerInv, CallbackHeld
    <3>5. QED
      BY <3>2, <3>3, <3>4
  <2>2. CASE state[x] = "kQueued"
    <3>1. PICK i \in 1..n : execQueue[i] = x
      BY <2>2 DEF SchedulerInv, QueueComplete
    <3>2. i \in 1..(n + m)
      BY <1>1
    <3>3. QED
      BY <1>1, <2>2, <3>1, <3>2 DEF SchedulerInv, QueueComplete
  <2>3. QED
    BY <1>9, <2>1, <2>2
<1>10. QED
  BY <1>1, <1>2, <1>8, <1>9 DEF QueueComplete

\* The walk over the followers meets only tasks that were never queued: each of
\* them still depends on the task it follows.
LEMMA CascadeTasks ==
  ASSUME SchedulerInv, NEW t \in Tasks, ~WalkFails(t)
  PROVE  FollowingWaitingTasks(t) \subseteq {f \in Tasks : state[f] = "kCreated"}
<1> DEFINE F == FollowingWaitingTasks(t)
           W == {f \in F : ~Ended(f) /\ deps[f] # {}}
<1>1. F \subseteq Tasks
  BY DEF FollowingWaitingTasks
<1>2. \A x \in Tasks : Waiting(x) \subseteq Tasks
  BY DEF Waiting, SchedulerInv, TypeOK
<1>3. Waiting(t) \subseteq F
  BY <1>2 DEF FollowingWaitingTasks
<1>4. \A x \in F : Waiting(x) \subseteq F
  <2>1. ASSUME NEW x \in F, NEW f \in Waiting(x)
        PROVE  f \in F
    <3>1. f \in Tasks
      BY <1>1, <1>2, <2>1
    <3>2. ASSUME NEW S \in SUBSET Tasks, Waiting(t) \subseteq S,
                 \A y \in S : Waiting(y) \subseteq S
          PROVE  f \in S
      BY <2>1, <3>2 DEF FollowingWaitingTasks
    <3>3. QED
      BY <3>1, <3>2 DEF FollowingWaitingTasks
  <2>2. QED
    BY <2>1
<1>5. \A x \in {t} \cup F : Waiting(x) \subseteq W
  BY <1>3, <1>4 DEF WalkFails, Waiting
<1>6. F \subseteq W
  <2>1. W \in SUBSET Tasks /\ Waiting(t) \subseteq W
    BY <1>1, <1>5
  <2>2. \A x \in W : Waiting(x) \subseteq W
    BY <1>5
  <2>3. QED
    BY <2>1, <2>2 DEF FollowingWaitingTasks
<1>7. QED
  BY <1>1, <1>6 DEF SchedulerInv, WaitersSound

\* What every outcome of FinishTask has in common: t leaves the thread, and of
\* the other tasks only those in kCreated move, to kQueued when t was all they
\* waited for, or to an end state other than kDone.
LEMMA FinishFrame ==
  ASSUME SchedulerInv, NEW t \in Tasks, t = exec.task, exec.pc = "finish",
         state'[t] \in {"kProcessing", "kFailed", "kLastCallbackQueued"},
         \A x \in Tasks \ {t} :
            \/ state'[x] = state[x]
            \/ /\ state[x] = "kCreated"
               /\ \/ state'[x] = "kQueued" /\ deps[x] = {t} /\ deps'[x] = {}
                  \/ state'[x] \in EndStates \ {"kDone"},
         \A x \in Tasks : /\ deps'[x] \subseteq deps[x]
                          /\ deps'[x] = {} \/ deps[x] \subseteq deps'[x] \cup {t},
         \/ cbQueue' = cbQueue
         \/ /\ state'[t] = "kLastCallbackQueued"
            /\ \E e \in EntrySet : e.task = t /\ cbQueue' = Append(cbQueue, e),
         exec'.pc \notin {"body", "finish"},
         UNCHANGED <<issued, requested, callback, cb>>
  PROVE  /\ KnownIsIssued' /\ CallbackHeld' /\ RunnerSound' /\ CallbacksSound'
         /\ WaitersSound' /\ DependenciesSound'
<1>a. TypeOK /\ state[t] = "kProcessing" /\ deps[t] = {}
  BY DEF SchedulerInv, RunnerSound, WaitersSound
<1>1. KnownIsIssued'
  BY <1>a DEF SchedulerInv, KnownIsIssued
<1>2. CallbackHeld'
  BY <1>a DEF SchedulerInv, CallbackHeld
<1>3. RunnerSound'
  BY DEF RunnerSound
<1>4. CallbacksSound'
  <2>1. \A i \in 1..Len(cbQueue) :
          /\ cbQueue[i].task \in Tasks \ {t}
          /\ state'[cbQueue[i].task] = "kLastCallbackQueued"
    BY <1>a, EntryTasks DEF SchedulerInv, CallbacksSound
  <2>2. cb.pc = "called" => /\ cb.task \in Tasks \ {t}
                            /\ state'[cb.task] = "kLastCallbackQueued"
    BY <1>a DEF SchedulerInv, CallbacksSound
  <2>3. CASE cbQueue' = cbQueue
    BY <2>1, <2>2, <2>3 DEF SchedulerInv, CallbacksSound
  <2>4. CASE /\ state'[t] = "kLastCallbackQueued"
             /\ \E e \in EntrySet : e.task = t /\ cbQueue' = Append(cbQueue, e)
    <3>1. PICK e \in EntrySet : e.task = t /\ cbQueue' = Append(cbQueue, e)
      BY <2>4
    <3>2. /\ Len(cbQueue) \in Nat /\ Len(cbQueue') = Len(cbQueue) + 1
          /\ \A i \in 1..Len(cbQueue) : cbQueue'[i] = cbQueue[i]
          /\ cbQueue'[Len(cbQueue) + 1] = e
      BY <1>a, <3>1 DEF TypeOK
    <3>3. \A i \in 1..Len(cbQueue') :
            i \in 1..Len(cbQueue) \/ i = Len(cbQueue) + 1
      BY <3>2
    <3>4. \A i \in 1..Len(cbQueue') :
            /\ state'[cbQueue'[i].task] = "kLastCallbackQueued"
            /\ cb.pc = "called" => cbQueue'[i].task # cb.task
      BY <2>1, <2>2, <2>4, <3>1, <3>2, <3>3 DEF SchedulerInv, CallbacksSound
    <3>5. \A i, j \in 1..Len(cbQueue') :
            i # j => cbQueue'[i].task # cbQueue'[j].task
      BY <2>1, <3>1, <3>2, <3>3 DEF SchedulerInv, CallbacksSound
    <3>6. QED
      BY <2>2, <3>4, <3>5 DEF CallbacksSound
  <2>5. QED
    BY <2>3, <2>4
<1>5. WaitersSound'
  <2>1. ASSUME NEW x \in Tasks, deps'[x] # {}
        PROVE  state'[x] = "kCreated" \/ (Ended(x)' /\ state'[x] # "kDone")
    <3>1. deps[x] # {} /\ x # t
      BY <1>a, <2>1
    <3>2. state[x] = "kCreated" \/ (Ended(x) /\ state[x] # "kDone")
      BY <3>1 DEF SchedulerInv, WaitersSound
    <3>3. QED
      BY <2>1, <3>1, <3>2
  <2>2. QED
    BY <2>1 DEF WaitersSound
<1>6. DependenciesSound'
  <2>1. PastRun(t)'
    BY <1>a DEF PastRun, Running
  <2>2. \A d \in Tasks : PastRun(d) => PastRun(d)'
    BY <1>a, <2>1 DEF PastRun, Running
  <2>3. \A x \in Tasks : requested[x] \subseteq Tasks /\ requested'[x] = requested[x]
    BY <1>a DEF TypeOK
  <2>4. ASSUME NEW x \in Tasks, NEW d \in requested[x],
               \/ state'[x] \in Launched
               \/ state'[x] = "kCreated" /\ deps'[x] # {}
        PROVE  d \in deps'[x] \/ PastRun(d)'
    <3>1. CASE x = t
      <4>1. state[x] \in Launched
        BY <1>a, <3>1 DEF Launched
      <4>2. d \in deps[x] \/ PastRun(d)
        BY <4>1 DEF SchedulerInv, DependenciesSound
      <4>3. QED
        BY <1>a, <2>2, <2>3, <3>1, <4>2
    <3>2. CASE x # t /\ state'[x] = state[x]
      <4>1. \/ state[x] \in Launched
            \/ state[x] = "kCreated" /\ deps[x] # {}
        BY <2>4, <3>2
      <4>2. d \in deps[x] \/ PastRun(d)
        BY <4>1 DEF SchedulerInv, DependenciesSound
      <4>3. state[x] \in Launched => deps[x] = {}
        BY DEF SchedulerInv, WaitersSound, Launched
      <4>4. QED
        BY <2>1, <2>2, <2>3, <2>4, <3>2, <4>2, <4>3
    <3>3. CASE x # t /\ state'[x] # state[x]
      <4>1. state[x] = "kCreated" /\ state'[x] = "kQueued" /\ deps[x] = {t}
        BY <2>4, <3>3 DEF Launched
      <4>2. d = t \/ PastRun(d)
        BY <4>1 DEF SchedulerInv, DependenciesSound
      <4>3. QED
        BY <2>1, <2>2, <2>3, <4>2
    <3>4. QED
      BY <3>1, <3>2, <3>3
  <2>5. QED
    BY <2>3, <2>4 DEF DependenciesSound
<1>7. QED
  BY <1>1, <1>2, <1>3, <1>4, <1>5, <1>6

\* The record handed to the callback thread, and the exit of the execution thread.
LEMMA LastCallbackQueued ==
  ASSUME TypeOK, NEW t \in Tasks, QueueLastCallback(t)
  PROVE  /\ cbQueue' \in Seq(EntrySet)
         /\ \E e \in EntrySet : e.task = t /\ cbQueue' = Append(cbQueue, e)
         /\ exec' \in ThreadSet({"idle", "body", "finish", "await"})
         /\ exec'.pc = "await"
<1> DEFINE e == Entry(t, exec.result, exec.mute)
<1>1. e \in EntrySet /\ e.task = t /\ cbQueue' = Append(cbQueue, e)
  BY ThreadTypes DEF QueueLastCallback, Entry, EntrySet
<1>2. cbQueue' \in Seq(EntrySet)
  BY <1>1 DEF TypeOK
<1>3. /\ exec' \in ThreadSet({"idle", "body", "finish", "await"})
      /\ exec'.pc = "await"
  BY DEF QueueLastCallback, TypeOK, ThreadSet
<1>4. QED
  BY <1>1, <1>2, <1>3

\* A failing or cancelled task ends the tasks that wait for it.
LEMMA FinishUnsuccessfullyStep ==
  ASSUME SchedulerInv, FinishUnsuccessfully
  PROVE  SchedulerInv'
<1> DEFINE t == exec.task
           F == FollowingWaitingTasks(t)
           s == DependentState(exec.result)
<1>a. TypeOK /\ t \in Tasks /\ state[t] = "kProcessing" /\ exec.pc = "finish"
  BY DEF SchedulerInv, RunnerSound, FinishUnsuccessfully
<1>b. F \subseteq {f \in Tasks : state[f] = "kCreated"}
  BY <1>a, CascadeTasks DEF FinishUnsuccessfully
<1>c. s \in {"kDependentTaskCancelled", "kDependentTaskFailed"}
  BY DEF DependentState
<1>d. /\ state' = [x \in Tasks |-> IF x \in F THEN s
                                   ELSE IF x = t THEN "kLastCallbackQueued"
                                   ELSE state[x]]
      /\ deps' = [x \in Tasks |-> IF x \in F THEN {} ELSE deps[x]]
      /\ reports' = Told(F, s)
      /\ active' = [o \in Sessions |-> active[o] \ F]
      /\ QueueLastCallback(t)
      /\ UNCHANGED <<sessionVars, taskAttrs, following, cancelled, callback,
                     execQueue, cb>>
  BY DEF FinishUnsuccessfully
<1>1. /\ cbQueue' \in Seq(EntrySet)
      /\ \E e \in EntrySet : e.task = t /\ cbQueue' = Append(cbQueue, e)
      /\ exec' \in ThreadSet({"idle", "body", "finish", "await"})
      /\ exec'.pc = "await"
  BY <1>a, <1>d, LastCallbackQueued
<1>2. TypeOK'
  <2>1. state' \in [Tasks -> TaskState]
    BY <1>a, <1>c, <1>d DEF TypeOK, TaskState
  <2>2. deps' \in [Tasks -> SUBSET Tasks] /\ active' \in [Sessions -> SUBSET Tasks]
    BY <1>a, <1>d DEF TypeOK
  <2>3. reports' \in [Tasks -> Seq(TaskState)]
    <3>1. s \in TaskState
      BY <1>c DEF TaskState
    <3>2. QED
      BY <1>a, <1>d, <3>1, ToldType
  <2>4. QED
    BY <1>a, <1>d, <1>1, <2>1, <2>2, <2>3 DEF TypeOK, taskAttrs, sessionVars
<1>3. state'[t] = "kLastCallbackQueued"
  BY <1>a, <1>b, <1>d
<1>4. \A x \in Tasks \ {t} :
        \/ state'[x] = state[x]
        \/ state[x] = "kCreated" /\ state'[x] \in EndStates \ {"kDone"}
  BY <1>b, <1>c, <1>d
<1>5. \A x \in Tasks : /\ deps'[x] \subseteq deps[x]
                       /\ deps'[x] = {} \/ deps[x] \subseteq deps'[x] \cup {t}
  BY <1>d
<1>6. /\ KnownIsIssued' /\ CallbackHeld' /\ RunnerSound' /\ CallbacksSound'
      /\ WaitersSound' /\ DependenciesSound'
  BY <1>a, <1>d, <1>1, <1>3, <1>4, <1>5, FinishFrame DEF taskAttrs
<1>7. QueueSound' /\ QueueComplete'
  <2>1. \A x \in Tasks : state'[x] = "kQueued" <=> state[x] = "kQueued"
    BY <1>a, <1>3, <1>4
  <2>2. QED
    BY <1>d, <2>1, QueueStays
<1>8. QED
  BY <1>2, <1>6, <1>7 DEF SchedulerInv

\* A task that succeeds queues the tasks that waited for it alone.
LEMMA FinishSuccessfullyStep ==
  ASSUME SchedulerInv, FinishSuccessfully
  PROVE  SchedulerInv'
<1> DEFINE t == exec.task
           S == Waiting(t)
           R == Ready(t, S)
<1>a. TypeOK /\ t \in Tasks /\ state[t] = "kProcessing" /\ exec.pc = "finish"
  BY DEF SchedulerInv, RunnerSound, FinishSuccessfully
<1>b. S \subseteq {f \in Tasks : state[f] = "kCreated"} /\ R \subseteq S
  BY <1>a DEF FinishSuccessfully, BadFollower, Waiting, Ready, TypeOK
<1>c. /\ state' = [x \in Tasks |-> IF x \in R THEN "kQueued"
                                   ELSE IF x = t THEN "kLastCallbackQueued"
                                   ELSE state[x]]
      /\ deps' = [x \in Tasks |-> IF x \in S THEN deps[x] \ {t} ELSE deps[x]]
      /\ reports' = Told(R, "kQueued")
      /\ QueueLastCallback(t)
      /\ UNCHANGED <<sessionVars, active, taskAttrs, following, cancelled,
                     callback, cb>>
  BY <1>a DEF FinishSuccessfully, Advance, TypeOK
<1>d. PICK q \in SetToSeqs(R) : execQueue' = execQueue \o q
  BY DEF FinishSuccessfully, Advance
<1>1. /\ cbQueue' \in Seq(EntrySet)
      /\ \E e \in EntrySet : e.task = t /\ cbQueue' = Append(cbQueue, e)
      /\ exec' \in ThreadSet({"idle", "body", "finish", "await"})
      /\ exec'.pc = "await"
  BY <1>a, <1>c, LastCallbackQueued
<1>2. state'[t] = "kLastCallbackQueued"
  BY <1>a, <1>b, <1>c
<1>3. \A x \in Tasks \ {t} :
        \/ state'[x] = state[x]
        \/ /\ state[x] = "kCreated" /\ state'[x] = "kQueued"
           /\ deps[x] = {t} /\ deps'[x] = {}
  BY <1>b, <1>c DEF Ready
<1>4. \A x \in Tasks : /\ deps'[x] \subseteq deps[x]
                       /\ deps[x] \subseteq deps'[x] \cup {t}
  BY <1>c
<1>5. execQueue' \in Seq(Tasks) /\ QueueSound' /\ QueueComplete'
  <2>1. \A x \in Tasks : state'[x] = "kQueued" <=> x \in R \/ state[x] = "kQueued"
    BY <1>a, <1>b, <1>c
  <2>2. QED
    BY <1>b, <1>c, <1>d, <2>1, QueueGrows
<1>6. TypeOK'
  <2>1. state' \in [Tasks -> TaskState]
    BY <1>a, <1>c DEF TypeOK, TaskState
  <2>2. deps' \in [Tasks -> SUBSET Tasks]
    BY <1>a, <1>c DEF TypeOK
  <2>3. reports' \in [Tasks -> Seq(TaskState)]
    <3>1. "kQueued" \in TaskState
      BY DEF TaskState
    <3>2. QED
      BY <1>a, <1>c, <3>1, ToldType
  <2>4. QED
    BY <1>a, <1>c, <1>1, <1>5, <2>1, <2>2, <2>3 DEF TypeOK, taskAttrs, sessionVars
<1>7. /\ KnownIsIssued' /\ CallbackHeld' /\ RunnerSound' /\ CallbacksSound'
      /\ WaitersSound' /\ DependenciesSound'
  BY <1>a, <1>c, <1>1, <1>2, <1>3, <1>4, FinishFrame DEF taskAttrs
<1>8. QED
  BY <1>5, <1>6, <1>7 DEF SchedulerInv

\* A refused FinishTask leaves the thread idle, and t failed or as it was.
LEMMA FailTaskFacts ==
  ASSUME TypeOK, NEW t \in Tasks, NEW states \in [Tasks -> TaskState],
         NEW told \in [Tasks -> Seq(TaskState)],
         NEW actives \in [Sessions -> SUBSET Tasks],
         FailTask(t, states, told, actives)
  PROVE  /\ state' \in [Tasks -> TaskState]
         /\ state'[t] \in {states[t], "kFailed"}
         /\ \A x \in Tasks \ {t} : state'[x] = states[x]
         /\ reports' \in [Tasks -> Seq(TaskState)]
         /\ active' \in [Sessions -> SUBSET Tasks]
         /\ exec' \in ThreadSet({"idle", "body", "finish", "await"})
         /\ exec'.pc = "idle"
<1>1. "kFailed" \in TaskState
  BY DEF TaskState
<1>2. /\ state' \in {states, [states EXCEPT ![t] = "kFailed"]}
      /\ reports' \in {told, [told EXCEPT ![t] = Append(@, "kFailed")]}
      /\ exec' = IdleThread
  BY DEF FailTask
<1>3. /\ state' \in [Tasks -> TaskState]
      /\ state'[t] \in {states[t], "kFailed"}
      /\ \A x \in Tasks \ {t} : state'[x] = states[x]
  BY <1>1, <1>2
<1>4. reports' \in [Tasks -> Seq(TaskState)]
  <2>1. Append(told[t], "kFailed") \in Seq(TaskState)
    <3>1. told[t] \in Seq(TaskState)
      OBVIOUS
    <3>2. QED
      BY <1>1, <3>1
  <2>2. QED
    BY <1>2, <2>1
<1>5. active' \in [Sessions -> SUBSET Tasks]
  <2>1. CASE MayEnd(t)
    <3>1. owner[t] \in Sessions
      BY <2>1 DEF MayEnd, TypeOK
    <3>2. active' = [actives EXCEPT ![owner[t]] = @ \ {t}]
      BY <2>1 DEF FailTask
    <3>3. QED
      BY <3>1, <3>2
  <2>2. CASE ~MayEnd(t)
    BY <2>2 DEF FailTask
  <2>3. QED
    BY <2>1, <2>2
<1>6. exec' \in ThreadSet({"idle", "body", "finish", "await"}) /\ exec'.pc = "idle"
  BY <1>2, ThreadType DEF IdleThread, Results, Thread
<1>7. QED
  BY <1>3, <1>4, <1>5, <1>6

\* FinishTask meets a follower that is gone or no longer depends on its task.
LEMMA FinishRefusedStep ==
  ASSUME SchedulerInv, FinishRefused
  PROVE  SchedulerInv'
<1> DEFINE t == exec.task
<1>a. TypeOK /\ t \in Tasks /\ state[t] = "kProcessing" /\ exec.pc = "finish"
  BY DEF SchedulerInv, RunnerSound, FinishRefused
<1>b. /\ FailTask(t, state, reports, active)
      /\ UNCHANGED <<sessionVars, taskAttrs, deps, following, cancelled,
                     callback, execQueue, cbQueue, cb>>
  BY DEF FinishRefused
<1>c. /\ state \in [Tasks -> TaskState] /\ reports \in [Tasks -> Seq(TaskState)]
      /\ active \in [Sessions -> SUBSET Tasks]
  BY <1>a DEF TypeOK
<1>d. /\ state' \in [Tasks -> TaskState]
      /\ state'[t] \in {state[t], "kFailed"}
      /\ \A x \in Tasks \ {t} : state'[x] = state[x]
      /\ reports' \in [Tasks -> Seq(TaskState)]
      /\ active' \in [Sessions -> SUBSET Tasks]
      /\ exec' \in ThreadSet({"idle", "body", "finish", "await"})
      /\ exec'.pc = "idle"
  BY <1>a, <1>b, <1>c, FailTaskFacts
<1>1. TypeOK'
  BY <1>a, <1>b, <1>d DEF TypeOK, taskAttrs, sessionVars
<1>2. /\ KnownIsIssued' /\ CallbackHeld' /\ RunnerSound' /\ CallbacksSound'
      /\ WaitersSound' /\ DependenciesSound'
  BY <1>a, <1>b, <1>d, FinishFrame DEF taskAttrs
<1>3. QueueSound' /\ QueueComplete'
  <2>1. \A x \in Tasks : state'[x] = "kQueued" <=> state[x] = "kQueued"
    BY <1>a, <1>d
  <2>2. QED
    BY <1>b, <2>1, QueueStays
<1>4. QED
  BY <1>1, <1>2, <1>3 DEF SchedulerInv

\* The cascade stops at a follower whose session is gone.
LEMMA FinishStopsInCascadeStep ==
  ASSUME SchedulerInv, FinishStopsInCascade
  PROVE  SchedulerInv'
<1> DEFINE t == exec.task
           F == FollowingWaitingTasks(t)
           s == DependentState(exec.result)
<1>a. TypeOK /\ t \in Tasks /\ state[t] = "kProcessing" /\ exec.pc = "finish"
  BY DEF SchedulerInv, RunnerSound, FinishStopsInCascade
<1>b. F \subseteq {f \in Tasks : state[f] = "kCreated"}
  BY <1>a, CascadeTasks DEF FinishStopsInCascade
<1>c. s \in {"kDependentTaskCancelled", "kDependentTaskFailed"} /\ s \in TaskState
  BY DEF DependentState, TaskState
<1>d. PICK f \in F, S \in SUBSET {g \in F : MayEnd(g)} :
        /\ deps' = [x \in Tasks |-> IF x \in S \cup {f} THEN {} ELSE deps[x]]
        /\ FailTask(t,
             [x \in Tasks |-> IF x \in S THEN s ELSE state[x]],
             [Told(S \cup {f}, s) EXCEPT ![f] = Append(@, "kFailed")],
             [o \in Sessions |-> active[o] \ S])
  BY DEF FinishStopsInCascade
<1> DEFINE states  == [x \in Tasks |-> IF x \in S THEN s ELSE state[x]]
           told    == [Told(S \cup {f}, s) EXCEPT ![f] = Append(@, "kFailed")]
           actives == [o \in Sessions |-> active[o] \ S]
<1>e. UNCHANGED <<sessionVars, taskAttrs, following, cancelled, callback,
                  execQueue, cbQueue, cb>>
  BY DEF FinishStopsInCascade
<1>f. states \in [Tasks -> TaskState] /\ actives \in [Sessions -> SUBSET Tasks]
  BY <1>a, <1>c DEF TypeOK
<1>g. told \in [Tasks -> Seq(TaskState)]
  <2> DEFINE first == Told(S \cup {f}, s)
  <2>1. first \in [Tasks -> Seq(TaskState)]
    BY <1>a, <1>c, ToldType
  <2>2. "kFailed" \in TaskState /\ f \in Tasks
    BY <1>b DEF TaskState
  <2> HIDE DEF first
  <2>3. first[f] \in Seq(TaskState)
    BY <2>1, <2>2
  <2>4. Append(first[f], "kFailed") \in Seq(TaskState)
    BY <2>2, <2>3
  <2>5. [first EXCEPT ![f] = Append(@, "kFailed")] \in [Tasks -> Seq(TaskState)]
    BY <2>1, <2>4
  <2>6. QED
    BY <2>5 DEF first
<1>h. FailTask(t, states, told, actives)
  BY <1>d
<1>i. /\ state' \in [Tasks -> TaskState]
      /\ state'[t] \in {states[t], "kFailed"}
      /\ \A x \in Tasks \ {t} : state'[x] = states[x]
      /\ reports' \in [Tasks -> Seq(TaskState)]
      /\ active' \in [Sessions -> SUBSET Tasks]
      /\ exec' \in ThreadSet({"idle", "body", "finish", "await"})
      /\ exec'.pc = "idle"
  <2> HIDE DEF states, told, actives
  <2>1. QED
    BY <1>a, <1>f, <1>g, <1>h, FailTaskFacts
<1>j. S \subseteq Tasks /\ f \in Tasks /\ t \notin S
  BY <1>a, <1>b
<1>1. TypeOK'
  <2>1. deps' \in [Tasks -> SUBSET Tasks]
    BY <1>a, <1>d DEF TypeOK
  <2>2. QED
    BY <1>a, <1>e, <1>i, <2>1 DEF TypeOK, taskAttrs, sessionVars
<1>2. state'[t] \in {"kProcessing", "kFailed"}
  BY <1>a, <1>i, <1>j
<1>3. \A x \in Tasks \ {t} :
        \/ state'[x] = state[x]
        \/ state[x] = "kCreated" /\ state'[x] \in EndStates \ {"kDone"}
  BY <1>b, <1>c, <1>i
<1>4. \A x \in Tasks : /\ deps'[x] \subseteq deps[x]
                       /\ deps'[x] = {} \/ deps[x] \subseteq deps'[x] \cup {t}
  BY <1>d
<1>5. /\ KnownIsIssued' /\ CallbackHeld' /\ RunnerSound' /\ CallbacksSound'
      /\ WaitersSound' /\ DependenciesSound'
  BY <1>a, <1>e, <1>i, <1>2, <1>3, <1>4, FinishFrame DEF taskAttrs
<1>6. QueueSound' /\ QueueComplete'
  <2>1. \A x \in Tasks : state'[x] = "kQueued" <=> state[x] = "kQueued"
    BY <1>a, <1>2, <1>3
  <2>2. QED
    BY <1>e, <2>1, QueueStays
<1>7. QED
  BY <1>1, <1>5, <1>6 DEF SchedulerInv

\* The loop over the followers stops at one that is gone or in a wrong state.
LEMMA FinishStopsInLoopStep ==
  ASSUME SchedulerInv, FinishStopsInLoop
  PROVE  SchedulerInv'
<1> DEFINE t == exec.task
<1>a. TypeOK /\ t \in Tasks /\ state[t] = "kProcessing" /\ exec.pc = "finish"
  BY DEF SchedulerInv, RunnerSound, FinishStopsInLoop
<1>b. PICK S \in SUBSET {g \in Waiting(t) : ~BadFollower(t, g)} :
        /\ deps' = [x \in Tasks |-> IF x \in S THEN deps[x] \ {t} ELSE deps[x]]
        /\ \E q \in SetToSeqs(Ready(t, S)) : execQueue' = execQueue \o q
        /\ FailTask(t,
             [x \in Tasks |-> IF x \in Ready(t, S) THEN "kQueued" ELSE state[x]],
             Told(Ready(t, S), "kQueued"),
             active)
  BY DEF FinishStopsInLoop
<1> DEFINE R      == Ready(t, S)
           states == [x \in Tasks |-> IF x \in R THEN "kQueued" ELSE state[x]]
           told   == Told(R, "kQueued")
<1>c. UNCHANGED <<sessionVars, taskAttrs, following, cancelled, callback,
                  cbQueue, cb>>
  BY DEF FinishStopsInLoop
<1>d. S \subseteq {f \in Tasks : state[f] = "kCreated"} /\ R \subseteq S
  BY <1>a DEF BadFollower, Waiting, Ready, TypeOK
<1>e. states \in [Tasks -> TaskState] /\ active \in [Sessions -> SUBSET Tasks]
  BY <1>a DEF TypeOK, TaskState
<1>f. told \in [Tasks -> Seq(TaskState)]
  <2>1. "kQueued" \in TaskState
    BY DEF TaskState
  <2>2. QED
    BY <1>a, <2>1, ToldType
<1>g. FailTask(t, states, told, active)
  BY <1>b
<1>h. /\ state' \in [Tasks -> TaskState]
      /\ state'[t] \in {states[t], "kFailed"}
      /\ \A x \in Tasks \ {t} : state'[x] = states[x]
      /\ reports' \in [Tasks -> Seq(TaskState)]
      /\ active' \in [Sessions -> SUBSET Tasks]
      /\ exec' \in ThreadSet({"idle", "body", "finish", "await"})
      /\ exec'.pc = "idle"
  <2> HIDE DEF states, told
  <2>1. QED
    BY <1>a, <1>e, <1>f, <1>g, FailTaskFacts
<1>1. state'[t] \in {"kProcessing", "kFailed"} /\ t \notin R
  BY <1>a, <1>d, <1>h
<1>2. \A x \in Tasks \ {t} :
        \/ state'[x] = state[x]
        \/ /\ state[x] = "kCreated" /\ state'[x] = "kQueued"
           /\ deps[x] = {t} /\ deps'[x] = {}
  BY <1>b, <1>d, <1>h DEF Ready
<1>3. \A x \in Tasks : /\ deps'[x] \subseteq deps[x]
                       /\ deps[x] \subseteq deps'[x] \cup {t}
  BY <1>b
<1>4. execQueue' \in Seq(Tasks) /\ QueueSound' /\ QueueComplete'
  <2>1. PICK q \in SetToSeqs(R) : execQueue' = execQueue \o q
    BY <1>b
  <2>2. \A x \in Tasks : state'[x] = "kQueued" <=> x \in R \/ state[x] = "kQueued"
    BY <1>a, <1>d, <1>h, <1>1
  <2>3. UNCHANGED callback /\ R \subseteq Tasks
    BY <1>c, <1>d
  <2>4. QED
    BY <1>d, <2>1, <2>2, <2>3, QueueGrows
<1>5. TypeOK'
  <2>1. deps' \in [Tasks -> SUBSET Tasks]
    BY <1>a, <1>b DEF TypeOK
  <2>2. QED
    BY <1>a, <1>c, <1>h, <1>4, <2>1 DEF TypeOK, taskAttrs, sessionVars
<1>6. /\ KnownIsIssued' /\ CallbackHeld' /\ RunnerSound' /\ CallbacksSound'
      /\ WaitersSound' /\ DependenciesSound'
  BY <1>a, <1>c, <1>h, <1>1, <1>2, <1>3, FinishFrame DEF taskAttrs
<1>7. QED
  BY <1>4, <1>5, <1>6 DEF SchedulerInv

-----------------------------------------------------------------------------
(* The theorems.                                                           *)

\* Every operation of a client keeps the invariant.
LEMMA ClientStep ==
  ASSUME SchedulerInv, Client
  PROVE  SchedulerInv'
<1>1. CASE \E s \in Sessions : \/ RegisterNewSession(s)
                               \/ ReleaseSession(s)
                               \/ CancelAllTasksInSession(s)
  BY <1>1, SessionStep, CancelStep DEF CancelAllTasksInSession
<1>2. CASE \E t \in Tasks : \E d \in {t} \cup requested[t] : CancelTasks({d, t})
  BY <1>2, CancelStep DEF CancelTasks
<1>3. CASE \E s \in registered, t \in Tasks, k \in Kinds, flag \in BOOLEAN :
             \E c \in CloneTargets(s, k), D \in SUBSET issued :
                /\ Cardinality(D) <= MaxDeps
                /\ CreateTask(s, t, k, c, D, flag)
  <2>1. PICK s \in registered, t \in Tasks, k \in Kinds, flag \in BOOLEAN :
           \E c \in CloneTargets(s, k), D \in SUBSET issued :
              CreateTask(s, t, k, c, D, flag)
    BY <1>3
  <2>2. PICK c \in CloneTargets(s, k), D \in SUBSET issued :
           CreateTask(s, t, k, c, D, flag)
    BY <2>1
  <2>3. s \in Sessions /\ c \in Sessions \cup {NoSession}
    BY DEF CloneTargets, SchedulerInv, TypeOK
  <2>4. /\ t \notin issued /\ issued' = issued \cup {t}
        /\ CreateTaskFails(s, t, D) \/ CreateTaskSucceeds(s, t, k, c, D, flag)
        /\ UNCHANGED <<sessionVars, exec, cbQueue, cb>>
    BY <2>2 DEF CreateTask
  <2>5. CASE CreateTaskFails(s, t, D)
    BY <2>4, <2>5, CreateFailsStep
  <2>6. CASE CreateTaskSucceeds(s, t, k, c, D, flag)
    BY <2>3, <2>4, <2>6, CreateSucceedsStep
  <2>7. QED
    BY <2>4, <2>5, <2>6
<1>4. QED
  BY <1>1, <1>2, <1>3 DEF Client

\* Every step keeps the invariant.
LEMMA NextInv == SchedulerInv /\ [Next]_vars => SchedulerInv'
<1> SUFFICES ASSUME SchedulerInv, [Next]_vars PROVE SchedulerInv'
  OBVIOUS
<1>1. CASE Client
  BY <1>1, ClientStep
<1>2. CASE ExecutionThread
  BY <1>2, StartStep, ThreadStep, FinishUnsuccessfullyStep,
     FinishSuccessfullyStep, FinishRefusedStep, FinishStopsInCascadeStep,
     FinishStopsInLoopStep
  DEF ExecutionThread, FinishTask
<1>3. CASE CallbackThread
  BY <1>3, CallbackBeginStep, CallbackEndStep DEF CallbackThread
<1>4. CASE UNCHANGED vars
  <2>1. TypeOK'
    BY <1>4 DEF vars, SchedulerInv, TypeOK
  <2>2. QED
    BY <1>4, <2>1, FrameInv DEF vars
<1>5. QED
  BY <1>1, <1>2, <1>3, <1>4 DEF Next

\* The invariant holds in every reachable state.
THEOREM SchedulerInvariant == Spec => []SchedulerInv
  BY InitInv, NextInv, PTL DEF Spec

\* Type correctness of the scheduler.
THEOREM TypeCorrect == Spec => []TypeOK
<1>1. SchedulerInv => TypeOK
  BY DEF SchedulerInv
<1>2. QED
  BY <1>1, SchedulerInvariant, PTL

\* What the invariant means for dependencies and for the execution queue.
LEMMA SchedulerProperties == SchedulerInv => RunsAfterDependencies /\ QueueExact
<1>1. SchedulerInv => RunsAfterDependencies
  <2>1. ASSUME SchedulerInv, NEW t \in Tasks, state[t] \in Launched,
               NEW d \in requested[t]
        PROVE  PastRun(d)
    <3>1. deps[t] = {}
      BY <2>1 DEF SchedulerInv, WaitersSound, Launched
    <3>2. QED
      BY <2>1, <3>1 DEF SchedulerInv, DependenciesSound
  <2>2. QED
    BY <2>1 DEF RunsAfterDependencies
<1>2. SchedulerInv => QueueExact
  BY DEF SchedulerInv, QueueSound, QueueComplete, QueueExact
<1>3. QED
  BY <1>1, <1>2

\* No task is handed to the execution thread before the body of each of its
\* dependencies is over, whatever the interleaving of AddTask and FinishTask.
THEOREM DependenciesRunFirst == Spec => []RunsAfterDependencies
  BY SchedulerProperties, SchedulerInvariant, PTL

\* The execution pool holds exactly the queued tasks, each once.
THEOREM ExecutionQueueExact == Spec => []QueueExact
  BY SchedulerProperties, SchedulerInvariant, PTL

\* A step tells or moves only tasks that have not ended.
LEMMA EndedUntouched ==
  ASSUME SchedulerInv, [Next]_vars, NEW x \in Tasks, Ended(x)
  PROVE  state'[x] = state[x] /\ reports'[x] = reports[x]
<1>a. TypeOK
  BY DEF SchedulerInv
<1>b. exec.pc \in {"body", "finish"} =>
        /\ exec.task \in Tasks /\ exec.task # x /\ state[exec.task] = "kProcessing"
  BY DEF SchedulerInv, RunnerSound
<1>c. \A S : x \notin S => \A r : Told(S, r)[x] = reports[x]
  BY DEF Told
<1>1. CASE Client
  <2>1. CASE UNCHANGED <<state, reports>>
    BY <2>1
  <2>2. CASE \E s \in registered, t \in Tasks, k \in Kinds, flag \in BOOLEAN :
               \E c \in CloneTargets(s, k), D \in SUBSET issued :
                  CreateTask(s, t, k, c, D, flag)
    <3>1. PICK s \in registered, t \in Tasks, k \in Kinds, flag \in BOOLEAN :
             \E c \in CloneTargets(s, k), D \in SUBSET issued :
                CreateTask(s, t, k, c, D, flag)
      BY <2>2
    <3>2. PICK c \in CloneTargets(s, k), D \in SUBSET issued :
             CreateTask(s, t, k, c, D, flag)
      BY <3>1
    <3>3. t # x
      BY <3>2 DEF CreateTask, SchedulerInv, KnownIsIssued
    <3>4. CASE CreateTaskFails(s, t, D)
      BY <3>4 DEF CreateTaskFails
    <3>5. CASE CreateTaskSucceeds(s, t, k, c, D, flag)
      <4>1. \E v : state' = [state EXCEPT ![t] = v]
        BY <3>5 DEF CreateTaskSucceeds
      <4>2. \E v : reports' = [reports EXCEPT ![t] = v]
        BY <3>5 DEF CreateTaskSucceeds
      <4>3. QED
        BY <1>a, <3>3, <4>1, <4>2 DEF TypeOK
    <3>6. QED
      BY <3>2, <3>4, <3>5 DEF CreateTask
  <2>3. QED
    BY <1>1, <2>1, <2>2
    DEF Client, RegisterNewSession, ReleaseSession, CancelAllTasksInSession,
        CancelTasks, SetCancelled
<1>2. CASE StartTask
  <2> DEFINE t == Head(execQueue)
  <2>1. execQueue # <<>> /\ t = execQueue[1] /\ 1 \in 1..Len(execQueue) /\ t \in Tasks
    BY <1>2, <1>a DEF StartTask, TypeOK
  <2>2. state[t] = "kQueued" /\ t # x /\ t \in callback
    BY <2>1 DEF SchedulerInv, QueueSound, QueueComplete
  <2>3. StartAnswer(t) \in {"started", "noSession"}
    BY <2>2 DEF StartAnswer
  <2>4. /\ state' = [state EXCEPT ![t] = "kProcessing"]
        /\ reports' = Told({t}, "kProcessing")
    BY <1>2, <2>3 DEF StartTask
  <2>5. QED
    BY <1>a, <1>c, <2>2, <2>4 DEF TypeOK
<1>3. CASE DecodeStep \/ RunBody \/ DecodeBufferFails \/ AwaitCallbacks
  <2>1. \/ UNCHANGED <<state, reports>>
        \/ /\ exec.pc = "body" /\ state' = state
           /\ \E r \in TaskState : reports' = Told({exec.task}, r)
    BY <1>3 DEF DecodeStep, RunBody, DecodeBufferFails, AwaitCallbacks, TaskState
  <2>2. QED
    BY <1>b, <1>c, <2>1
<1>4. CASE FinishUnsuccessfully
  <2> DEFINE F == FollowingWaitingTasks(exec.task)
  <2>1. x \notin F /\ x # exec.task
    BY <1>4, <1>b, CascadeTasks DEF FinishUnsuccessfully
  <2>2. \E r : reports' = Told(F, r)
    BY <1>4 DEF FinishUnsuccessfully
  <2>3. state'[x] = state[x]
    BY <1>4, <2>1 DEF FinishUnsuccessfully
  <2>4. QED
    BY <1>c, <2>1, <2>2, <2>3
<1>5. CASE FinishSuccessfully
  <2> DEFINE R == Ready(exec.task, Waiting(exec.task))
  <2>1. x \notin R /\ x # exec.task
    BY <1>5, <1>b DEF FinishSuccessfully, Ready, Waiting
  <2>2. reports' = Told(R, "kQueued")
    BY <1>5 DEF FinishSuccessfully
  <2>3. state'[x] = state[x]
    BY <1>5, <1>a, <2>1 DEF FinishSuccessfully, Advance, TypeOK
  <2>4. QED
    BY <1>c, <2>1, <2>2, <2>3
<1>d. ASSUME NEW states, NEW told, NEW actives, exec.pc = "finish",
             FailTask(exec.task, states, told, actives),
             states \in [Tasks -> TaskState], told \in [Tasks -> Seq(TaskState)]
      PROVE  state'[x] = states[x] /\ reports'[x] = told[x]
  <2>1. state' \in {states, [states EXCEPT ![exec.task] = "kFailed"]}
    BY <1>d DEF FailTask
  <2>2. reports' \in {told, [told EXCEPT ![exec.task] = Append(@, "kFailed")]}
    BY <1>d DEF FailTask
  <2>3. QED
    BY <1>b, <1>d, <2>1, <2>2
<1>6. CASE FinishRefused
  <2>1. /\ exec.pc = "finish" /\ FailTask(exec.task, state, reports, active)
        /\ state \in [Tasks -> TaskState] /\ reports \in [Tasks -> Seq(TaskState)]
    BY <1>6, <1>a DEF FinishRefused, TypeOK
  <2>2. QED
    BY <1>d, <2>1
<1>7. CASE FinishStopsInCascade
  <2> DEFINE t == exec.task
             F == FollowingWaitingTasks(t)
             s == DependentState(exec.result)
  <2>1. exec.pc = "finish" /\ x \notin F /\ F \subseteq Tasks
    BY <1>7, <1>b, CascadeTasks DEF FinishStopsInCascade
  <2>2. PICK f \in F, S \in SUBSET F :
          FailTask(t, [y \in Tasks |-> IF y \in S THEN s ELSE state[y]],
                   [Told(S \cup {f}, s) EXCEPT ![f] = Append(@, "kFailed")],
                   [o \in Sessions |-> active[o] \ S])
    BY <1>7 DEF FinishStopsInCascade
  <2> DEFINE first == Told(S \cup {f}, s)
  <2>3. reports'[x] = reports[x]
    <3>1. first[x] = reports[x] /\ DOMAIN first = Tasks
      BY <1>c, <2>1 DEF Told
    <3>2. f # x /\ exec.task # x
      BY <1>b, <2>1
    <3>3. reports' \in {[first EXCEPT ![f] = Append(@, "kFailed")],
                        [[first EXCEPT ![f] = Append(@, "kFailed")]
                            EXCEPT ![t] = Append(@, "kFailed")]}
      BY <2>2 DEF FailTask
    <3> HIDE DEF first
    <3>4. QED
      BY <3>1, <3>2, <3>3
  <2>4. state'[x] = state[x]
    BY <1>b, <2>1, <2>2 DEF FailTask
  <2>5. QED
    BY <2>3, <2>4
<1>8. CASE FinishStopsInLoop
  <2> DEFINE t == exec.task
  <2>1. exec.pc = "finish"
    BY <1>8 DEF FinishStopsInLoop
  <2>2. PICK S \in SUBSET Waiting(t) :
          FailTask(t,
            [y \in Tasks |-> IF y \in Ready(t, S) THEN "kQueued" ELSE state[y]],
            Told(Ready(t, S), "kQueued"), active)
    BY <1>8 DEF FinishStopsInLoop
  <2>3. x \notin Ready(t, S)
    BY <2>2 DEF Ready, Waiting
  <2>4. state'[x] = state[x]
    BY <1>b, <2>1, <2>2, <2>3 DEF FailTask
  <2>5. reports'[x] = Told(Ready(t, S), "kQueued")[x]
    BY <1>b, <2>1, <2>2 DEF FailTask, Told
  <2>6. QED
    BY <1>c, <2>3, <2>4, <2>5
<1>9. CASE CallbackBegin
  <2> DEFINE e == Head(cbQueue)
  <2>1. e = cbQueue[1] /\ 1 \in 1..Len(cbQueue)
    BY <1>9, <1>a DEF CallbackBegin, TypeOK
  <2>2. e.task # x
    BY <2>1 DEF SchedulerInv, CallbacksSound
  <2>3. state' = state /\ (reports' = reports \/ reports' = Told({e.task}, e.result))
    BY <1>9 DEF CallbackBegin
  <2>4. QED
    BY <1>c, <2>2, <2>3
<1>10. CASE CallbackEnd
  <2>1. cb.task # x
    BY <1>10 DEF CallbackEnd, SchedulerInv, CallbacksSound
  <2>2. /\ state' \in {state, [state EXCEPT ![cb.task] = cb.result]}
        /\ reports' \in {reports, Told({cb.task}, "kFailed")}
    BY <1>10 DEF CallbackEnd
  <2>3. state'[x] = state[x]
    BY <1>a, <2>1, <2>2 DEF TypeOK
  <2>4. reports'[x] = reports[x]
    BY <1>c, <2>1, <2>2
  <2>5. QED
    BY <2>3, <2>4
<1>11. CASE UNCHANGED vars
  BY <1>11 DEF vars
<1>12. QED
  BY <1>1, <1>2, <1>3, <1>4, <1>5, <1>6, <1>7, <1>8, <1>9, <1>10, <1>11
  DEF Next, ExecutionThread, CallbackThread, FinishTask

\* The outcome of a task is final, and its callback is not called after it.
THEOREM OutcomeIsFinal == Spec => EndIsFinal
<1>1. SchedulerInv /\ [Next]_vars =>
        [\A t \in Tasks : Ended(t) =>
            state'[t] = state[t] /\ reports'[t] = reports[t]]_vars
  BY EndedUntouched
<1>2. QED
  BY <1>1, SchedulerInvariant, PTL DEF Spec, EndIsFinal

-----------------------------------------------------------------------------
(* What a waiter is told: the facts about one task.                        *)

\* The reports of a task that has ended say so, and say it last.
EndReported(t) == Ended(t) =>
    /\ reports[t] # <<>>
    /\ Last(reports[t]) = state[t]
    /\ \A i \in 1..(Len(reports[t]) - 1) : ~IsTaskEndState(reports[t][i])

\* The invariant as a statement about each task.
LEMMA OutcomePerTask ==
  ASSUME NEW x \in Tasks, OutcomeInv
  PROVE  ReportSound(x) /\ EndReported(x)
  BY DEF OutcomeInv, ReportsSound, EndedMeansReported, EndReported

LEMMA OutcomeFromTasks ==
  ASSUME \A x \in Tasks : ReportSound(x)' /\ EndReported(x)'
  PROVE  ReportsSound' /\ EndedMeansReported'
  BY DEF ReportsSound, EndedMeansReported, EndReported

\* One more report at the end of a task's history.
LEMMA OneMoreReport ==
  ASSUME TypeOK, NEW x \in Tasks, NEW r \in TaskState,
         reports'[x] = Append(reports[x], r)
  PROVE  /\ Len(reports[x]) \in Nat
         /\ Len(reports'[x]) = Len(reports[x]) + 1
         /\ \A i \in 1..Len(reports[x]) : reports'[x][i] = reports[x][i]
         /\ reports'[x][Len(reports'[x])] = r
         /\ reports'[x] # <<>> /\ Last(reports'[x]) = r
<1>1. reports[x] \in Seq(TaskState)
  BY DEF TypeOK
<1>2. QED
  BY <1>1 DEF Last

\* A task that may still end and is told a state that is no end state.
LEMMA ToldMore ==
  ASSUME TypeOK, NEW x \in Tasks, NEW r \in TaskState, ReportSound(x),
         MayStillEnd(x), ~Delivering(x), ~Delivering(x)', ~Ended(x)',
         reports'[x] = Append(reports[x], r), ~IsTaskEndState(r)
  PROVE  ReportSound(x)' /\ EndReported(x)'
<1>1. \A i \in 1..Len(reports[x]) : ~IsTaskEndState(reports[x][i])
  BY DEF ReportSound
<1>2. \A i \in 1..Len(reports'[x]) : ~IsTaskEndState(reports'[x][i])
  <2>1. \A i \in 1..Len(reports'[x]) : i \in 1..Len(reports[x]) \/ i = Len(reports'[x])
    BY OneMoreReport
  <2>2. QED
    BY <1>1, <2>1, OneMoreReport
<1>3. QED
  BY <1>2 DEF ReportSound, EndReported

\* A task that may still end and is told the end state it moves to.
LEMMA ToldEnd ==
  ASSUME TypeOK, NEW x \in Tasks, NEW r \in TaskState, ReportSound(x),
         MayStillEnd(x), ~Delivering(x), ~MayStillEnd(x)', state'[x] = r,
         reports'[x] = Append(reports[x], r)
  PROVE  ReportSound(x)' /\ EndReported(x)'
<1>1. \A i \in 1..Len(reports[x]) : ~IsTaskEndState(reports[x][i])
  BY DEF ReportSound
<1>2. EndReported(x)'
  <2>1. \A i \in 1..(Len(reports'[x]) - 1) : i \in 1..Len(reports[x])
    BY OneMoreReport
  <2>2. QED
    BY <1>1, <2>1, OneMoreReport DEF EndReported
<1>3. QED
  BY <1>2 DEF ReportSound

\* A task whose session is gone, or that has left the thread without an end,
\* has no outcome to promise.
LEMMA NoOutcome ==
  ASSUME NEW x \in Tasks, ~Ended(x)', ~MayStillEnd(x)'
  PROVE  ReportSound(x)' /\ EndReported(x)'
  BY DEF ReportSound, EndReported

\* A task the step does not touch.
LEMMA TaskFrame ==
  ASSUME NEW x \in Tasks, ReportSound(x), EndReported(x),
         state'[x] = state[x], reports'[x] = reports[x],
         MayStillEnd(x)' => MayStillEnd(x),
         Delivering(x)' <=> Delivering(x), cb' = cb \/ ~Delivering(x)
  PROVE  ReportSound(x)' /\ EndReported(x)'
<1>1. EndReported(x)'
  BY DEF EndReported
<1>2. ReportSound(x)'
  <2>1. CASE MayStillEnd(x)'
    BY <2>1 DEF ReportSound
  <2>2. CASE ~MayStillEnd(x)'
    BY <2>2 DEF ReportSound
  <2>3. QED
    BY <2>1, <2>2
<1>3. QED
  BY <1>1, <1>2

\* A task that has not ended is an active task of its session, so it may end as
\* long as the session is there.
LEMMA MayEndLive ==
  ASSUME TypeOK, OutcomeInv, NEW x \in Tasks, Known(x), ~Ended(x)
  PROVE  /\ owner[x] \in Sessions
         /\ MayEnd(x) <=> owner[x] \in live
<1>1. owner[x] \in Sessions
  BY DEF TypeOK, OutcomeInv, OwnersRegistered
<1>2. x \in active[owner[x]]
  BY <1>1 DEF OutcomeInv, ActiveTasksExact
<1>3. QED
  BY <1>1, <1>2 DEF MayEnd

\* Ending the tasks of E takes them from the active tasks of their sessions.
LEMMA ActiveShrinks ==
  ASSUME ActiveTasksExact, UNCHANGED owner, NEW E,
         \A s \in Sessions : active'[s] = active[s] \ E,
         \A x \in Tasks \ E : Known(x)' = Known(x) /\ Ended(x)' = Ended(x),
         \A x \in Tasks \cap E : Ended(x)'
  PROVE  ActiveTasksExact'
  BY DEF ActiveTasksExact

\* The threads carry over the facts about the callbacks they have taken.
LEMMA CallbacksStay ==
  ASSUME OutcomeInv, UNCHANGED <<owner, live, cancelled, cbQueue, cb>>,
         exec'.pc \in {"body", "finish"} /\ exec'.mute => owner[exec'.task] \notin live
  PROVE  MutedGone' /\ DoneUncancelled'
  BY DEF OutcomeInv, MutedGone, DoneUncancelled

LEMMA CallbacksQueued ==
  ASSUME TypeOK, OutcomeInv, exec.pc = "finish", QueueLastCallback(exec.task),
         exec.task \in Tasks, UNCHANGED <<owner, live, cancelled, cb>>
  PROVE  MutedGone' /\ DoneUncancelled'
<1> DEFINE e == Entry(exec.task, exec.result, exec.mute)
<1>1. e.task = exec.task /\ e.result = exec.result /\ e.mute = exec.mute
  BY DEF Entry
<1>2. /\ Len(cbQueue) \in Nat /\ Len(cbQueue') = Len(cbQueue) + 1
      /\ \A i \in 1..Len(cbQueue) : cbQueue'[i] = cbQueue[i]
      /\ cbQueue'[Len(cbQueue) + 1] = e
  <2>1. cbQueue \in Seq(EntrySet) /\ e \in EntrySet
    BY ThreadTypes DEF TypeOK, Entry, EntrySet
  <2>2. QED
    BY <2>1 DEF QueueLastCallback
<1>3. \A i \in 1..Len(cbQueue') : i \in 1..Len(cbQueue) \/ i = Len(cbQueue) + 1
  BY <1>2
<1>4. exec'.pc = "await"
  BY LastCallbackQueued
<1>5. e.mute => owner[e.task] \notin live
  BY <1>1 DEF OutcomeInv, MutedGone
<1>6. e.result = "kDone" => e.task \notin cancelled
  BY <1>1 DEF OutcomeInv, CancelHonoured
<1> HIDE DEF e
<1>7. MutedGone'
  BY <1>2, <1>3, <1>4, <1>5 DEF OutcomeInv, MutedGone
<1>8. DoneUncancelled'
  BY <1>2, <1>3, <1>6 DEF OutcomeInv, DoneUncancelled
<1>9. QED
  BY <1>7, <1>8

-----------------------------------------------------------------------------
(* One lemma for each kind of step.                                        *)

LEMMA InitOutcome == Init => OutcomeInv
  BY DEF Init, OutcomeInv, OwnersRegistered, ActiveTasksExact, ReportsSound,
         ReportSound, MayStillEnd, Running, EndedMeansReported, MutedGone,
         DoneUncancelled, CancelHonoured, IdleThread, Thread

\* A step that changes nothing the invariant is about.
LEMMA OutcomeFrame ==
  ASSUME OutcomeInv,
         UNCHANGED <<registered, live, active, state, owner, cancelled, exec,
                     cbQueue, cb, reports>>
  PROVE  OutcomeInv'
  BY DEF OutcomeInv, OwnersRegistered, ActiveTasksExact, ReportsSound,
         ReportSound, MayStillEnd, Running, Delivering, EndedMeansReported,
         MutedGone, DoneUncancelled, CancelHonoured

\* A session id is used once, so no task has waited for a new session; and what
\* a released session leaves behind never ends.
LEMMA SessionOutcome ==
  ASSUME SchedulerInv, OutcomeInv, NEW s \in Sessions,
         RegisterNewSession(s) \/ ReleaseSession(s)
  PROVE  OutcomeInv'
<1>a. /\ TypeOK /\ registered \subseteq registered'
      /\ UNCHANGED <<active, state, owner, cancelled, exec, cbQueue, cb, reports>>
  BY DEF SchedulerInv, RegisterNewSession, ReleaseSession, taskAttrs
<1>b. \A x \in Tasks : Known(x) /\ owner[x] \in live' => owner[x] \in live
  BY DEF OutcomeInv, OwnersRegistered, RegisterNewSession, ReleaseSession
<1>c. \A x \in Tasks : Running(x) => Known(x)
  BY DEF SchedulerInv, RunnerSound, Running
<1>1. OwnersRegistered'
  BY <1>a DEF OutcomeInv, OwnersRegistered
<1>2. ActiveTasksExact'
  BY <1>a DEF OutcomeInv, ActiveTasksExact
<1>3. ReportsSound' /\ EndedMeansReported'
  <2>1. ASSUME NEW x \in Tasks
        PROVE  ReportSound(x)' /\ EndReported(x)'
    <3>1. MayStillEnd(x)' => MayStillEnd(x)
      BY <1>a, <1>b, <1>c DEF MayStillEnd, Running
    <3>2. Delivering(x)' <=> Delivering(x)
      BY <1>a DEF Delivering
    <3>3. QED
      BY <1>a, <3>1, <3>2, OutcomePerTask, TaskFrame
  <2>2. QED
    BY <2>1, OutcomeFromTasks
<1>4. MutedGone'
  <2>1. \A i \in 1..Len(cbQueue) : cbQueue[i].task \in Tasks /\ Known(cbQueue[i].task)
    BY <1>a, EntryTasks DEF SchedulerInv, CallbacksSound
  <2>2. cb.pc = "called" => cb.task \in Tasks /\ Known(cb.task)
    BY DEF SchedulerInv, CallbacksSound
  <2>3. exec.pc \in {"body", "finish"} => exec.task \in Tasks /\ Known(exec.task)
    BY DEF SchedulerInv, RunnerSound
  <2>4. QED
    BY <1>a, <1>b, <2>1, <2>2, <2>3 DEF OutcomeInv, MutedGone
<1>5. DoneUncancelled' /\ CancelHonoured'
  BY <1>a DEF OutcomeInv, DoneUncancelled, CancelHonoured
<1>6. QED
  BY <1>1, <1>2, <1>3, <1>4, <1>5 DEF OutcomeInv

\* A flag is set only while the task that reads it is still to read it.
LEMMA CancelOutcome ==
  ASSUME SchedulerInv, OutcomeInv, NEW S, SetCancelled(S)
  PROVE  OutcomeInv'
<1>a. /\ TypeOK
      /\ UNCHANGED <<registered, live, active, state, owner, exec, cbQueue, cb,
                     reports>>
      /\ cancelled' \subseteq cancelled \cup ReadsFlag
  BY DEF SchedulerInv, SetCancelled, taskAttrs, sessionVars
<1>1. OwnersRegistered' /\ ActiveTasksExact' /\ MutedGone'
  BY <1>a DEF OutcomeInv, OwnersRegistered, ActiveTasksExact, MutedGone
<1>2. ReportsSound' /\ EndedMeansReported'
  BY <1>a DEF OutcomeInv, ReportsSound, ReportSound, MayStillEnd, Running,
              Delivering, EndedMeansReported
<1>3. DoneUncancelled'
  <2>1. \A x \in ReadsFlag : state[x] # "kLastCallbackQueued"
    BY DEF ReadsFlag, SchedulerInv, RunnerSound
  <2>2. QED
    BY <1>a, <2>1 DEF OutcomeInv, DoneUncancelled, SchedulerInv, CallbacksSound
<1>4. CancelHonoured'
  <2>1. \A x \in ReadsFlag : /\ state[x] # "kDone"
                             /\ ~(exec.pc = "finish" /\ exec.task = x)
    BY DEF ReadsFlag, SchedulerInv, RunnerSound
  <2>2. QED
    BY <1>a, <2>1 DEF OutcomeInv, CancelHonoured
<1>5. QED
  BY <1>1, <1>2, <1>3, <1>4 DEF OutcomeInv

LEMMA CreateOutcome ==
  ASSUME SchedulerInv, OutcomeInv, NEW s \in Sessions, NEW t \in Tasks,
         NEW k, NEW c, NEW D, NEW flag \in BOOLEAN,
         t \notin issued, CreateTaskSucceeds(s, t, k, c, D, flag),
         UNCHANGED <<sessionVars, exec, cbQueue, cb>>
  PROVE  OutcomeInv'
<1> DEFINE initial == InitialState(D)
           queued  == initial = "kCreated" /\ Unfinished(D) = {}
<1>a. TypeOK /\ state[t] = "kUnknown" /\ s \in registered
  BY DEF SchedulerInv, TypeOK, KnownIsIssued, CreateTaskSucceeds
<1>b. /\ initial \in EndStates \cup {"kCreated"}
      /\ initial \notin {"kDone", "kUnknown"}
  BY InitialStateType
<1>c. /\ state' = [state EXCEPT ![t] = IF queued THEN "kQueued" ELSE initial]
      /\ owner' = [owner EXCEPT ![t] = s]
      /\ reports' = [reports EXCEPT ![t] = IF queued THEN <<"kCreated", "kQueued">>
                                                     ELSE <<initial>>]
      /\ active' = [active EXCEPT ![s] =
                      IF IsTaskEndState(initial) THEN @ ELSE @ \cup {t}]
      /\ cancelled' \subseteq cancelled \cup {t}
      /\ UNCHANGED <<registered, live, exec, cbQueue, cb>>
  BY DEF CreateTaskSucceeds, sessionVars
<1> HIDE DEF initial, queued
<1>d. /\ state'[t] = IF queued THEN "kQueued" ELSE initial
      /\ owner'[t] = s
      /\ reports'[t] = IF queued THEN <<"kCreated", "kQueued">> ELSE <<initial>>
      /\ \A x \in Tasks \ {t} : /\ state'[x] = state[x] /\ owner'[x] = owner[x]
                                /\ reports'[x] = reports[x]
  BY <1>a, <1>c DEF TypeOK
<1>e. queued => initial = "kCreated"
  BY DEF queued
<1>f. /\ \A i \in 1..Len(cbQueue) : cbQueue[i].task \in Tasks \ {t}
      /\ cb.pc = "called" => cb.task \in Tasks \ {t}
      /\ exec.pc \in {"body", "finish"} => exec.task \in Tasks \ {t}
  BY <1>a, EntryTasks DEF SchedulerInv, CallbacksSound, RunnerSound
<1>1. OwnersRegistered'
  BY <1>a, <1>c, <1>d DEF OutcomeInv, OwnersRegistered
<1>2. ActiveTasksExact'
  <2>1. ASSUME NEW o \in Sessions
        PROVE  active'[o] = {x \in Tasks : owner'[x] = o /\ Known(x)' /\ ~Ended(x)'}
    <3>1. active[o] = {x \in Tasks : owner[x] = o /\ Known(x) /\ ~Ended(x)}
      BY DEF OutcomeInv, ActiveTasksExact
    <3>2. active'[o] = IF o = s /\ ~IsTaskEndState(initial)
                       THEN active[o] \cup {t} ELSE active[o]
      BY <1>a, <1>c DEF TypeOK
    <3>3. /\ Known(t)' /\ (Ended(t)' <=> IsTaskEndState(initial))
          /\ t \notin active[o]
      BY <1>a, <1>b, <1>d, <1>e, <3>1
    <3>4. QED
      BY <1>d, <3>1, <3>2, <3>3
  <2>2. QED
    BY <2>1 DEF ActiveTasksExact
<1>3. ReportsSound' /\ EndedMeansReported'
  <2>1. ASSUME NEW x \in Tasks \ {t}
        PROVE  ReportSound(x)' /\ EndReported(x)'
    <3>1. MayStillEnd(x)' => MayStillEnd(x)
      BY <1>c, <1>d DEF MayStillEnd, Running
    <3>2. Delivering(x)' <=> Delivering(x)
      BY <1>c DEF Delivering
    <3>3. QED
      BY <1>c, <1>d, <3>1, <3>2, OutcomePerTask, TaskFrame
  <2>2. ReportSound(t)' /\ EndReported(t)'
    <3>1. CASE Ended(t)'
      <4>1. reports'[t] = <<initial>> /\ state'[t] = initial
        BY <1>d, <3>1
      <4>2. Last(<<initial>>) = initial /\ Len(<<initial>>) = 1 /\ <<initial>> # <<>>
        BY DEF Last
      <4>3. ~MayStillEnd(t)'
        BY <1>c, <1>f, <3>1 DEF MayStillEnd, Running
      <4>4. QED
        BY <4>1, <4>2, <4>3 DEF ReportSound, EndReported
    <3>2. CASE ~Ended(t)'
      <4>1. reports'[t] \in {<<"kCreated", "kQueued">>, <<"kCreated">>}
        BY <1>b, <1>d, <1>e, <3>2
      <4>2. \A i \in 1..Len(reports'[t]) : ~IsTaskEndState(reports'[t][i])
        BY <4>1
      <4>3. ~Delivering(t)'
        BY <1>c, <1>f DEF Delivering
      <4>4. QED
        BY <3>2, <4>2, <4>3 DEF ReportSound, EndReported
    <3>3. QED
      BY <3>1, <3>2
  <2>3. QED
    BY <2>1, <2>2, OutcomeFromTasks
<1>4. MutedGone' /\ DoneUncancelled'
  BY <1>c, <1>d, <1>f DEF OutcomeInv, MutedGone, DoneUncancelled
<1>5. CancelHonoured'
  BY <1>b, <1>c, <1>d, <1>f, <1>a DEF OutcomeInv, CancelHonoured, TypeOK
<1>6. QED
  BY <1>1, <1>2, <1>3, <1>4, <1>5 DEF OutcomeInv

\* StartTask replaces the callback by the no-op only if the session is gone.
LEMMA StartOutcome ==
  ASSUME SchedulerInv, OutcomeInv, StartTask
  PROVE  OutcomeInv'
<1>0. PICK t \in Tasks : t = Head(execQueue) /\ t = execQueue[1]
  BY DEF SchedulerInv, TypeOK, StartTask
<1> DEFINE answer == StartAnswer(t)
<1>a. /\ TypeOK /\ exec.pc = "idle" /\ state[t] = "kQueued" /\ t \in callback
  <2>1. /\ TypeOK /\ exec.pc = "idle" /\ execQueue # <<>>
    BY DEF SchedulerInv, StartTask
  <2>2. 1 \in 1..Len(execQueue)
    BY <2>1 DEF TypeOK
  <2>3. QED
    BY <1>0, <2>1, <2>2 DEF SchedulerInv, QueueSound, QueueComplete
<1>b. \/ answer = "started"
      \/ answer = "noSession" /\ owner[t] \notin live
  BY <1>a DEF StartAnswer
<1>c. /\ state' = [state EXCEPT ![t] = "kProcessing"]
      /\ reports' = Told({t}, "kProcessing")
      /\ UNCHANGED <<registered, live, active, owner, cancelled, cbQueue, cb>>
  BY <1>0, <1>b DEF StartTask, taskAttrs, sessionVars
<1>d. \/ exec' = Thread("finish", t, "kCancelled", FALSE)
      \/ exec' = Thread("body", t, "kDone", FALSE)
      \/ exec' = Thread("finish", t, "kFailed", TRUE) /\ owner[t] \notin live
  BY <1>0, <1>b DEF StartTask
<1>e. /\ exec'.pc \in {"body", "finish"} /\ exec'.task = t
      /\ exec'.mute => owner[t] \notin live
      /\ exec'.pc = "finish" => exec'.result # "kDone"
  BY <1>d DEF Thread
<1>f. /\ state'[t] = "kProcessing"
      /\ reports'[t] = Append(reports[t], "kProcessing")
      /\ \A x \in Tasks \ {t} : state'[x] = state[x] /\ reports'[x] = reports[x]
  BY <1>a, <1>c DEF TypeOK, Told
<1>1. OwnersRegistered'
  BY <1>a, <1>c, <1>f DEF OutcomeInv, OwnersRegistered
<1>2. ActiveTasksExact'
  <2>1. \A x \in Tasks : Known(x)' = Known(x) /\ Ended(x)' = Ended(x)
    BY <1>a, <1>f
  <2>2. QED
    BY <1>c, <2>1 DEF OutcomeInv, ActiveTasksExact
<1>3. ReportsSound' /\ EndedMeansReported'
  <2>1. ASSUME NEW x \in Tasks \ {t}
        PROVE  ReportSound(x)' /\ EndReported(x)'
    <3>1. MayStillEnd(x)' => MayStillEnd(x)
      BY <1>c, <1>e, <1>f DEF MayStillEnd, Running
    <3>2. Delivering(x)' <=> Delivering(x)
      BY <1>c DEF Delivering
    <3>3. QED
      BY <1>c, <1>f, <3>1, <3>2, OutcomePerTask, TaskFrame
  <2>2. ReportSound(t)' /\ EndReported(t)'
    <3>1. ~Delivering(t) /\ ~Delivering(t)'
      BY <1>a, <1>c DEF Delivering, SchedulerInv, CallbacksSound
    <3>2. CASE owner[t] \in live
      <4>1. MayStillEnd(t)
        BY <1>a, <3>2 DEF MayStillEnd
      <4>2. "kProcessing" \in TaskState
        BY DEF TaskState
      <4>3. QED
        BY <1>a, <1>f, <3>1, <4>1, <4>2, OutcomePerTask, ToldMore
    <3>3. CASE owner[t] \notin live
      BY <1>a, <1>c, <1>f, <3>3, NoOutcome DEF MayStillEnd
    <3>4. QED
      BY <3>2, <3>3
  <2>3. QED
    BY <2>1, <2>2, OutcomeFromTasks
<1>4. MutedGone' /\ DoneUncancelled'
  BY <1>c, <1>e, CallbacksStay
<1>5. CancelHonoured'
  BY <1>a, <1>c, <1>e, <1>f DEF OutcomeInv, CancelHonoured, TypeOK
<1>6. QED
  BY <1>1, <1>2, <1>3, <1>4, <1>5 DEF OutcomeInv

\* The body of a task tells no end state, unless it gives up without an end; and
\* its result is kDone only if its flag is not set.
LEMMA ThreadOutcome ==
  ASSUME SchedulerInv, OutcomeInv,
         DecodeStep \/ RunBody \/ DecodeBufferFails \/ AwaitCallbacks
  PROVE  OutcomeInv'
<1>a. /\ TypeOK
      /\ UNCHANGED <<registered, live, active, state, owner, cancelled, cbQueue, cb>>
  BY DEF SchedulerInv, DecodeStep, RunBody, DecodeBufferFails, AwaitCallbacks,
         taskAttrs, sessionVars
<1>0. PICK t : t = exec.task
  OBVIOUS
<1>b. exec.pc \in {"body", "finish"} => t \in Tasks /\ state[t] = "kProcessing"
  BY <1>0 DEF SchedulerInv, RunnerSound
<1>c. \/ exec' = IdleThread
      \/ exec' = exec /\ DecodeStep
      \/ /\ exec.pc = "body" /\ exec'.pc = "finish" /\ exec'.task = t
         /\ exec'.mute = exec.mute
         /\ exec'.result = "kDone" => t \notin cancelled
  <2>1. CASE RunBody
    <3>1. PICK r \in BodyResults(t) : exec' = [exec EXCEPT !.pc = "finish", !.result = r]
      BY <1>0, <2>1 DEF RunBody
    <3>2. r = "kDone" => t \notin cancelled
      BY <3>1 DEF BodyResults
    <3>3. /\ exec'.pc = "finish" /\ exec'.task = t /\ exec'.mute = exec.mute
          /\ exec'.result = r
      BY <1>0, <1>a, <3>1 DEF TypeOK, ThreadSet
    <3>4. QED
      BY <2>1, <3>2, <3>3 DEF RunBody
  <2>2. QED
    BY <2>1 DEF DecodeStep, DecodeBufferFails, AwaitCallbacks
<1>d. \A x \in Tasks : Running(x)' => Running(x)
  BY <1>0, <1>c DEF Running, IdleThread, Thread
<1>1. OwnersRegistered' /\ ActiveTasksExact'
  BY <1>a DEF OutcomeInv, OwnersRegistered, ActiveTasksExact
<1>2. ReportsSound' /\ EndedMeansReported'
  <2>1. ASSUME NEW x \in Tasks, reports'[x] = reports[x]
        PROVE  ReportSound(x)' /\ EndReported(x)'
    <3>1. MayStillEnd(x)' => MayStillEnd(x)
      BY <1>a, <1>d DEF MayStillEnd
    <3>2. Delivering(x)' <=> Delivering(x)
      BY <1>a DEF Delivering
    <3>3. QED
      BY <1>a, <2>1, <3>1, <3>2, OutcomePerTask, TaskFrame
  <2>2. CASE UNCHANGED reports
    BY <2>1, <2>2, OutcomeFromTasks
  <2>3. CASE DecodeStep
    <3>1. /\ t \in Tasks /\ state[t] = "kProcessing" /\ Running(t)
          /\ reports'[t] = Append(reports[t], "kProcessing")
          /\ \A x \in Tasks \ {t} : reports'[x] = reports[x]
      BY <1>0, <1>b, <2>3 DEF DecodeStep, Told, Running
    <3>2. ~Delivering(t) /\ ~Delivering(t)'
      BY <1>a, <3>1 DEF Delivering, SchedulerInv, CallbacksSound
    <3>3. ReportSound(t)' /\ EndReported(t)'
      <4>1. CASE owner[t] \in live
        <5>1. MayStillEnd(t) /\ "kProcessing" \in TaskState
          BY <3>1, <4>1 DEF MayStillEnd, TaskState
        <5>2. QED
          BY <1>a, <3>1, <3>2, <5>1, OutcomePerTask, ToldMore
      <4>2. CASE owner[t] \notin live
        BY <1>a, <3>1, <4>2, NoOutcome DEF MayStillEnd
      <4>3. QED
        BY <4>1, <4>2
    <3>4. QED
      BY <2>1, <3>1, <3>3, OutcomeFromTasks
  <2>4. CASE DecodeBufferFails
    <3>1. /\ t \in Tasks /\ state[t] = "kProcessing" /\ exec' = IdleThread
          /\ \A x \in Tasks \ {t} : reports'[x] = reports[x]
      BY <1>0, <1>b, <2>4 DEF DecodeBufferFails, Told
    <3>2. ~MayStillEnd(t)'
      BY <1>a, <3>1 DEF MayStillEnd, Running, IdleThread, Thread
    <3>3. QED
      BY <1>a, <2>1, <3>1, <3>2, NoOutcome, OutcomeFromTasks
  <2>5. QED
    BY <2>2, <2>3, <2>4 DEF RunBody, AwaitCallbacks
<1>3. MutedGone' /\ DoneUncancelled'
  <2>1. exec'.pc \in {"body", "finish"} /\ exec'.mute => owner[exec'.task] \notin live
    <3>1. exec.pc \in {"body", "finish"} /\ exec.mute => owner[exec.task] \notin live
      BY DEF OutcomeInv, MutedGone
    <3>2. exec' = IdleThread => exec'.pc = "idle"
      BY DEF IdleThread, Thread
    <3>3. QED
      BY <1>0, <1>c, <3>1, <3>2
  <2>2. QED
    BY <1>a, <2>1, CallbacksStay
<1>4. CancelHonoured'
  BY <1>a, <1>c DEF OutcomeInv, CancelHonoured, IdleThread, Thread
<1>5. QED
  BY <1>1, <1>2, <1>3, <1>4 DEF OutcomeInv

\* The callback is told the outcome before the task moves to it.
LEMMA CallbackBeginOutcome ==
  ASSUME SchedulerInv, OutcomeInv, CallbackBegin
  PROVE  OutcomeInv'
<1>0. PICK e : e = Head(cbQueue)
  OBVIOUS
<1> DEFINE t == e.task
<1>a. /\ TypeOK /\ cbQueue # <<>> /\ cb.pc = "idle"
      /\ UNCHANGED <<registered, live, active, state, owner, cancelled, exec>>
  BY DEF SchedulerInv, CallbackBegin, taskAttrs, sessionVars
<1>b. /\ Len(cbQueue) \in Nat \ {0} /\ e = cbQueue[1] /\ 1 \in 1..Len(cbQueue)
      /\ Len(cbQueue') = Len(cbQueue) - 1
      /\ \A i \in 1..Len(cbQueue') : /\ i + 1 \in 1..Len(cbQueue)
                                     /\ cbQueue'[i] = cbQueue[i + 1]
  BY <1>0, <1>a DEF TypeOK, CallbackBegin
<1>c. /\ t \in Tasks /\ e.result \in Results /\ state[t] = "kLastCallbackQueued"
      /\ e.mute \in BOOLEAN
  BY <1>a, <1>b, EntryTasks DEF SchedulerInv, CallbacksSound
<1>d. /\ cb' = Thread("called", t, e.result, e.mute)
      /\ reports' = IF e.mute THEN reports ELSE Told({t}, e.result)
  BY <1>0 DEF CallbackBegin
<1>e. /\ cb'.pc = "called" /\ cb'.task = t /\ cb'.result = e.result
      /\ cb'.mute = e.mute
  BY <1>d DEF Thread
<1>f. e.mute => owner[t] \notin live
  BY <1>b DEF OutcomeInv, MutedGone
<1>1. OwnersRegistered' /\ ActiveTasksExact' /\ CancelHonoured'
  BY <1>a DEF OutcomeInv, OwnersRegistered, ActiveTasksExact, CancelHonoured
<1>2. ReportsSound' /\ EndedMeansReported'
  <2>1. ASSUME NEW x \in Tasks \ {t}
        PROVE  ReportSound(x)' /\ EndReported(x)'
    <3>1. reports'[x] = reports[x]
      BY <1>d DEF Told
    <3>2. MayStillEnd(x)' => MayStillEnd(x)
      BY <1>a DEF MayStillEnd, Running
    <3>3. ~Delivering(x)' /\ ~Delivering(x)
      BY <1>a, <1>e DEF Delivering
    <3>4. QED
      BY <1>a, <3>1, <3>2, <3>3, OutcomePerTask, TaskFrame
  <2>2. ReportSound(t)' /\ EndReported(t)'
    <3>1. ~Delivering(t) /\ Delivering(t)' /\ ~Ended(t)'
      BY <1>a, <1>c, <1>e DEF Delivering
    <3>2. CASE owner[t] \in live
      <4>1. /\ e.result \in TaskState
            /\ reports'[t] = Append(reports[t], e.result)
        BY <1>c, <1>d, <1>f, <3>2 DEF Told, Results, TaskState
      <4>2. \A i \in 1..Len(reports[t]) : ~IsTaskEndState(reports[t][i])
        BY <1>c, <3>1, <3>2, OutcomePerTask DEF ReportSound, MayStillEnd
      <4>3. \A i \in 1..Len(reports'[t]) : i \in 1..Len(reports[t]) \/ i = Len(reports'[t])
        BY <1>a, <1>c, <4>1, OneMoreReport
      <4>4. /\ \A i \in 1..Len(reports'[t]) :
                 IsTaskEndState(reports'[t][i]) => i = Len(reports'[t])
            /\ reports'[t] # <<>> /\ Last(reports'[t]) = cb'.result
        BY <1>a, <1>c, <1>e, <4>1, <4>2, <4>3, OneMoreReport
      <4>5. QED
        BY <3>1, <4>4 DEF ReportSound, EndReported
    <3>3. CASE owner[t] \notin live
      BY <1>a, <1>c, <3>1, <3>3, NoOutcome DEF MayStillEnd
    <3>4. QED
      BY <3>2, <3>3
  <2>3. QED
    BY <1>c, <2>1, <2>2, OutcomeFromTasks
<1>3. MutedGone'
  BY <1>a, <1>b, <1>e, <1>f DEF OutcomeInv, MutedGone
<1>4. DoneUncancelled'
  BY <1>a, <1>b, <1>e DEF OutcomeInv, DoneUncancelled
<1>5. QED
  BY <1>1, <1>2, <1>3, <1>4 DEF OutcomeInv

\* The task moves to the state its callback was told, if its session is there.
LEMMA CallbackEndOutcome ==
  ASSUME SchedulerInv, OutcomeInv, CallbackEnd
  PROVE  OutcomeInv'
<1>0. PICK t : t = cb.task
  OBVIOUS
<1>a. /\ TypeOK /\ t \in Tasks /\ state[t] = "kLastCallbackQueued"
      /\ cb.pc = "called" /\ cb.result \in Results
      /\ \A i \in 1..Len(cbQueue) : cbQueue[i].task \in Tasks \ {t}
  BY <1>0, ThreadTypes, EntryTasks DEF SchedulerInv, CallbacksSound, CallbackEnd
<1>b. /\ cb' = IdleThread
      /\ UNCHANGED <<registered, live, owner, cancelled, exec, cbQueue>>
  BY DEF CallbackEnd, taskAttrs, sessionVars
<1>c. owner[t] \in Sessions /\ (MayEnd(t) <=> owner[t] \in live)
  BY <1>a, MayEndLive
<1>d. \A x \in Tasks \ {t} : state'[x] = state[x] /\ reports'[x] = reports[x]
  BY <1>0, <1>a DEF CallbackEnd, TypeOK, Told
<1>e. /\ MayEnd(t) => state'[t] = cb.result /\ reports' = reports
      /\ ~MayEnd(t) => state' = state
  BY <1>0, <1>a DEF CallbackEnd, TypeOK
<1>f. cb'.pc = "idle"
  BY <1>b DEF IdleThread, Thread
<1>g. cb.result \in EndStates
  BY <1>a DEF Results
<1>1. OwnersRegistered'
  BY <1>a, <1>b, <1>d DEF OutcomeInv, OwnersRegistered
<1>2. ActiveTasksExact'
  <2>1. CASE MayEnd(t)
    <3>1. active' = [active EXCEPT ![owner[t]] = @ \ {t}]
      BY <1>0, <2>1 DEF CallbackEnd
    <3>2. \A s \in Sessions : active'[s] = active[s] \ {t}
      BY <1>a, <1>c, <3>1 DEF TypeOK, OutcomeInv, ActiveTasksExact
    <3>3. QED
      BY <1>b, <1>d, <1>e, <1>g, <2>1, <3>2, ActiveShrinks DEF OutcomeInv
  <2>2. CASE ~MayEnd(t)
    <3>1. UNCHANGED <<active, state>>
      BY <1>0, <2>2 DEF CallbackEnd
    <3>2. QED
      BY <1>b, <3>1 DEF OutcomeInv, ActiveTasksExact
  <2>3. QED
    BY <2>1, <2>2
<1>3. ReportsSound' /\ EndedMeansReported'
  <2>1. ASSUME NEW x \in Tasks \ {t}
        PROVE  ReportSound(x)' /\ EndReported(x)'
    <3>1. MayStillEnd(x)' => MayStillEnd(x)
      BY <1>b, <1>d DEF MayStillEnd, Running
    <3>2. ~Delivering(x)' /\ ~Delivering(x)
      BY <1>0, <1>f DEF Delivering
    <3>3. QED
      BY <1>d, <3>1, <3>2, OutcomePerTask, TaskFrame
  <2>2. ReportSound(t)' /\ EndReported(t)'
    <3>1. CASE owner[t] \in live
      <4>1. /\ \A i \in 1..Len(reports[t]) :
                 IsTaskEndState(reports[t][i]) => i = Len(reports[t])
            /\ reports[t] # <<>> /\ Last(reports[t]) = cb.result
        BY <1>0, <1>a, <3>1, OutcomePerTask DEF ReportSound, MayStillEnd, Delivering
      <4>2. state'[t] = cb.result /\ reports' = reports
        BY <1>c, <1>e, <3>1
      <4>3. Len(reports[t]) \in Nat
        BY <1>a DEF TypeOK
      <4>4. \A i \in 1..(Len(reports[t]) - 1) : i \in 1..Len(reports[t]) /\ i # Len(reports[t])
        BY <4>3
      <4>5. ~Running(t)
        BY <1>a DEF Running, SchedulerInv, RunnerSound
      <4>6. ~MayStillEnd(t)'
        BY <1>b, <1>g, <4>2, <4>5 DEF MayStillEnd, Running
      <4>7. QED
        BY <4>1, <4>2, <4>4, <4>6 DEF ReportSound, EndReported
    <3>2. CASE owner[t] \notin live
      BY <1>a, <1>b, <1>c, <1>e, <3>2, NoOutcome DEF MayStillEnd
    <3>3. QED
      BY <3>1, <3>2
  <2>3. QED
    BY <1>a, <2>1, <2>2, OutcomeFromTasks
<1>4. MutedGone' /\ DoneUncancelled'
  BY <1>b, <1>f DEF OutcomeInv, MutedGone, DoneUncancelled
<1>5. CancelHonoured'
  BY <1>0, <1>a, <1>b, <1>d, <1>e DEF OutcomeInv, CancelHonoured, DoneUncancelled, TypeOK
<1>6. QED
  BY <1>1, <1>2, <1>3, <1>4, <1>5 DEF OutcomeInv

\* The finishing task is not being delivered; its session decides whether it may
\* end.
LEMMA FinishingTask ==
  ASSUME SchedulerInv, OutcomeInv, NEW t, t = exec.task, exec.pc = "finish"
  PROVE  /\ TypeOK /\ t \in Tasks /\ state[t] = "kProcessing" /\ ~Delivering(t)
         /\ owner[t] \in Sessions
         /\ MayEnd(t) <=> owner[t] \in live
         /\ exec.mute => owner[t] \notin live
         /\ owner[t] \in live => MayStillEnd(t)
<1>1. TypeOK /\ t \in Tasks /\ state[t] = "kProcessing" /\ ~Delivering(t)
  BY DEF SchedulerInv, RunnerSound, CallbacksSound, Delivering
<1>2. owner[t] \in Sessions /\ (MayEnd(t) <=> owner[t] \in live)
  BY <1>1, MayEndLive
<1>3. exec.mute => owner[t] \notin live
  BY DEF OutcomeInv, MutedGone
<1>4. owner[t] \in live => MayStillEnd(t)
  BY DEF MayStillEnd, Running
<1>5. QED
  BY <1>1, <1>2, <1>3, <1>4

\* What becomes of the task t that is failed under the lock, and of the others.
FailedUnderLock(t, states, told, actives) ==
    /\ \A x \in Tasks \ {t} : /\ state'[x] = states[x]
                              /\ reports'[x] = told[x]
                              /\ ~Running(x)'
    /\ MayEnd(t) =>
         /\ state'[t] = "kFailed"
         /\ \A o \in Sessions : active'[o] = actives[o] \ {t}
    /\ ~MayEnd(t) =>
         /\ state'[t] = "kProcessing"
         /\ \A o \in Sessions : active'[o] = actives[o]
    /\ exec'.pc = "idle"

\* A task that is failed under the lock is told so, as its last report.
LEMMA FailOutcome ==
  ASSUME SchedulerInv, OutcomeInv, NEW t, t = exec.task, exec.pc = "finish",
         NEW states \in [Tasks -> TaskState],
         NEW told \in [Tasks -> Seq(TaskState)],
         NEW actives \in [Sessions -> SUBSET Tasks],
         states[t] = state[t], told[t] = reports[t],
         \A o \in Sessions : actives[o] \subseteq active[o],
         FailTask(t, states, told, actives),
         UNCHANGED <<live, owner, cancelled, cbQueue, cb>>
  PROVE  /\ ReportSound(t)' /\ EndReported(t)'
         /\ FailedUnderLock(t, states, told, actives)
         /\ MutedGone' /\ DoneUncancelled'
<1>a. /\ TypeOK /\ t \in Tasks /\ state[t] = "kProcessing" /\ ~Delivering(t)
      /\ owner[t] \in Sessions
      /\ MayEnd(t) <=> owner[t] \in live
      /\ exec.mute => owner[t] \notin live
      /\ owner[t] \in live => MayStillEnd(t)
  BY FinishingTask
<1>1. exec'.pc = "idle"
  BY <1>a, FailTaskFacts
<1>2. /\ MayEnd(t) =>
           /\ state'[t] = "kFailed"
           /\ \A o \in Sessions : active'[o] = actives[o] \ {t}
      /\ ~MayEnd(t) =>
           state'[t] = "kProcessing" /\ \A o \in Sessions : active'[o] = actives[o]
  <2>1. \A o \in Sessions : o # owner[t] => t \notin actives[o]
    BY DEF OutcomeInv, ActiveTasksExact
  <2>2. CASE MayEnd(t)
    <3>1. \A o \in Sessions : active'[o] =
            IF o = owner[t] THEN actives[o] \ {t} ELSE actives[o]
      BY <1>a, <2>2 DEF FailTask
    <3>2. QED
      BY <1>a, <2>1, <2>2, <3>1 DEF FailTask
  <2>3. CASE ~MayEnd(t)
    BY <1>a, <2>3 DEF FailTask
  <2>4. QED
    BY <2>2, <2>3
<1>3. \A x \in Tasks \ {t} : state'[x] = states[x] /\ reports'[x] = told[x] /\ ~Running(x)'
  BY <1>1 DEF FailTask, Running
<1>4. MutedGone' /\ DoneUncancelled'
  BY <1>1, CallbacksStay
<1>5. ReportSound(t)' /\ EndReported(t)'
  <2>1. CASE MayEnd(t)
    <3>1. reports'[t] = Append(reports[t], "kFailed")
      BY <1>a, <2>1 DEF FailTask
    <3>2. ~MayStillEnd(t)'
      BY <1>1, <1>2, <2>1 DEF MayStillEnd, Running
    <3>3. "kFailed" \in TaskState
      BY DEF TaskState
    <3>4. QED
      BY <1>a, <1>2, <2>1, <3>1, <3>2, <3>3, OutcomePerTask, ToldEnd
  <2>2. CASE ~MayEnd(t)
    BY <1>a, <1>2, <2>2, NoOutcome DEF MayStillEnd
  <2>3. QED
    BY <2>1, <2>2
<1>6. QED
  BY <1>1, <1>2, <1>3, <1>4, <1>5 DEF FailedUnderLock

\* Tasks a finishing step leaves alone, or queues.
LEMMA UntouchedOutcome ==
  ASSUME OutcomeInv, NEW x \in Tasks, x # exec.task,
         state'[x] = state[x], reports'[x] = reports[x], ~Running(x)',
         UNCHANGED <<live, owner, cb>>
  PROVE  ReportSound(x)' /\ EndReported(x)'
<1>1. MayStillEnd(x)' => MayStillEnd(x)
  BY DEF MayStillEnd
<1>2. Delivering(x)' <=> Delivering(x)
  BY DEF Delivering
<1>3. QED
  BY <1>1, <1>2, OutcomePerTask, TaskFrame

LEMMA QueuedOutcome ==
  ASSUME SchedulerInv, OutcomeInv, NEW x \in Tasks, state[x] = "kCreated",
         state'[x] = "kQueued", reports'[x] = Append(reports[x], "kQueued"),
         UNCHANGED <<live, owner, cb>>
  PROVE  ReportSound(x)' /\ EndReported(x)'
<1>1. TypeOK /\ ~Delivering(x) /\ ~Delivering(x)'
  BY DEF SchedulerInv, CallbacksSound, Delivering
<1>2. CASE owner[x] \in live
  <2>1. MayStillEnd(x) /\ "kQueued" \in TaskState
    BY <1>2 DEF MayStillEnd, TaskState
  <2>2. QED
    BY <1>1, <2>1, OutcomePerTask, ToldMore
<1>3. CASE owner[x] \notin live
  BY <1>3, NoOutcome DEF MayStillEnd
<1>4. QED
  BY <1>2, <1>3

\* A task that waits and is ended by a cascade is told so.
LEMMA CascadedOutcome ==
  ASSUME SchedulerInv, OutcomeInv, NEW x \in Tasks, state[x] = "kCreated",
         MayEnd(x), NEW r \in EndStates, r \in TaskState, state'[x] = r,
         reports'[x] = Append(reports[x], r), ~Running(x)'
  PROVE  ReportSound(x)' /\ EndReported(x)'
<1>1. TypeOK /\ ~Delivering(x) /\ MayStillEnd(x)
  BY DEF SchedulerInv, CallbacksSound, Delivering, MayEnd, MayStillEnd
<1>2. ~MayStillEnd(x)'
  BY DEF MayStillEnd
<1>3. QED
  BY <1>1, <1>2, OutcomePerTask, ToldEnd

\* The task itself moves on to the callback thread.
LEMMA HandedOverOutcome ==
  ASSUME SchedulerInv, OutcomeInv, NEW t, t = exec.task, exec.pc = "finish",
         state'[t] = "kLastCallbackQueued", reports'[t] = reports[t],
         UNCHANGED <<live, owner, cb>>
  PROVE  ReportSound(t)' /\ EndReported(t)'
<1>a. /\ t \in Tasks /\ ~Delivering(t) /\ (owner[t] \in live => MayStillEnd(t))
  BY FinishingTask
<1>1. ~Delivering(t)'
  BY <1>a DEF Delivering
<1>2. MayStillEnd(t)' => MayStillEnd(t)
  BY <1>a DEF MayStillEnd
<1>3. ReportSound(t)'
  BY <1>a, <1>1, <1>2, OutcomePerTask DEF ReportSound
<1>4. QED
  BY <1>3 DEF EndReported

LEMMA FinishUnsuccessfullyOutcome ==
  ASSUME SchedulerInv, OutcomeInv, FinishUnsuccessfully
  PROVE  OutcomeInv'
<1>0. PICK t : t = exec.task
  OBVIOUS
<1> DEFINE F == FollowingWaitingTasks(t)
           s == DependentState(exec.result)
<1>a. exec.pc = "finish" /\ TypeOK /\ t \in Tasks /\ state[t] = "kProcessing"
  BY <1>0, FinishingTask DEF FinishUnsuccessfully
<1>b. F \subseteq {f \in Tasks : state[f] = "kCreated"}
  BY <1>0, <1>a, CascadeTasks DEF FinishUnsuccessfully
<1>c. s \in {"kDependentTaskCancelled", "kDependentTaskFailed"} /\ s \in TaskState
  BY DEF DependentState, TaskState
<1>d. /\ state' = [x \in Tasks |-> IF x \in F THEN s
                                   ELSE IF x = t THEN "kLastCallbackQueued"
                                   ELSE state[x]]
      /\ reports' = Told(F, s)
      /\ active' = [o \in Sessions |-> active[o] \ F]
      /\ \A f \in F : MayEnd(f)
      /\ QueueLastCallback(t)
      /\ UNCHANGED <<registered, live, owner, cancelled, cb>>
  BY <1>0 DEF FinishUnsuccessfully, sessionVars, taskAttrs
<1> HIDE DEF F, s
<1>e. exec'.pc = "await"
  BY <1>a, <1>d, LastCallbackQueued
<1>1. OwnersRegistered'
  BY <1>a, <1>b, <1>d DEF OutcomeInv, OwnersRegistered
<1>2. ActiveTasksExact'
  BY <1>a, <1>b, <1>c, <1>d, ActiveShrinks DEF OutcomeInv
<1>3. ReportsSound' /\ EndedMeansReported'
  <2>1. ASSUME NEW x \in F
        PROVE  ReportSound(x)' /\ EndReported(x)'
    <3>1. /\ x \in Tasks /\ state[x] = "kCreated" /\ state'[x] = s
          /\ reports'[x] = Append(reports[x], s) /\ ~Running(x)' /\ MayEnd(x)
      BY <1>b, <1>d, <1>e DEF Told, Running
    <3>2. QED
      BY <1>c, <3>1, CascadedOutcome
  <2>2. ReportSound(t)' /\ EndReported(t)'
    <3>1. state'[t] = "kLastCallbackQueued" /\ reports'[t] = reports[t]
      BY <1>a, <1>b, <1>d DEF Told
    <3>2. QED
      BY <1>0, <1>a, <1>d, <3>1, HandedOverOutcome
  <2>3. ASSUME NEW x \in Tasks \ ({t} \cup F)
        PROVE  ReportSound(x)' /\ EndReported(x)'
    <3>1. state'[x] = state[x] /\ reports'[x] = reports[x] /\ ~Running(x)'
      BY <1>d, <1>e DEF Told, Running
    <3>2. QED
      BY <1>0, <1>d, <3>1, UntouchedOutcome
  <2>4. QED
    BY <2>1, <2>2, <2>3, OutcomeFromTasks
<1>4. MutedGone' /\ DoneUncancelled'
  BY <1>0, <1>a, <1>d, CallbacksQueued
<1>5. CancelHonoured'
  BY <1>c, <1>d, <1>e DEF OutcomeInv, CancelHonoured, SchedulerInv, TypeOK
<1>6. QED
  BY <1>1, <1>2, <1>3, <1>4, <1>5, <1>d DEF OutcomeInv

LEMMA FinishSuccessfullyOutcome ==
  ASSUME SchedulerInv, OutcomeInv, FinishSuccessfully
  PROVE  OutcomeInv'
<1>0. PICK t : t = exec.task
  OBVIOUS
<1> DEFINE R == Ready(t, Waiting(t))
<1>a. exec.pc = "finish" /\ TypeOK /\ t \in Tasks /\ state[t] = "kProcessing"
  BY <1>0, FinishingTask DEF FinishSuccessfully
<1>b. R \subseteq {f \in Tasks : state[f] = "kCreated"}
  BY <1>0, <1>a DEF FinishSuccessfully, BadFollower, Waiting, Ready, TypeOK
<1>c. /\ state' = [x \in Tasks |-> IF x \in R THEN "kQueued"
                                   ELSE IF x = t THEN "kLastCallbackQueued"
                                   ELSE state[x]]
      /\ reports' = Told(R, "kQueued")
      /\ QueueLastCallback(t)
      /\ UNCHANGED <<registered, live, active, owner, cancelled, cb>>
  BY <1>0, <1>a DEF FinishSuccessfully, Advance, TypeOK, sessionVars, taskAttrs
<1> HIDE DEF R
<1>d. exec'.pc = "await"
  BY <1>a, <1>c, LastCallbackQueued
<1>1. OwnersRegistered'
  BY <1>a, <1>b, <1>c DEF OutcomeInv, OwnersRegistered
<1>2. ActiveTasksExact'
  <2>1. \A x \in Tasks : Known(x)' = Known(x) /\ Ended(x)' = Ended(x)
    BY <1>a, <1>b, <1>c
  <2>2. QED
    BY <1>c, <2>1 DEF OutcomeInv, ActiveTasksExact
<1>3. ReportsSound' /\ EndedMeansReported'
  <2>1. ASSUME NEW x \in R
        PROVE  ReportSound(x)' /\ EndReported(x)'
    <3>1. /\ x \in Tasks /\ state[x] = "kCreated" /\ state'[x] = "kQueued"
          /\ reports'[x] = Append(reports[x], "kQueued")
      BY <1>b, <1>c DEF Told
    <3>2. QED
      BY <1>c, <3>1, QueuedOutcome
  <2>2. ReportSound(t)' /\ EndReported(t)'
    <3>1. state'[t] = "kLastCallbackQueued" /\ reports'[t] = reports[t]
      BY <1>a, <1>b, <1>c DEF Told
    <3>2. QED
      BY <1>0, <1>a, <1>c, <3>1, HandedOverOutcome
  <2>3. ASSUME NEW x \in Tasks \ ({t} \cup R)
        PROVE  ReportSound(x)' /\ EndReported(x)'
    <3>1. state'[x] = state[x] /\ reports'[x] = reports[x] /\ ~Running(x)'
      BY <1>c, <1>d DEF Told, Running
    <3>2. QED
      BY <1>0, <1>c, <3>1, UntouchedOutcome
  <2>4. QED
    BY <2>1, <2>2, <2>3, OutcomeFromTasks
<1>4. MutedGone' /\ DoneUncancelled'
  BY <1>0, <1>a, <1>c, CallbacksQueued
<1>5. CancelHonoured'
  BY <1>c, <1>d DEF OutcomeInv, CancelHonoured, SchedulerInv, TypeOK
<1>6. QED
  BY <1>1, <1>2, <1>3, <1>4, <1>5 DEF OutcomeInv

LEMMA FinishRefusedOutcome ==
  ASSUME SchedulerInv, OutcomeInv, FinishRefused
  PROVE  OutcomeInv'
<1>0. PICK t : t = exec.task
  OBVIOUS
<1>a. /\ exec.pc = "finish" /\ TypeOK /\ t \in Tasks /\ state[t] = "kProcessing"
      /\ owner[t] \in Sessions
  BY <1>0, FinishingTask DEF FinishRefused
<1>b. /\ FailTask(t, state, reports, active)
      /\ UNCHANGED <<registered, live, owner, cancelled, cbQueue, cb>>
  BY <1>0 DEF FinishRefused, sessionVars, taskAttrs
<1>c. /\ state \in [Tasks -> TaskState] /\ reports \in [Tasks -> Seq(TaskState)]
      /\ active \in [Sessions -> SUBSET Tasks]
  BY <1>a DEF TypeOK
<1>d0. /\ ReportSound(t)' /\ EndReported(t)'
       /\ FailedUnderLock(t, state, reports, active)
       /\ MutedGone' /\ DoneUncancelled'
  BY <1>0, <1>a, <1>b, <1>c, FailOutcome
<1>d. /\ ReportSound(t)' /\ EndReported(t)'
      /\ \A x \in Tasks \ {t} : /\ state'[x] = state[x]
                                /\ reports'[x] = reports[x]
                                /\ ~Running(x)'
      /\ MayEnd(t) =>
           /\ state'[t] = "kFailed"
           /\ \A o \in Sessions : active'[o] = active[o] \ {t}
      /\ ~MayEnd(t) =>
           state'[t] = "kProcessing" /\ \A o \in Sessions : active'[o] = active[o]
      /\ exec'.pc = "idle"
      /\ MutedGone' /\ DoneUncancelled'
  BY <1>d0 DEF FailedUnderLock
<1>1. OwnersRegistered'
  BY <1>a, <1>b, <1>d DEF OutcomeInv, OwnersRegistered
<1>2. ActiveTasksExact'
  <2>1. ActiveTasksExact
    BY DEF OutcomeInv
  <2>2. CASE MayEnd(t)
    <3>1. \A o \in Sessions : active'[o] = active[o] \ {t}
      BY <1>d, <2>1, <2>2 DEF ActiveTasksExact
    <3>2. \A x \in Tasks \ {t} : Known(x)' = Known(x) /\ Ended(x)' = Ended(x)
      BY <1>d
    <3>3. Ended(t)'
      BY <1>d, <2>2
    <3>4. QED
      BY <1>b, <2>1, <3>1, <3>2, <3>3, ActiveShrinks
  <2>3. CASE ~MayEnd(t)
    BY <1>a, <1>b, <1>d, <2>1, <2>3 DEF ActiveTasksExact
  <2>4. QED
    BY <2>2, <2>3
<1>3. ReportsSound' /\ EndedMeansReported'
  <2>1. ASSUME NEW x \in Tasks \ {t}
        PROVE  ReportSound(x)' /\ EndReported(x)'
    BY <1>0, <1>b, <1>d, UntouchedOutcome
  <2>2. QED
    BY <1>d, <2>1, OutcomeFromTasks
<1>4. CancelHonoured'
  BY <1>a, <1>b, <1>d DEF OutcomeInv, CancelHonoured, TypeOK
<1>5. QED
  BY <1>1, <1>2, <1>3, <1>4, <1>d DEF OutcomeInv

\* The cascade stops at a follower whose session is gone; that follower is told
\* two ends and reaches none.
LEMMA FinishStopsInCascadeOutcome ==
  ASSUME SchedulerInv, OutcomeInv, FinishStopsInCascade
  PROVE  OutcomeInv'
<1>0. PICK t : t = exec.task
  OBVIOUS
<1> DEFINE F == FollowingWaitingTasks(t)
           s == DependentState(exec.result)
<1>a. /\ exec.pc = "finish" /\ TypeOK /\ t \in Tasks /\ state[t] = "kProcessing"
      /\ owner[t] \in Sessions
  BY <1>0, FinishingTask DEF FinishStopsInCascade
<1>b. F \subseteq {f \in Tasks : state[f] = "kCreated"}
  BY <1>0, <1>a, CascadeTasks DEF FinishStopsInCascade
<1>c. s \in {"kDependentTaskCancelled", "kDependentTaskFailed"} /\ s \in TaskState
  BY DEF DependentState, TaskState
<1>d. PICK f \in F, S \in SUBSET {g \in F : MayEnd(g)} :
        /\ ~MayEnd(f)
        /\ FailTask(t,
             [x \in Tasks |-> IF x \in S THEN s ELSE state[x]],
             [Told(S \cup {f}, s) EXCEPT ![f] = Append(@, "kFailed")],
             [o \in Sessions |-> active[o] \ S])
  BY <1>0 DEF FinishStopsInCascade
<1> DEFINE states  == [x \in Tasks |-> IF x \in S THEN s ELSE state[x]]
           told    == [Told(S \cup {f}, s) EXCEPT ![f] = Append(@, "kFailed")]
           actives == [o \in Sessions |-> active[o] \ S]
<1>e. UNCHANGED <<registered, live, owner, cancelled, cbQueue, cb>>
  BY DEF FinishStopsInCascade, sessionVars, taskAttrs
<1>f. states \in [Tasks -> TaskState] /\ actives \in [Sessions -> SUBSET Tasks]
  BY <1>a, <1>c DEF TypeOK
<1>g. told \in [Tasks -> Seq(TaskState)]
  <2> DEFINE first == Told(S \cup {f}, s)
  <2>1. first \in [Tasks -> Seq(TaskState)]
    BY <1>a, <1>c, ToldType
  <2>2. "kFailed" \in TaskState /\ f \in Tasks
    BY <1>b DEF TaskState
  <2> HIDE DEF first
  <2>3. first[f] \in Seq(TaskState)
    BY <2>1, <2>2
  <2>4. Append(first[f], "kFailed") \in Seq(TaskState)
    BY <2>2, <2>3
  <2>5. [first EXCEPT ![f] = Append(@, "kFailed")] \in [Tasks -> Seq(TaskState)]
    BY <2>1, <2>4
  <2>6. QED
    BY <2>5 DEF first
<1>h. /\ S \subseteq F /\ \A x \in S : MayEnd(x)
      /\ f \notin S /\ t \notin S /\ t # f /\ f \in F
  BY <1>a, <1>b, <1>d
<1>i. /\ states[t] = state[t]
      /\ \A x \in S : states[x] = s
      /\ \A x \in Tasks \ S : states[x] = state[x]
  BY <1>a, <1>b, <1>h
<1>j. /\ told[t] = reports[t]
      /\ \A x \in S : told[x] = Append(reports[x], s)
      /\ \A x \in Tasks \ (S \cup {f}) : told[x] = reports[x]
  BY <1>a, <1>b, <1>h DEF Told
<1>k. \A o \in Sessions : actives[o] = active[o] \ S /\ actives[o] \subseteq active[o]
  OBVIOUS
<1> HIDE DEF states, told, actives, F, s
<1>l. FailTask(t, states, told, actives)
  BY <1>d DEF states, told, actives, s
<1>m0. /\ ReportSound(t)' /\ EndReported(t)'
       /\ FailedUnderLock(t, states, told, actives)
       /\ MutedGone' /\ DoneUncancelled'
  BY <1>0, <1>a, <1>e, <1>f, <1>g, <1>i, <1>j, <1>k, <1>l, FailOutcome
<1>m. /\ ReportSound(t)' /\ EndReported(t)'
      /\ \A x \in Tasks \ {t} : /\ state'[x] = states[x]
                                /\ reports'[x] = told[x]
                                /\ ~Running(x)'
      /\ MayEnd(t) =>
           /\ state'[t] = "kFailed"
           /\ \A o \in Sessions : active'[o] = actives[o] \ {t}
      /\ ~MayEnd(t) =>
           state'[t] = "kProcessing" /\ \A o \in Sessions : active'[o] = actives[o]
      /\ exec'.pc = "idle"
      /\ MutedGone' /\ DoneUncancelled'
  BY <1>m0 DEF FailedUnderLock
<1>n. \A x \in S : x \in Tasks /\ x # t /\ state[x] = "kCreated"
  BY <1>b, <1>h
<1>1. OwnersRegistered'
  <2>1. \A x \in Tasks : Known(x)' => Known(x)
    BY <1>a, <1>i, <1>m, <1>n
  <2>2. QED
    BY <1>e, <2>1 DEF OutcomeInv, OwnersRegistered
<1>2. ActiveTasksExact'
  <2>1. ActiveTasksExact
    BY DEF OutcomeInv
  <2>2. \A x \in S : Ended(x)'
    BY <1>c, <1>i, <1>m, <1>n
  <2>3. \A x \in Tasks \ (S \cup {t}) : Known(x)' = Known(x) /\ Ended(x)' = Ended(x)
    BY <1>i, <1>m
  <2>4. CASE MayEnd(t)
    <3>1. \A o \in Sessions : active'[o] = active[o] \ (S \cup {t})
      BY <1>k, <1>m, <2>1, <2>4 DEF ActiveTasksExact
    <3>2. Ended(t)'
      BY <1>m, <2>4
    <3>3. QED
      BY <1>e, <2>1, <2>2, <2>3, <3>1, <3>2, ActiveShrinks
  <2>5. CASE ~MayEnd(t)
    <3>1. \A o \in Sessions : active'[o] = active[o] \ S
      BY <1>k, <1>m, <2>5
    <3>2. Known(t)' = Known(t) /\ Ended(t)' = Ended(t)
      BY <1>a, <1>m, <2>5
    <3>3. QED
      BY <1>e, <2>1, <2>2, <2>3, <3>1, <3>2, ActiveShrinks
  <2>6. QED
    BY <2>4, <2>5
<1>3. ReportsSound' /\ EndedMeansReported'
  <2>1. ASSUME NEW x \in S
        PROVE  ReportSound(x)' /\ EndReported(x)'
    <3>1. /\ x \in Tasks /\ state[x] = "kCreated" /\ state'[x] = s /\ MayEnd(x)
          /\ reports'[x] = Append(reports[x], s) /\ ~Running(x)'
      BY <1>h, <1>i, <1>j, <1>m, <1>n
    <3>2. s \in EndStates
      BY <1>c
    <3>3. QED
      BY <1>c, <3>1, <3>2, CascadedOutcome
  <2>2. ReportSound(f)' /\ EndReported(f)'
    <3>1. f \in Tasks /\ f # t /\ state[f] = "kCreated"
      BY <1>b, <1>h
    <3>2. owner[f] \notin live
      BY <1>a, <1>d, <3>1, MayEndLive
    <3>3. ~Ended(f)' /\ ~MayStillEnd(f)'
      BY <1>e, <1>h, <1>i, <1>m, <3>1, <3>2 DEF MayStillEnd
    <3>4. QED
      BY <3>1, <3>3, NoOutcome
  <2>3. ASSUME NEW x \in Tasks \ (S \cup {f, t})
        PROVE  ReportSound(x)' /\ EndReported(x)'
    <3>1. state'[x] = state[x] /\ reports'[x] = reports[x] /\ ~Running(x)'
      BY <1>i, <1>j, <1>m
    <3>2. QED
      BY <1>0, <1>e, <3>1, UntouchedOutcome
  <2>4. QED
    BY <1>m, <2>1, <2>2, <2>3, OutcomeFromTasks
<1>4. CancelHonoured'
  <2>1. \A x \in cancelled : x \in Tasks /\ state[x] # "kDone"
    BY <1>a DEF OutcomeInv, CancelHonoured, TypeOK
  <2>2. \A x \in cancelled : state'[x] # "kDone"
    BY <1>c, <1>i, <1>m, <2>1
  <2>3. QED
    BY <1>e, <1>m, <2>2 DEF CancelHonoured
<1>5. QED
  BY <1>1, <1>2, <1>3, <1>4, <1>m DEF OutcomeInv

LEMMA FinishStopsInLoopOutcome ==
  ASSUME SchedulerInv, OutcomeInv, FinishStopsInLoop
  PROVE  OutcomeInv'
<1>0. PICK t : t = exec.task
  OBVIOUS
<1>a. /\ exec.pc = "finish" /\ TypeOK /\ t \in Tasks /\ state[t] = "kProcessing"
      /\ owner[t] \in Sessions
  BY <1>0, FinishingTask DEF FinishStopsInLoop
<1>b. PICK S \in SUBSET {g \in Waiting(t) : ~BadFollower(t, g)} :
        FailTask(t,
          [x \in Tasks |-> IF x \in Ready(t, S) THEN "kQueued" ELSE state[x]],
          Told(Ready(t, S), "kQueued"), active)
  BY <1>0 DEF FinishStopsInLoop
<1> DEFINE R      == Ready(t, S)
           states == [x \in Tasks |-> IF x \in R THEN "kQueued" ELSE state[x]]
           told   == Told(R, "kQueued")
<1>c. UNCHANGED <<registered, live, owner, cancelled, cbQueue, cb>>
  BY DEF FinishStopsInLoop, sessionVars, taskAttrs
<1>d. R \subseteq {f \in Tasks : state[f] = "kCreated"}
  BY <1>a DEF BadFollower, Waiting, Ready, TypeOK
<1>e. /\ states \in [Tasks -> TaskState] /\ active \in [Sessions -> SUBSET Tasks]
      /\ told \in [Tasks -> Seq(TaskState)]
  <2>1. states \in [Tasks -> TaskState] /\ active \in [Sessions -> SUBSET Tasks]
    BY <1>a DEF TypeOK, TaskState
  <2>2. "kQueued" \in TaskState
    BY DEF TaskState
  <2>3. QED
    BY <1>a, <2>1, <2>2, ToldType
<1>f. /\ states[t] = state[t] /\ told[t] = reports[t]
      /\ \A x \in R : states[x] = "kQueued" /\ told[x] = Append(reports[x], "kQueued")
      /\ \A x \in Tasks \ R : states[x] = state[x] /\ told[x] = reports[x]
  BY <1>a, <1>d DEF Told
<1> HIDE DEF R, states, told
<1>g. FailTask(t, states, told, active)
  BY <1>b DEF states, told, R
<1>h0. /\ ReportSound(t)' /\ EndReported(t)'
       /\ FailedUnderLock(t, states, told, active)
       /\ MutedGone' /\ DoneUncancelled'
  BY <1>0, <1>a, <1>c, <1>e, <1>f, <1>g, FailOutcome
<1>h. /\ ReportSound(t)' /\ EndReported(t)'
      /\ \A x \in Tasks \ {t} : /\ state'[x] = states[x]
                                /\ reports'[x] = told[x]
                                /\ ~Running(x)'
      /\ MayEnd(t) =>
           /\ state'[t] = "kFailed"
           /\ \A o \in Sessions : active'[o] = active[o] \ {t}
      /\ ~MayEnd(t) =>
           state'[t] = "kProcessing" /\ \A o \in Sessions : active'[o] = active[o]
      /\ exec'.pc = "idle"
      /\ MutedGone' /\ DoneUncancelled'
  BY <1>h0 DEF FailedUnderLock
<1>i. \A x \in R : x \in Tasks /\ x # t /\ state[x] = "kCreated" /\ state'[x] = "kQueued"
  BY <1>a, <1>d, <1>f, <1>h
<1>j. \A x \in Tasks \ (R \cup {t}) : state'[x] = state[x] /\ reports'[x] = reports[x]
  BY <1>f, <1>h
<1>1. OwnersRegistered'
  <2>1. \A x \in Tasks : Known(x)' => Known(x)
    BY <1>a, <1>i, <1>j
  <2>2. QED
    BY <1>c, <2>1 DEF OutcomeInv, OwnersRegistered
<1>2. ActiveTasksExact'
  <2>1. ActiveTasksExact
    BY DEF OutcomeInv
  <2>2. \A x \in Tasks \ {t} : Known(x)' = Known(x) /\ Ended(x)' = Ended(x)
    BY <1>i, <1>j
  <2>3. CASE MayEnd(t)
    <3>1. \A o \in Sessions : active'[o] = active[o] \ {t}
      BY <1>h, <2>1, <2>3 DEF ActiveTasksExact
    <3>2. Ended(t)'
      BY <1>h, <2>3
    <3>3. QED
      BY <1>c, <2>1, <2>2, <3>1, <3>2, ActiveShrinks
  <2>4. CASE ~MayEnd(t)
    <3>1. Known(t)' = Known(t) /\ Ended(t)' = Ended(t)
      BY <1>a, <1>h, <2>4
    <3>2. \A o \in Sessions : active'[o] = active[o]
      BY <1>h, <2>4
    <3>3. QED
      BY <1>c, <2>1, <2>2, <3>1, <3>2 DEF ActiveTasksExact
  <2>5. QED
    BY <2>3, <2>4
<1>3. ReportsSound' /\ EndedMeansReported'
  <2>1. ASSUME NEW x \in R
        PROVE  ReportSound(x)' /\ EndReported(x)'
    <3>1. reports'[x] = Append(reports[x], "kQueued")
      BY <1>f, <1>h, <1>i
    <3>2. QED
      BY <1>c, <1>i, <3>1, QueuedOutcome
  <2>2. ASSUME NEW x \in Tasks \ (R \cup {t})
        PROVE  ReportSound(x)' /\ EndReported(x)'
    BY <1>0, <1>c, <1>h, <1>j, UntouchedOutcome
  <2>3. QED
    BY <1>h, <2>1, <2>2, OutcomeFromTasks
<1>4. CancelHonoured'
  <2>1. \A x \in cancelled : x \in Tasks /\ state[x] # "kDone"
    BY <1>a DEF OutcomeInv, CancelHonoured, TypeOK
  <2>2. \A x \in cancelled : state'[x] # "kDone"
    BY <1>h, <1>i, <1>j, <2>1
  <2>3. QED
    BY <1>c, <1>h, <2>2 DEF CancelHonoured
<1>5. QED
  BY <1>1, <1>2, <1>3, <1>4, <1>h DEF OutcomeInv

LEMMA ClientOutcome ==
  ASSUME SchedulerInv, OutcomeInv, Client
  PROVE  OutcomeInv'
<1>1. CASE \E s \in Sessions : \/ RegisterNewSession(s)
                               \/ ReleaseSession(s)
                               \/ CancelAllTasksInSession(s)
  BY <1>1, SessionOutcome, CancelOutcome DEF CancelAllTasksInSession
<1>2. CASE \E t \in Tasks : \E d \in {t} \cup requested[t] : CancelTasks({d, t})
  BY <1>2, CancelOutcome DEF CancelTasks
<1>3. CASE \E s \in registered, t \in Tasks, k \in Kinds, flag \in BOOLEAN :
             \E c \in CloneTargets(s, k), D \in SUBSET issued :
                CreateTask(s, t, k, c, D, flag)
  <2>1. PICK s \in registered, t \in Tasks, k \in Kinds, flag \in BOOLEAN :
           \E c \in CloneTargets(s, k), D \in SUBSET issued :
              CreateTask(s, t, k, c, D, flag)
    BY <1>3
  <2>2. PICK c \in CloneTargets(s, k), D \in SUBSET issued :
           CreateTask(s, t, k, c, D, flag)
    BY <2>1
  <2>3. /\ s \in Sessions /\ t \notin issued
        /\ CreateTaskFails(s, t, D) \/ CreateTaskSucceeds(s, t, k, c, D, flag)
        /\ UNCHANGED <<sessionVars, exec, cbQueue, cb>>
    BY <2>2 DEF CreateTask, SchedulerInv, TypeOK
  <2>4. CASE CreateTaskFails(s, t, D)
    BY <2>3, <2>4, OutcomeFrame DEF CreateTaskFails, sessionVars
  <2>5. CASE CreateTaskSucceeds(s, t, k, c, D, flag)
    BY <2>3, <2>5, CreateOutcome
  <2>6. QED
    BY <2>3, <2>4, <2>5
<1>4. QED
  BY <1>1, <1>2, <1>3 DEF Client

\* Every step keeps the invariant.
LEMMA NextOutcome == SchedulerInv /\ OutcomeInv /\ [Next]_vars => OutcomeInv'
<1> SUFFICES ASSUME SchedulerInv, OutcomeInv, [Next]_vars PROVE OutcomeInv'
  OBVIOUS
<1>1. CASE Client
  BY <1>1, ClientOutcome
<1>2. CASE ExecutionThread
  BY <1>2, StartOutcome, ThreadOutcome, FinishUnsuccessfullyOutcome,
     FinishSuccessfullyOutcome, FinishRefusedOutcome,
     FinishStopsInCascadeOutcome, FinishStopsInLoopOutcome
  DEF ExecutionThread, FinishTask
<1>3. CASE CallbackThread
  BY <1>3, CallbackBeginOutcome, CallbackEndOutcome DEF CallbackThread
<1>4. CASE UNCHANGED vars
  BY <1>4, OutcomeFrame DEF vars
<1>5. QED
  BY <1>1, <1>2, <1>3, <1>4 DEF Next

\* The invariant holds in every reachable state, whatever the clients do and
\* whichever of the faults of the model are allowed.
THEOREM OutcomeInvariant == Spec => []OutcomeInv
  BY InitOutcome, NextOutcome, SchedulerInvariant, PTL DEF Spec

\* A task in an end state has told its callback exactly one end, as its last
\* report: a waiter of WaitUntilDone has been told what it reads.
THEOREM WaitersAreTold == Spec => []EndedMeansReported
<1>1. OutcomeInv => EndedMeansReported
  BY DEF OutcomeInv
<1>2. QED
  BY <1>1, OutcomeInvariant, PTL

\* What WaitUntilSessionDone waits for: the active tasks of a session are its
\* tasks that have not ended, released early or not.
THEOREM SessionsKnowTheirTasks == Spec => []ActiveTasksExact
<1>1. OutcomeInv => ActiveTasksExact
  BY DEF OutcomeInv
<1>2. QED
  BY <1>1, OutcomeInvariant, PTL

\* A task whose flag was set before its last check does not end as done.
THEOREM CancellationIsHonoured == Spec => []CancelHonoured
<1>1. OutcomeInv => CancelHonoured
  BY DEF OutcomeInv
<1>2. QED
  BY <1>1, OutcomeInvariant, PTL

-----------------------------------------------------------------------------
(* The life of a task.                                                     *)

DependentStates == {"kDependentTaskFailed", "kDependentTaskCancelled"}

\* The moves of a task: what its state may become in one step, and when.
Moves(x) ==
    \/ state'[x] = state[x]
    \/ state[x] = "kUnknown" /\ x \notin issued /\ x \in issued'
    \/ state[x] = "kCreated" /\ state'[x] \in DependentStates
    \/ /\ state[x] = "kCreated" /\ state'[x] = "kQueued"
       /\ exec.pc = "finish" /\ deps[x] = {exec.task}
       /\ exec'.pc \notin {"body", "finish"}
    \/ state[x] = "kQueued" /\ state'[x] = "kProcessing"
    \/ state[x] = "kProcessing" /\ state'[x] \in {"kLastCallbackQueued", "kFailed"}
    \/ state[x] = "kLastCallbackQueued" /\ state'[x] \in Results

\* What the thread does to a task that is not its own, or keeps of its own.
Keeps(x) ==
    /\ Running(x)' => Running(x) \/ state[x] = "kQueued"
    /\ x \in issued => /\ deps'[x] \subseteq deps[x]
                       /\ requested'[x] = requested[x] /\ owner'[x] = owner[x]

LEMMA FailMoves ==
  ASSUME SchedulerInv, NEW x \in Tasks, exec.pc = "finish",
         NEW states \in [Tasks -> TaskState], NEW told, NEW actives,
         FailTask(exec.task, states, told, actives),
         states[exec.task] = state[exec.task],
         \/ states[x] = state[x]
         \/ state[x] = "kCreated" /\ states[x] \in DependentStates
         \/ state[x] = "kCreated" /\ states[x] = "kQueued" /\ deps[x] = {exec.task},
         deps'[x] \subseteq deps[x], UNCHANGED <<requested, owner>>
  PROVE  Moves(x) /\ Keeps(x)
<1>1. exec' = IdleThread /\ exec'.pc = "idle"
  BY DEF FailTask, IdleThread, Thread
<1>2. exec.task \in Tasks /\ state[exec.task] = "kProcessing"
  BY DEF SchedulerInv, RunnerSound
<1>3. CASE x = exec.task
  <2>1. state'[x] \in {state[x], "kFailed"}
    BY <1>2, <1>3 DEF FailTask
  <2>2. QED
    BY <1>1, <1>2, <1>3, <2>1 DEF Moves, Keeps, Running
<1>4. CASE x # exec.task
  <2>1. state'[x] = states[x]
    BY <1>2, <1>4 DEF FailTask
  <2>2. QED
    BY <1>1, <1>4, <2>1 DEF Moves, Keeps, Running
<1>5. QED
  BY <1>3, <1>4

LEMMA TaskMoves ==
  ASSUME SchedulerInv, [Next]_vars, NEW x \in Tasks
  PROVE  Moves(x) /\ Keeps(x)
<1>a. TypeOK
  BY DEF SchedulerInv
<1>b. exec.pc \in {"body", "finish"} =>
        exec.task \in Tasks /\ state[exec.task] = "kProcessing"
  BY DEF SchedulerInv, RunnerSound
<1>1. CASE Client
  <2>1. CASE UNCHANGED <<state, exec, deps, requested, owner>>
    BY <2>1 DEF Moves, Keeps, Running
  <2>2. CASE \E s \in registered, t \in Tasks, k \in Kinds, flag \in BOOLEAN :
               \E c \in CloneTargets(s, k), D \in SUBSET issued :
                  CreateTask(s, t, k, c, D, flag)
    <3>1. PICK s \in registered, t \in Tasks, k \in Kinds, flag \in BOOLEAN :
             \E c \in CloneTargets(s, k), D \in SUBSET issued :
                CreateTask(s, t, k, c, D, flag)
      BY <2>2
    <3>2. PICK c \in CloneTargets(s, k), D \in SUBSET issued :
             CreateTask(s, t, k, c, D, flag)
      BY <3>1
    <3>3. /\ t \notin issued /\ t \in issued' /\ state[t] = "kUnknown"
          /\ exec' = exec
      BY <3>2 DEF CreateTask, SchedulerInv, KnownIsIssued
    <3>4. CASE CreateTaskFails(s, t, D)
      BY <3>3, <3>4 DEF CreateTaskFails, Moves, Keeps, Running
    <3>5. CASE CreateTaskSucceeds(s, t, k, c, D, flag)
      <4>1. /\ \E v : state' = [state EXCEPT ![t] = v]
            /\ deps' = [deps EXCEPT ![t] = Unfinished(D)]
            /\ requested' = [requested EXCEPT ![t] = D]
            /\ owner' = [owner EXCEPT ![t] = s]
        BY <3>5 DEF CreateTaskSucceeds
      <4>2. CASE x = t
        BY <3>3, <4>2 DEF Moves, Keeps, Running
      <4>3. CASE x # t
        <5>1. /\ state'[x] = state[x] /\ deps'[x] = deps[x]
              /\ requested'[x] = requested[x] /\ owner'[x] = owner[x]
          BY <1>a, <4>1, <4>3 DEF TypeOK
        <5>2. QED
          BY <3>3, <5>1 DEF Moves, Keeps, Running
      <4>4. QED
        BY <4>2, <4>3
    <3>6. QED
      BY <3>2, <3>4, <3>5 DEF CreateTask
  <2>3. QED
    BY <1>1, <2>1, <2>2
    DEF Client, RegisterNewSession, ReleaseSession, CancelAllTasksInSession,
        CancelTasks, SetCancelled, taskAttrs
<1>2. CASE StartTask
  <2> DEFINE t == Head(execQueue)
  <2>1. /\ execQueue # <<>> /\ t = execQueue[1] /\ 1 \in 1..Len(execQueue)
        /\ t \in Tasks /\ exec.pc = "idle"
    BY <1>2, <1>a DEF StartTask, TypeOK
  <2>2. state[t] = "kQueued" /\ t \in callback
    BY <2>1 DEF SchedulerInv, QueueSound, QueueComplete
  <2>3. StartAnswer(t) \in {"started", "noSession"}
    BY <2>2 DEF StartAnswer
  <2>4. /\ state' = [state EXCEPT ![t] = "kProcessing"]
        /\ exec' \in {Thread("finish", t, "kCancelled", FALSE),
                      Thread("body", t, "kDone", FALSE),
                      Thread("finish", t, "kFailed", TRUE)}
        /\ UNCHANGED <<deps, requested, owner>>
    BY <1>2, <2>3 DEF StartTask, taskAttrs
  <2>5. exec'.task = t
    BY <2>4 DEF Thread
  <2>6. state'[x] = IF x = t THEN "kProcessing" ELSE state[x]
    BY <1>a, <2>1, <2>4 DEF TypeOK
  <2>7. QED
    BY <2>2, <2>4, <2>5, <2>6 DEF Moves, Keeps, Running
<1>3. CASE DecodeStep \/ RunBody \/ DecodeBufferFails \/ AwaitCallbacks
  <2>1. UNCHANGED <<state, deps, requested, owner>>
    BY <1>3 DEF DecodeStep, RunBody, DecodeBufferFails, AwaitCallbacks, taskAttrs
  <2>2. \/ exec'.pc = "idle"
        \/ exec' = exec
        \/ exec.pc = "body" /\ exec'.task = exec.task
    <3>1. CASE RunBody
      BY <1>a, <3>1 DEF RunBody, TypeOK, ThreadSet
    <3>2. CASE DecodeStep \/ DecodeBufferFails \/ AwaitCallbacks
      BY <3>2 DEF DecodeStep, DecodeBufferFails, AwaitCallbacks, IdleThread, Thread
    <3>3. QED
      BY <1>3, <3>1, <3>2
  <2>3. QED
    BY <2>1, <2>2 DEF Moves, Keeps, Running
<1>4. CASE FinishUnsuccessfully
  <2> DEFINE F == FollowingWaitingTasks(exec.task)
             s == DependentState(exec.result)
  <2>1. /\ exec.pc = "finish" /\ F \subseteq {f \in Tasks : state[f] = "kCreated"}
        /\ s \in DependentStates
    BY <1>4, <1>b, CascadeTasks DEF FinishUnsuccessfully, DependentState, DependentStates
  <2>2. exec'.pc = "await"
    BY <1>4, <1>a, <1>b, LastCallbackQueued DEF FinishUnsuccessfully
  <2>3. /\ state'[x] = IF x \in F THEN s
                       ELSE IF x = exec.task THEN "kLastCallbackQueued" ELSE state[x]
        /\ deps'[x] \subseteq deps[x] /\ UNCHANGED <<requested, owner>>
    BY <1>4 DEF FinishUnsuccessfully, taskAttrs
  <2> HIDE DEF F, s
  <2>4. QED
    BY <1>b, <2>1, <2>2, <2>3 DEF Moves, Keeps, Running
<1>5. CASE FinishSuccessfully
  <2> DEFINE R == Ready(exec.task, Waiting(exec.task))
  <2>1. /\ exec.pc = "finish" /\ R \subseteq {f \in Tasks : state[f] = "kCreated"}
        /\ \A f \in R : deps[f] = {exec.task}
    BY <1>5, <1>a, <1>b DEF FinishSuccessfully, BadFollower, Waiting, Ready, TypeOK
  <2>2. exec'.pc = "await"
    BY <1>5, <1>a, <1>b, LastCallbackQueued DEF FinishSuccessfully
  <2>3. /\ state'[x] = IF x \in R THEN "kQueued"
                       ELSE IF x = exec.task THEN "kLastCallbackQueued" ELSE state[x]
        /\ deps'[x] \subseteq deps[x] /\ UNCHANGED <<requested, owner>>
    BY <1>5, <1>a, <1>b DEF FinishSuccessfully, Advance, TypeOK, taskAttrs
  <2> HIDE DEF R
  <2>4. QED
    BY <1>b, <2>1, <2>2, <2>3 DEF Moves, Keeps, Running
<1>6. CASE FinishRefused
  <2>1. /\ exec.pc = "finish" /\ state \in [Tasks -> TaskState]
        /\ FailTask(exec.task, state, reports, active)
        /\ UNCHANGED <<deps, requested, owner>>
    BY <1>6, <1>a DEF FinishRefused, TypeOK, taskAttrs
  <2>2. QED
    BY <2>1, FailMoves
<1>7. CASE FinishStopsInCascade
  <2> DEFINE t == exec.task
             F == FollowingWaitingTasks(t)
             s == DependentState(exec.result)
  <2>1. /\ exec.pc = "finish" /\ F \subseteq {f \in Tasks : state[f] = "kCreated"}
        /\ s \in DependentStates /\ s \in TaskState
    BY <1>7, <1>b, CascadeTasks
    DEF FinishStopsInCascade, DependentState, DependentStates, TaskState
  <2>2. PICK f \in F, S \in SUBSET F :
          /\ deps' = [y \in Tasks |-> IF y \in S \cup {f} THEN {} ELSE deps[y]]
          /\ FailTask(t, [y \in Tasks |-> IF y \in S THEN s ELSE state[y]],
                      [Told(S \cup {f}, s) EXCEPT ![f] = Append(@, "kFailed")],
                      [o \in Sessions |-> active[o] \ S])
    BY <1>7 DEF FinishStopsInCascade
  <2> DEFINE states == [y \in Tasks |-> IF y \in S THEN s ELSE state[y]]
  <2>3. /\ states \in [Tasks -> TaskState] /\ states[t] = state[t]
        /\ states[x] = state[x] \/ (state[x] = "kCreated" /\ states[x] \in DependentStates)
    BY <1>a, <1>b, <2>1 DEF TypeOK
  <2>4. deps'[x] \subseteq deps[x] /\ UNCHANGED <<requested, owner>>
    BY <1>7, <2>2 DEF FinishStopsInCascade, taskAttrs
  <2>5. QED
    BY <2>1, <2>2, <2>3, <2>4, FailMoves
<1>8. CASE FinishStopsInLoop
  <2> DEFINE t == exec.task
  <2>1. exec.pc = "finish"
    BY <1>8 DEF FinishStopsInLoop
  <2>2. PICK S \in SUBSET {g \in Waiting(t) : ~BadFollower(t, g)} :
          /\ deps' = [y \in Tasks |-> IF y \in S THEN deps[y] \ {t} ELSE deps[y]]
          /\ FailTask(t,
               [y \in Tasks |-> IF y \in Ready(t, S) THEN "kQueued" ELSE state[y]],
               Told(Ready(t, S), "kQueued"), active)
    BY <1>8 DEF FinishStopsInLoop
  <2> DEFINE states == [y \in Tasks |-> IF y \in Ready(t, S) THEN "kQueued" ELSE state[y]]
  <2>3. /\ \A f \in Ready(t, S) : state[f] = "kCreated" /\ deps[f] = {t}
        /\ t \notin Ready(t, S)
    BY <1>b, <2>1 DEF BadFollower, Waiting, Ready
  <2>4. states \in [Tasks -> TaskState]
    BY <1>a DEF TypeOK, TaskState
  <2>5. /\ states[t] = state[t]
        /\ \/ states[x] = state[x]
           \/ state[x] = "kCreated" /\ states[x] = "kQueued" /\ deps[x] = {t}
    BY <1>b, <2>1, <2>3
  <2>6. deps'[x] \subseteq deps[x] /\ UNCHANGED <<requested, owner>>
    BY <1>8, <2>2 DEF FinishStopsInLoop, taskAttrs
  <2>7. QED
    BY <2>1, <2>2, <2>4, <2>5, <2>6, FailMoves
<1>9. CASE CallbackBegin
  BY <1>9 DEF CallbackBegin, taskAttrs, Moves, Keeps, Running
<1>10. CASE CallbackEnd
  <2>1. cb.task \in Tasks /\ state[cb.task] = "kLastCallbackQueued" /\ cb.result \in Results
    BY <1>10, <1>a, ThreadTypes DEF CallbackEnd, SchedulerInv, CallbacksSound
  <2>2. /\ state' \in {state, [state EXCEPT ![cb.task] = cb.result]}
        /\ UNCHANGED <<exec, deps, requested, owner>>
    BY <1>10 DEF CallbackEnd, taskAttrs
  <2>3. state'[x] = state[x] \/ (x = cb.task /\ state'[x] = cb.result)
    BY <1>a, <2>2 DEF TypeOK
  <2>4. QED
    BY <2>1, <2>2, <2>3 DEF Moves, Keeps, Running
<1>11. CASE UNCHANGED vars
  BY <1>11 DEF vars, Moves, Keeps, Running
<1>12. QED
  BY <1>1, <1>2, <1>3, <1>4, <1>5, <1>6, <1>7, <1>8, <1>9, <1>10, <1>11
  DEF Next, ExecutionThread, CallbackThread, FinishTask

\* A task is queued once, from kCreated, when the last task it waits for has run;
\* it runs only from there, and reaches a result only through the callback thread
\* or as a failure of its own.
THEOREM TaskLife == Spec => [][\A x \in Tasks : Moves(x)]_vars
<1>1. SchedulerInv /\ [Next]_vars => [\A x \in Tasks : Moves(x)]_vars
  BY TaskMoves
<1>2. QED
  BY <1>1, SchedulerInvariant, PTL DEF Spec
=============================================================================
