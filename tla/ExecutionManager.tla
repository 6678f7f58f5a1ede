-------------------------- MODULE ExecutionManager --------------------------
(***************************************************************************)
(* The task scheduler of the runtime:                                      *)
(*   runtime/framework/resource_management/execution_manager.{h,cc}.       *)
(*                                                                         *)
(* Client threads register sessions and add tasks that depend on earlier   *)
(* tasks.  One execution thread runs the queued tasks; one callback thread *)
(* delivers the last report of each task and only then ends it.  All the   *)
(* bookkeeping happens under session_and_task_lookup_mutex_, so each       *)
(* critical section is one action; what a thread does between two critical *)
(* sections is kept in `exec' and `cb'.                                    *)
(*                                                                         *)
(* A report is what the user's callback is called with: a task state, or   *)
(* "kFailed" for any non-OK status.                                        *)
(***************************************************************************)
EXTENDS Integers, FiniteSets, Sequences, SequencesExt

CONSTANTS
    Sessions,        \* session ids
    Tasks,           \* task ids, handed out once each by GetNewTaskId
    NoTask,          \* the task of an idle thread
    NoSession,       \* the clone target of a task that is no clone task
    Kinds,           \* the Add*Task operations the clients use
    MaxDeps,         \* bound: dependencies a client names for one task
    MaxChunks,       \* bound: streamed reports of one decode
    EarlyRelease,    \* a client may give up waiting and release a busy session
    SlowCallbacks,   \* a user callback may outlast FinishTask's 10 s wait
    BufferFault      \* CopyToTensorBuffer may fail at the start of a decode

AllKinds == {"prefill", "decode", "score", "clone"}

ASSUME ConstantsAssumption ==
    /\ IsFiniteSet(Tasks) /\ NoTask \notin Tasks
    /\ NoSession \notin Sessions
    /\ Kinds \subseteq AllKinds
    /\ MaxDeps \in Nat /\ MaxChunks \in Nat
    /\ {EarlyRelease, SlowCallbacks, BufferFault} \subseteq BOOLEAN

TaskState == {"kUnknown", "kCreated", "kQueued", "kProcessing", "kDone",
              "kMaxNumTokensReached", "kFailed", "kDependentTaskFailed",
              "kCancelled", "kDependentTaskCancelled", "kLastCallbackQueued"}

EndStates == {"kDone", "kMaxNumTokensReached", "kFailed",
              "kDependentTaskFailed", "kCancelled", "kDependentTaskCancelled"}

IsTaskEndState(s) == s \in EndStates

FailedStates == {"kFailed", "kDependentTaskFailed"}
CancelledStates == {"kCancelled", "kDependentTaskCancelled"}

\* What the body of a task hands to FinishTask; "kFailed" is an error status.
Results == {"kDone", "kMaxNumTokensReached", "kFailed", "kCancelled"}

VARIABLES
    registered,  \* session ids handed out
    live,        \* keys of session_lookup_
    active,      \* SessionInfo.active_tasks
    issued,      \* task ids handed out
    state,       \* TaskInfo.task_state; "kUnknown": not in task_lookup_
    owner,       \* TaskInfo.session_id
    kind,        \* which Add*Task made the task
    target,      \* cloned_session_id captured by a clone task
    deps,        \* TaskInfo.dependent_tasks
    following,   \* TaskInfo.following_tasks
    cancelled,   \* tasks whose shared `cancelled' flag is set
    callback,    \* tasks whose TaskInfo still holds its callback
    execQueue,   \* queue of execution_thread_pool_
    exec,        \* the execution thread
    cbQueue,     \* queue of callback_thread_pool_
    cb,          \* the callback thread
    reports,     \* history: what each task's callback has been called with
    requested    \* history: the dependencies the client named

sessionVars == <<registered, live>>
taskAttrs == <<issued, owner, kind, target, requested>>
vars == <<registered, live, active, issued, state, owner, kind, target, deps,
          following, cancelled, callback, execQueue, exec, cbQueue, cb,
          reports, requested>>

-----------------------------------------------------------------------------
(* The threads.                                                            *)

\* A thread of a pool: pc, the task it works on, the result it carries, and
\* whether the callback it carries is the no-op FinishTask is given when
\* StartTask failed.
Thread(pc, t, r, mute) == [pc |-> pc, task |-> t, result |-> r, mute |-> mute]
IdleThread == Thread("idle", NoTask, "kDone", FALSE)
Entry(t, r, mute) == [task |-> t, result |-> r, mute |-> mute]

EntrySet == [task : Tasks, result : Results, mute : BOOLEAN]
ThreadSet(pcs) ==
    [pc : pcs, task : Tasks \cup {NoTask}, result : Results, mute : BOOLEAN]

TypeOK ==
    /\ registered \subseteq Sessions /\ live \subseteq registered
    /\ active \in [Sessions -> SUBSET Tasks]
    /\ issued \subseteq Tasks
    /\ state \in [Tasks -> TaskState]
    /\ owner \in [Tasks -> Sessions \cup {NoSession}]
    /\ kind \in [Tasks -> AllKinds]
    /\ target \in [Tasks -> Sessions \cup {NoSession}]
    /\ deps \in [Tasks -> SUBSET Tasks]
    /\ following \in [Tasks -> SUBSET Tasks]
    /\ cancelled \subseteq Tasks
    /\ callback \subseteq Tasks
    /\ execQueue \in Seq(Tasks)
    /\ exec \in ThreadSet({"idle", "body", "finish", "await"})
    /\ cbQueue \in Seq(EntrySet)
    /\ cb \in ThreadSet({"idle", "called"})
    /\ reports \in [Tasks -> Seq(TaskState)]
    /\ requested \in [Tasks -> SUBSET Tasks]

Init ==
    /\ registered = {} /\ live = {}
    /\ active = [s \in Sessions |-> {}]
    /\ issued = {}
    /\ state = [t \in Tasks |-> "kUnknown"]
    /\ owner = [t \in Tasks |-> NoSession]
    /\ kind = [t \in Tasks |-> "prefill"]
    /\ target = [t \in Tasks |-> NoSession]
    /\ deps = [t \in Tasks |-> {}]
    /\ following = [t \in Tasks |-> {}]
    /\ cancelled = {} /\ callback = {}
    /\ execQueue = <<>> /\ exec = IdleThread
    /\ cbQueue = <<>> /\ cb = IdleThread
    /\ reports = [t \in Tasks |-> <<>>]
    /\ requested = [t \in Tasks |-> {}]

Known(t) == state[t] # "kUnknown"
Ended(t) == IsTaskEndState(state[t])

\* The test UpdateTaskState makes before it lets a task reach an end state.
MayEnd(t) == owner[t] \in live /\ t \in active[owner[t]]

\* Calls of task callbacks: every task of S is told s, in this critical section.
Told(S, s) == [t \in Tasks |-> IF t \in S THEN Append(reports[t], s)
                                          ELSE reports[t]]

-----------------------------------------------------------------------------
(* Sessions.                                                               *)

RegisterNewSession(s) ==
    /\ s \notin registered
    /\ registered' = registered \cup {s}
    /\ live' = live \cup {s}
    /\ UNCHANGED <<active, taskAttrs, state, deps, following, cancelled,
                   callback, execQueue, exec, cbQueue, cb, reports>>

\* The destructor of a session waits until the session has no active task, but
\* ignores a timeout of that wait and releases the session all the same.
ReleaseSession(s) ==
    /\ s \in live
    /\ EarlyRelease \/ active[s] = {}
    /\ live' = live \ {s}
    /\ UNCHANGED <<registered, active, taskAttrs, state, deps, following,
                   cancelled, callback, execQueue, exec, cbQueue, cb, reports>>

\* The tasks whose flag is still to be read.  Setting any other flag changes
\* nothing the program can see, and the model leaves it out.
ReadsFlag == {t \in Tasks : \/ state[t] \in {"kCreated", "kQueued"}
                            \/ exec.pc = "body" /\ exec.task = t}

SetCancelled(S) ==
    /\ cancelled' = cancelled \cup (S \cap ReadsFlag)
    /\ UNCHANGED <<sessionVars, active, taskAttrs, state, deps, following,
                   callback, execQueue, exec, cbQueue, cb, reports>>

CancelAllTasksInSession(s) == s \in live /\ SetCancelled(active[s])

\* TaskController::Cancel sets its flag whatever the state of the tasks that
\* share it: one task, or the two that one RunDecodeAsync adds.
CancelTasks(S) == (\A t \in S : Known(t)) /\ SetCancelled(S)

-----------------------------------------------------------------------------
(* Adding a task.                                                          *)

\* The state a task starts in, from the end states among its dependencies.
InitialState(D) ==
    CASE \E d \in D : state[d] \in FailedStates -> "kDependentTaskFailed"
      [] /\ ~ \E d \in D : state[d] \in FailedStates
         /\ \E d \in D : state[d] \in CancelledStates
            -> "kDependentTaskCancelled"
      [] /\ ~ \E d \in D : state[d] \in FailedStates \cup CancelledStates
         /\ \E d \in D : state[d] = "kMaxNumTokensReached"
            -> "kMaxNumTokensReached"
      [] OTHER -> "kCreated"

\* The dependencies a new task has to follow: not ended, and not in
\* kLastCallbackQueued, which counts as finished.
Unfinished(D) == {d \in D : state[d] \in {"kCreated", "kQueued", "kProcessing"}}

\* The dependencies are visited in hash order: those visited before a missing
\* one keep t among their followers although t is never created.
CreateTaskFails(s, t, D) ==
    /\ \/ s \notin live /\ UNCHANGED following
       \/ /\ s \in live
          /\ \E d \in D : ~Known(d)
          /\ \E S \in SUBSET Unfinished(D) :
                following' = [d \in Tasks |-> IF d \in S
                                              THEN following[d] \cup {t}
                                              ELSE following[d]]
    /\ UNCHANGED <<active, state, owner, kind, target, requested, deps,
                   cancelled, callback, execQueue, reports>>

CreateTaskSucceeds(s, t, k, c, D, flag) ==
    LET initial == InitialState(D)
        waits   == Unfinished(D)
        queued  == initial = "kCreated" /\ waits = {}
    IN  /\ s \in live
        /\ \A d \in D : Known(d)
        /\ following' = [d \in Tasks |-> IF d \in waits
                                         THEN following[d] \cup {t}
                                         ELSE following[d]]
        /\ active' = [active EXCEPT ![s] =
                        IF IsTaskEndState(initial) THEN @ ELSE @ \cup {t}]
        /\ owner' = [owner EXCEPT ![t] = s]
        /\ kind' = [kind EXCEPT ![t] = k]
        /\ target' = [target EXCEPT ![t] = c]
        /\ requested' = [requested EXCEPT ![t] = D]
        /\ deps' = [deps EXCEPT ![t] = waits]
        /\ cancelled' = IF flag THEN cancelled \cup {t} ELSE cancelled
        /\ callback' = callback \cup {t}
        /\ state' = [state EXCEPT ![t] = IF queued THEN "kQueued" ELSE initial]
        /\ reports' = [reports EXCEPT ![t] =
                         IF queued THEN <<"kCreated", "kQueued">>
                                   ELSE <<initial>>]
        /\ execQueue' = IF queued THEN Append(execQueue, t) ELSE execQueue

CreateTask(s, t, k, c, D, flag) ==
    /\ t \notin issued
    /\ issued' = issued \cup {t}
    /\ CreateTaskFails(s, t, D) \/ CreateTaskSucceeds(s, t, k, c, D, flag)
    /\ UNCHANGED <<sessionVars, exec, cbQueue, cb>>

-----------------------------------------------------------------------------
(* The execution thread.                                                   *)

\* How StartTask answers for the task at the head of the queue.
StartAnswer(t) ==
    CASE state[t] = "kCancelled" -> "skip"
      [] state[t] # "kCancelled" /\ t \notin callback -> "noCallback"
      [] state[t] \notin {"kCancelled", "kQueued"} /\ t \in callback
         -> "notQueued"
      [] state[t] = "kQueued" /\ t \in callback /\ owner[t] \notin live
         -> "noSession"
      [] OTHER -> "started"

\* The thread takes the next closure from its queue, and the closure calls
\* StartTask.  The first RETURN_IF_CANCELLED follows at once.  If StartTask
\* failed, FinishTask gets its error and a no-op callback.
StartTask ==
    /\ exec.pc = "idle"
    /\ execQueue # <<>>
    /\ LET t == Head(execQueue)
           answer == StartAnswer(t)
       IN  /\ execQueue' = Tail(execQueue)
           /\ state' = IF answer \in {"started", "noSession"}
                       THEN [state EXCEPT ![t] = "kProcessing"] ELSE state
           /\ reports' =
                CASE answer \in {"started", "noSession"}
                     -> Told({t}, "kProcessing")
                  [] answer = "notQueued" -> Told({t}, "kFailed")
                  [] OTHER -> reports
           /\ callback' = IF answer = "started" THEN callback \ {t}
                                                ELSE callback
           /\ exec' =
                CASE answer = "skip" -> IdleThread
                  [] answer = "started" /\ t \in cancelled
                     -> Thread("finish", t, "kCancelled", FALSE)
                  [] answer = "started" /\ t \notin cancelled
                     -> Thread("body", t, "kDone", FALSE)
                  [] OTHER -> Thread("finish", t, "kFailed", TRUE)
    /\ UNCHANGED <<sessionVars, active, taskAttrs, deps, following, cancelled,
                   cbQueue, cb>>

\* A decode streams the text of a step to the callback while it runs.
DecodeStep ==
    LET t == exec.task
    IN  /\ exec.pc = "body" /\ kind[t] = "decode"
        /\ Len(reports[t]) < 3 + MaxChunks
        /\ reports' = Told({t}, "kProcessing")
        /\ UNCHANGED <<sessionVars, active, taskAttrs, state, deps, following,
                       cancelled, callback, execQueue, exec, cbQueue, cb>>

\* Mutant of BodyResults: the check of the flag after the run is missing.
BodyResultsUnchecked(t) == {"kDone", "kFailed"}

\* What the body of task t can end with.  Once the flag is set the last check
\* turns the result into kCancelled; only the errors a body reports before that
\* check remain, and a clone has none.  Cloning into a session that is gone is
\* an error; a decode can run into the token limit.
BodyResults(t) ==
    IF t \in cancelled
    THEN {"kCancelled"} \cup {r \in {"kFailed"} : kind[t] # "clone"}
    ELSE {"kFailed"}
           \cup {r \in {"kDone"} : kind[t] = "clone" => target[t] \in live}
           \cup {r \in {"kMaxNumTokensReached"} : kind[t] = "decode"}

RunBody ==
    /\ exec.pc = "body"
    /\ \E r \in BodyResults(exec.task) :
          exec' = [exec EXCEPT !.pc = "finish", !.result = r]
    /\ UNCHANGED <<sessionVars, active, taskAttrs, state, deps, following,
                   cancelled, callback, execQueue, cbQueue, cb, reports>>

\* The early return of AddDecodeTask that does not go through FinishTask.
DecodeBufferFails ==
    /\ BufferFault
    /\ exec.pc = "body" /\ kind[exec.task] = "decode"
    /\ reports' = Told({exec.task}, "kFailed")
    /\ exec' = IdleThread
    /\ UNCHANGED <<sessionVars, active, taskAttrs, state, deps, following,
                   cancelled, callback, execQueue, cbQueue, cb>>

-----------------------------------------------------------------------------
(* FinishTask.                                                             *)

\* Mutant of Waiting: ended followers are not skipped.
WaitingOrEnded(t) == {f \in following[t] : Known(f)}

\* The followers of t that have not ended.
Waiting(t) == {f \in following[t] : Known(f) /\ ~Ended(f)}

\* FollowingWaitingTasks: the least set that holds the waiting followers of t
\* and of its own members.
FollowingWaitingTasks(t) ==
    {f \in Tasks : \A S \in SUBSET Tasks :
        (/\ Waiting(t) \subseteq S
         /\ \A x \in S : Waiting(x) \subseteq S) => f \in S}

\* The walk stops with an error at a follower that does not exist, or that does
\* not depend (any more) on the task it follows -- whether it has ended or not.
WalkFails(t) ==
    \E x \in {t} \cup FollowingWaitingTasks(t) :
        \E f \in following[x] : ~Known(f) \/ x \notin deps[f]

\* Mutants of QueueLastCallback: the closure loses its task, or its callback.
QueueCallbackOfNoTask(t) ==
    /\ cbQueue' = Append(cbQueue, Entry(NoTask, exec.result, exec.mute))
    /\ exec' = [exec EXCEPT !.pc = "await"]
QueueLostCallback(t) ==
    /\ cbQueue' = Append(cbQueue, Entry(t, exec.result, TRUE))
    /\ exec' = [exec EXCEPT !.pc = "await"]

\* The last report is handed to the callback thread.
QueueLastCallback(t) ==
    /\ cbQueue' = Append(cbQueue, Entry(t, exec.result, exec.mute))
    /\ exec' = [exec EXCEPT !.pc = "await"]

DependentState(result) ==
    IF result = "kCancelled" THEN "kDependentTaskCancelled"
                             ELSE "kDependentTaskFailed"

FinishUnsuccessfully ==
    LET t == exec.task
        F == FollowingWaitingTasks(t)
        s == DependentState(exec.result)
    IN  /\ exec.pc = "finish" /\ state[t] = "kProcessing"
        /\ exec.result \in {"kFailed", "kCancelled"}
        /\ ~WalkFails(t)
        /\ \A f \in F : MayEnd(f)
        /\ deps' = [x \in Tasks |-> IF x \in F THEN {} ELSE deps[x]]
        /\ reports' = Told(F, s)
        /\ active' = [o \in Sessions |-> active[o] \ F]
        /\ state' = [x \in Tasks |-> IF x \in F THEN s
                                     ELSE IF x = t THEN "kLastCallbackQueued"
                                     ELSE state[x]]
        /\ QueueLastCallback(t)
        /\ UNCHANGED <<sessionVars, taskAttrs, following, cancelled, callback,
                       execQueue, cb>>

\* The followers of t that the loop over following_tasks stops at.
BadFollower(t, f) ==
    \/ ~Known(f)
    \/ ~Ended(f) /\ (state[f] # "kCreated" \/ t \notin deps[f])

\* Mutants of Ready: emptiness is tested before the erase, or not at all.
ReadyBeforeErase(t, S) == {f \in S : deps[f] = {}}
ReadyAtOnce(t, S) == S

\* Dropping the dependency on t lets these followers be queued.
Ready(t, S) == {f \in S : deps[f] = {t}}

\* Mutant of Advance: the closure of a ready follower is not scheduled.
AdvanceWithoutPool(t, S, others) ==
    /\ deps' = [x \in Tasks |-> IF x \in S THEN deps[x] \ {t} ELSE deps[x]]
    /\ state' = [x \in Tasks |-> IF x \in Ready(t, S) THEN "kQueued"
                                                      ELSE others[x]]
    /\ execQueue' = execQueue

\* The followers in S lose their dependency on t; those that have none left are
\* queued, in the order the hash set yields them.
Advance(t, S, others) ==
    /\ deps' = [x \in Tasks |-> IF x \in S THEN deps[x] \ {t} ELSE deps[x]]
    /\ state' = [x \in Tasks |-> IF x \in Ready(t, S) THEN "kQueued"
                                                      ELSE others[x]]
    /\ \E q \in SetToSeqs(Ready(t, S)) : execQueue' = execQueue \o q

FinishSuccessfully ==
    LET t == exec.task
    IN  /\ exec.pc = "finish" /\ state[t] = "kProcessing"
        /\ exec.result \in {"kDone", "kMaxNumTokensReached"}
        /\ \A f \in following[t] : ~BadFollower(t, f)
        /\ Advance(t, Waiting(t),
                   [state EXCEPT ![t] = "kLastCallbackQueued"])
        /\ reports' = Told(Ready(t, Waiting(t)), "kQueued")
        /\ QueueLastCallback(t)
        /\ UNCHANGED <<sessionVars, active, taskAttrs, following, cancelled,
                       callback, cb>>

\* invoke_callback_and_return: the callback gets the error under the lock and
\* the task becomes kFailed without passing through the callback thread -- unless
\* UpdateTaskState refuses, which tells a callback still held by the TaskInfo.
FailTask(t, states, told, actives) ==
    /\ state' = IF MayEnd(t) THEN [states EXCEPT ![t] = "kFailed"] ELSE states
    /\ active' = IF MayEnd(t) THEN [actives EXCEPT ![owner[t]] = @ \ {t}]
                              ELSE actives
    /\ reports' = IF exec.mute /\ (MayEnd(t) \/ t \notin callback)
                  THEN told
                  ELSE [told EXCEPT ![t] = Append(@, "kFailed")]
    /\ exec' = IdleThread

\* FinishTask is refused before it touches any follower.
Refused(t) ==
    \/ state[t] # "kProcessing"
    \/ exec.result \in {"kFailed", "kCancelled"} /\ WalkFails(t)

FinishRefused ==
    LET t == exec.task
    IN  /\ exec.pc = "finish"
        /\ Refused(t)
        /\ FailTask(t, state, reports, active)
        /\ UNCHANGED <<sessionVars, taskAttrs, deps, following, cancelled,
                       callback, execQueue, cbQueue, cb>>

\* UpdateAllTasksToState stops at a follower whose session is gone; the ones it
\* visited before have ended.
FinishStopsInCascade ==
    LET t == exec.task
        F == FollowingWaitingTasks(t)
        s == DependentState(exec.result)
    IN  /\ exec.pc = "finish" /\ state[t] = "kProcessing"
        /\ exec.result \in {"kFailed", "kCancelled"}
        /\ ~WalkFails(t)
        /\ \E f \in F : \E S \in SUBSET {g \in F : MayEnd(g)} :
             /\ ~MayEnd(f)
             /\ deps' = [x \in Tasks |-> IF x \in S \cup {f} THEN {}
                                                             ELSE deps[x]]
             /\ FailTask(t,
                  [x \in Tasks |-> IF x \in S THEN s ELSE state[x]],
                  [Told(S \cup {f}, s) EXCEPT ![f] = Append(@, "kFailed")],
                  [o \in Sessions |-> active[o] \ S])
        /\ UNCHANGED <<sessionVars, taskAttrs, following, cancelled, callback,
                       execQueue, cbQueue, cb>>

\* The loop over following_tasks stops at a bad follower; the ones it visited
\* before have lost their dependency.
FinishStopsInLoop ==
    LET t == exec.task
    IN  /\ exec.pc = "finish" /\ state[t] = "kProcessing"
        /\ exec.result \in {"kDone", "kMaxNumTokensReached"}
        /\ \E f \in following[t] : BadFollower(t, f)
        /\ \E S \in SUBSET {g \in Waiting(t) : ~BadFollower(t, g)} :
             /\ deps' = [x \in Tasks |-> IF x \in S THEN deps[x] \ {t}
                                                    ELSE deps[x]]
             /\ \E q \in SetToSeqs(Ready(t, S)) : execQueue' = execQueue \o q
             /\ FailTask(t,
                  [x \in Tasks |-> IF x \in Ready(t, S) THEN "kQueued"
                                                        ELSE state[x]],
                  Told(Ready(t, S), "kQueued"),
                  active)
        /\ UNCHANGED <<sessionVars, taskAttrs, following, cancelled, callback,
                       cbQueue, cb>>

FinishTask ==
    \/ FinishUnsuccessfully
    \/ FinishSuccessfully
    \/ FinishRefused
    \/ FinishStopsInCascade
    \/ FinishStopsInLoop

\* FinishTask ends by waiting until the callback thread has nothing left to do.
AwaitCallbacks ==
    /\ exec.pc = "await"
    /\ SlowCallbacks \/ (cbQueue = <<>> /\ cb.pc = "idle")
    /\ exec' = IdleThread
    /\ UNCHANGED <<sessionVars, active, taskAttrs, state, deps, following,
                   cancelled, callback, execQueue, cbQueue, cb, reports>>

-----------------------------------------------------------------------------
(* The callback thread.                                                    *)

CallbackBegin ==
    /\ cb.pc = "idle"
    /\ cbQueue # <<>>
    /\ LET e == Head(cbQueue)
       IN  /\ cb' = Thread("called", e.task, e.result, e.mute)
           /\ reports' = IF e.mute THEN reports ELSE Told({e.task}, e.result)
    /\ cbQueue' = Tail(cbQueue)
    /\ UNCHANGED <<sessionVars, active, taskAttrs, state, deps, following,
                   cancelled, callback, execQueue, exec>>

\* Mutant of CallbackEnd: the session keeps the task among its active ones.
CallbackEndKeepsActive ==
    /\ cb.pc = "called"
    /\ state' = [state EXCEPT ![cb.task] = cb.result]
    /\ cb' = IdleThread
    /\ UNCHANGED <<sessionVars, active, taskAttrs, deps, following, cancelled,
                   callback, execQueue, exec, cbQueue, reports>>

\* The callback has returned: UpdateTaskState ends the task, or refuses because
\* its session is gone.
CallbackEnd ==
    /\ cb.pc = "called"
    /\ LET t == cb.task
       IN  /\ state' = IF MayEnd(t) THEN [state EXCEPT ![t] = cb.result]
                                    ELSE state
           /\ active' = IF MayEnd(t)
                        THEN [active EXCEPT ![owner[t]] = @ \ {t}] ELSE active
           /\ reports' = IF ~MayEnd(t) /\ t \in callback
                         THEN Told({t}, "kFailed") ELSE reports
    /\ cb' = IdleThread
    /\ UNCHANGED <<sessionVars, taskAttrs, deps, following, cancelled,
                   callback, execQueue, exec, cbQueue>>

-----------------------------------------------------------------------------
(* Clients: any thread, in any order.                                      *)

CloneTargets(s, k) == IF k = "clone" THEN live \ {s} ELSE {NoSession}

Client ==
    \/ \E s \in Sessions : \/ RegisterNewSession(s)
                           \/ ReleaseSession(s)
                           \/ CancelAllTasksInSession(s)
    \/ \E t \in Tasks : \E d \in {t} \cup requested[t] : CancelTasks({d, t})
    \/ \E s \in registered, t \in Tasks, k \in Kinds, flag \in BOOLEAN :
         \E c \in CloneTargets(s, k), D \in SUBSET issued :
            /\ Cardinality(D) <= MaxDeps
            /\ CreateTask(s, t, k, c, D, flag)

ExecutionThread ==
    StartTask \/ DecodeStep \/ RunBody \/ DecodeBufferFails \/ FinishTask
      \/ AwaitCallbacks

CallbackThread == CallbackBegin \/ CallbackEnd

Next == Client \/ ExecutionThread \/ CallbackThread

\* The threads keep running; model execution and user callbacks return.  Nothing
\* is assumed of the clients.
Fairness == WF_vars(ExecutionThread) /\ WF_vars(CallbackThread)

Spec == Init /\ [][Next]_vars /\ Fairness

-----------------------------------------------------------------------------
(* Properties.                                                             *)

\* States in which the closure of a task has been handed to the execution pool.
Launched == {"kQueued", "kProcessing", "kLastCallbackQueued", "kDone"}

\* The execution thread is inside the body of t, or about to finish it.
Running(t) == exec.pc \in {"body", "finish"} /\ exec.task = t

PastRun(t) ==
    state[t] \notin {"kUnknown", "kCreated", "kQueued"} /\ ~Running(t)

\* A task is handed to the execution thread only after the body of every
\* dependency the client named is over: no interleaving of task creation with
\* the end of a dependency lets a task overtake one.
RunsAfterDependencies ==
    \A t \in Tasks : state[t] \in Launched => \A d \in requested[t] : PastRun(d)

\* What WaitUntilDone relies on: a task whose state is an end state has told its
\* callback exactly one last report, the one that says so, and tells it nothing
\* afterwards.
EndedMeansReported ==
    \A t \in Tasks : Ended(t) =>
        /\ reports[t] # <<>>
        /\ Last(reports[t]) = state[t]
        /\ \A i \in 1..(Len(reports[t]) - 1) : ~IsTaskEndState(reports[t][i])

\* What WaitUntilSessionDone relies on: the active tasks of a session are
\* exactly its tasks that have not ended.
ActiveTasksExact ==
    \A s \in Sessions :
        active[s] = {t \in Tasks : owner[t] = s /\ Known(t) /\ ~Ended(t)}

\* The execution pool holds each queued task once and no other task, so
\* StartTask never meets a task it has to refuse.
QueueExact ==
    /\ \A i \in 1..Len(execQueue) : state[execQueue[i]] = "kQueued"
    /\ \A i, j \in 1..Len(execQueue) : i # j => execQueue[i] # execQueue[j]
    /\ \A t \in Tasks : state[t] = "kQueued" =>
         t \in callback /\ \E i \in 1..Len(execQueue) : execQueue[i] = t

\* An end state is final: no late callback, cascade or refused FinishTask changes
\* the outcome a waiter has seen, nor calls the callback again.
EndIsFinal ==
    [][\A t \in Tasks : Ended(t) =>
          state'[t] = state[t] /\ reports'[t] = reports[t]]_vars

\* A cancellation that comes before the last check of the flag is not lost: the
\* task does not end as done.
CancelHonoured ==
    \A t \in cancelled :
        /\ state[t] # "kDone"
        /\ exec.pc = "finish" /\ exec.task = t => exec.result # "kDone"

\* Every task that was added ends, whatever else the clients do.
EveryTaskEnds == \A t \in Tasks : Known(t) ~> Ended(t)

\* io_types.h on kDependentTaskCancelled: "The task was cancelled because a
\* dependent task was cancelled."  No task goes on waiting for the others once a
\* task it follows has failed or was cancelled.
FollowersShareFailure ==
    \A d \in Tasks : state[d] \in FailedStates \cup CancelledStates =>
        \A t \in following[d] : state[t] # "kCreated"

-----------------------------------------------------------------------------
(* The inductive invariant behind the safety theorems.                     *)

KnownIsIssued == \A t \in Tasks : Known(t) => t \in issued

QueueSound ==
    /\ \A i \in 1..Len(execQueue) : state[execQueue[i]] = "kQueued"
    /\ \A i, j \in 1..Len(execQueue) : i # j => execQueue[i] # execQueue[j]

QueueComplete ==
    \A t \in Tasks : state[t] = "kQueued" =>
        t \in callback /\ \E i \in 1..Len(execQueue) : execQueue[i] = t

\* A task that was never queued has not lost its callback.
CallbackHeld == \A t \in Tasks : state[t] = "kCreated" => t \in callback

\* The execution thread runs a task in kProcessing.
RunnerSound == exec.pc \in {"body", "finish"} =>
                 exec.task \in Tasks /\ state[exec.task] = "kProcessing"

\* Each last callback still to be delivered, or being delivered, belongs to a
\* different task in kLastCallbackQueued.
CallbacksSound ==
    /\ \A i \in 1..Len(cbQueue) :
         state[cbQueue[i].task] = "kLastCallbackQueued"
    /\ \A i, j \in 1..Len(cbQueue) : i # j => cbQueue[i].task # cbQueue[j].task
    /\ cb.pc = "called" =>
         /\ cb.task \in Tasks /\ state[cb.task] = "kLastCallbackQueued"
         /\ \A i \in 1..Len(cbQueue) : cbQueue[i].task # cb.task

\* Only a task that was never queued has dependencies left.
WaitersSound ==
    \A t \in Tasks : deps[t] # {} =>
        state[t] = "kCreated" \/ (Ended(t) /\ state[t] # "kDone")

\* Of the dependencies the client named, those the task no longer waits for have
\* run.
DependenciesSound ==
    \A t \in Tasks :
        state[t] \in Launched \/ (state[t] = "kCreated" /\ deps[t] # {}) =>
            \A d \in requested[t] : d \in deps[t] \/ PastRun(d)

SchedulerInv ==
    /\ TypeOK
    /\ KnownIsIssued
    /\ QueueSound
    /\ QueueComplete
    /\ CallbackHeld
    /\ RunnerSound
    /\ CallbacksSound
    /\ WaitersSound
    /\ DependenciesSound

-----------------------------------------------------------------------------
(* The inductive invariant behind what a waiter is told.                   *)

OwnersRegistered == \A t \in Tasks : Known(t) => owner[t] \in registered

\* The task whose callback is being called with its last report.
Delivering(t) == cb.pc = "called" /\ cb.task = t

\* The tasks a later step may still bring to an end state.
MayStillEnd(t) ==
    /\ owner[t] \in live
    /\ state[t] \in {"kCreated", "kQueued", "kLastCallbackQueued"} \/ Running(t)

\* No report of an end state, but for the last one while it is delivered.
ReportSound(t) == MayStillEnd(t) =>
    /\ \A i \in 1..Len(reports[t]) :
         IsTaskEndState(reports[t][i]) => Delivering(t) /\ i = Len(reports[t])
    /\ Delivering(t) => reports[t] # <<>> /\ Last(reports[t]) = cb.result

ReportsSound == \A t \in Tasks : ReportSound(t)

\* A callback is replaced by the no-op only when the session is gone.
MutedGone ==
    /\ exec.pc \in {"body", "finish"} /\ exec.mute => owner[exec.task] \notin live
    /\ \A i \in 1..Len(cbQueue) : cbQueue[i].mute => owner[cbQueue[i].task] \notin live
    /\ cb.pc = "called" /\ cb.mute => owner[cb.task] \notin live

\* The flag of a task is not set after its result has become kDone.
DoneUncancelled ==
    /\ \A i \in 1..Len(cbQueue) :
         cbQueue[i].result = "kDone" => cbQueue[i].task \notin cancelled
    /\ cb.pc = "called" /\ cb.result = "kDone" => cb.task \notin cancelled

OutcomeInv ==
    /\ OwnersRegistered
    /\ ActiveTasksExact
    /\ ReportsSound
    /\ EndedMeansReported
    /\ MutedGone
    /\ DoneUncancelled
    /\ CancelHonoured
=============================================================================
