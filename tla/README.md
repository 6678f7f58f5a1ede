# Lunaris runtime: specification and proofs

TLA+ specifications of the stateful core of this repository: the C++ runtime from
the thread pool to the conversation, with the executor, the caches and the files under
it, and the concurrent parts of its Kotlin and TypeScript users.  TLC checks them
on small instances; TLAPS proves the safety of the scheduler, of its sessions, of the
pool, of the shared contexts, of the conversation and of seven small parts for every
number of sessions, tasks, threads, handlers, messages and samples.

    tlc -workers 2 -config Conversation.cfg MCConversation.tla
    tlapm ExecutionManagerProofs.tla

`PROJECT.json` lists the runs, the lines each definition stands for (`map`), the
hazards of the code with the properties that cover them, the disagreements found
(`findings`) and the theorems.  Paths below are relative to `src/`.

## 1. Inventory

### The C++ runtime

| Component | State | Operations | What is hard | What makes it correct |
|---|---|---|---|---|
| **ExecutionManager**, `runtime/framework/resource_management/execution_manager.{h,cc}` | `session_lookup_` (active tasks), `task_lookup_` (state, dependencies, followers, flag, callback), two one-thread pools | register, release, cancel a session; add prefill, decode, score, clone tasks; start, finish a task; wait | any number of clients against two threads; a task ends in two steps (`FinishTask`, then the end of its last callback); cascades of failure; refused updates; a 10 s wait that is ignored | a task runs after its dependencies; a task ends once, has told its callback so, and ends at all; a cancellation is not lost |
| **SessionAdvanced**, `runtime/core/session_advanced.{h,cc}` | `session_state_`, `last_task_ids_`, mutex | prefill, decode, score, clone, stream, cancel, destroy | cancellation does not take the mutex; a stream continues from a callback; the destructor waits for tasks that add tasks | tasks in call order; the tasks it names are known to the scheduler; they all end |
| **ThreadPool / WorkerThread**, `runtime/framework/threadpool.{h,cc}`, `worker_thread*.{h,cc}` | `tasks_`, `threads_`, `num_active_tasks_`, `stopped_` | Schedule, RunWorker, WaitUntilDone, destroy | threads on demand, shutdown with work queued, creation of a thread fails | order, each closure once, drain, the destructor returns |
| **SessionBasic** and the loops of **tasks.cc**, `runtime/core/` | queue of one worker, `cancelled_`, checkpoints; step counters of a loop | prefill, decode, score, cancel, save and rewind checkpoints | `cancelled_` reset by the next turn; a loop that ends in the middle of a draft, at the limit, or with a token sampled too many | what the caller was told is what the context holds; a checkpoint brings back what was saved |
| **LLM executors and ProcessedTokens**, `runtime/executor/` | processed and pending tokens, step, KV cache and its room | prefill, decode (internal, external and drafted sampling), logits, set the step back | a lazy rollback cuts into pending tokens; several candidates; failed runs of the model | the cache holds the tokens recorded as processed |
| **ResourceManager**, `.../resource_manager.{h,cc}` | `current_handler_`, executor step and context, shared processed contexts, LoRA ids | AcquireExecutorWithContextHandler, calls of LockedLlmExecutor, clone contexts | copy on write decided from the longest sharer; context saved and restored lazily | each session has a context of its own |
| **Conversation**, `runtime/conversation/*` | history, checkpoint index, task controllers per group | SendMessage(Async), cancel, clone, callbacks that split channels | cancellation between prefill and decode; failures after the history was written; channels forgotten by rewinding | history and context agree; each turn's end is told |
| **StopTokenDetector**, `runtime/components/stop_token_detector.*` | partial matches per stop sequence and candidate | add sequences, process tokens | overlapping sequences, text held back, split characters | the text ends before its first stop sequence |
| **Embedding lookup**, `runtime/components/embedding_lookup/*` | embeddings that came with the prompt, next row | lookup of a group, of one token | positions carried from group to group | the n-th special token gets the n-th embedding |
| **Turns**, `conversation.cc`, `model_data_processor/gemma3_data_processor.cc`, `core/session_utils.cc` | `is_appending_message_`; `session_state_` | single-turn template, prompt templates of a session | a message that leaves its turn open; chunks of one turn | each turn is opened and closed once |
| **Audio executor**, `runtime/executor/audio_litert_compiled_model_executor.*` | streaming context, swapped buffers | encode, save, restore, clone | handles that share memory | a session's context is its own |
| **Audio preprocessor**, `runtime/components/preprocessor/*` | queue of samples | preprocess, reset | windows across inputs, hop longer than a frame | the windows do not depend on how the sound was cut |
| **Model files**, `schema/*`, `runtime/util/litert_lm_loader.*` | sections, mapped regions | build, read the header, map on demand | offsets, alignment, two threads that map the same section | a section is read as it was written |
| **Engine**, `runtime/core/engine_*` | settings, owned managers | create, create sessions | construction and destruction order | sessions die first |
| **ExecutionQueue**, **ResourceRegistry**, `runtime/framework/` | queue; named resources with locks | enqueue, remove, stop; register, acquire | closures left behind; a lock held while waiting for another | used by their own tests only |
| Constrained decoding, samplers, tokenizers, template engine, tool parsers, settings | – | numeric and text transformations | – | – |
| C, Python, Rust bindings, CLI | – | wrappers over the above | Python: the interpreter lock | – |

### Kotlin and TypeScript

| Component | State | What is hard |
|---|---|---|
| **Kotlin Conversation**, `kotlin/java/com/google/ai/edge/litertlm/Conversation.kt` and its JNI bridge | pending tool response, count of rounds | tools run in a callback, the answer is sent from another |
| **FlowAgent**, `mindgrid/brainhub/lockzone/flow_agent.ts` | in-flight count, queue of waiters, actions | a slot that is handed over; a timeout while the action still runs |
| **SightCoreConnection**, `databridge/seenvault/sightcore_connection.ts` | socket, timers, attempts | close, error and timer events of sockets that are no longer wanted |
| **AlertService**, `mindgrid/linkpulse/alert_service.ts` | token bucket | two senders sleep on the same bucket; retries |
| stores, analysers, widgets | – | sequential data transformations |

### How they interact

A client thread calls a `Session`.  `SessionBasic` queues a closure on its one-thread
pool, or runs it on the caller's thread, and the closure calls the executor.
`SessionAdvanced` turns the call into tasks (`Add*Task`) that depend on its
`last_task_ids_` and hands back a `TaskController`.  `ExecutionManager` queues a ready
task on its execution pool; the closure calls `StartTask`, acquires the executor from
`ResourceManager`, runs the body of `tasks.cc`, and calls `FinishTask`, which updates
the followers and hands the last report to the callback pool.  The callback pool calls
the user's callback, and only then gives the task its end state, which is what
`WaitUntilDone` and the destructor of a session wait for.  A callback may call back into
its session: that is how a stream goes from prefill to decode.  `Conversation` renders
messages into turns, sends them to either kind of session, and keeps its history from
the callbacks, which take channels and tool calls out of the text as it arrives.

## 2. Modules

| Module | Models | Relation |
|---|---|---|
| `ExecutionManager` | the scheduler | – |
| `SessionAdvanced` | sessions as clients of the scheduler | EXTENDS `ExecutionManager`, replaces its `Client`, implements its `Next` |
| `TaskPool` | what the users of a pool assume | abstract |
| `ThreadPool` | the pool with its workers | implements `TaskPool` |
| `LlmExecutor` | executors, processed tokens, KV cache | operators on the state of an executor |
| `SessionBasic` | the older session and the loops of `tasks.cc` | EXTENDS `LlmExecutor`, implements `Transcript` |
| `Transcript` | a text that grows, with checkpoints | abstract |
| `ResourceManager` | handlers that share an executor | implements `PrivateContexts` |
| `PrivateContexts` | a context for each handler | abstract |
| `ChannelParser` | how a reply is split, as it arrives and as a whole | operators |
| `Conversation` | history, checkpoints, turns | EXTENDS `ChannelParser` |
| `FlowAgent`, `SightCoreWebSocket`, `AudioWindows`, `StopTokens`, `EmbeddingLookup`, `TurnText`, `ModelFile` | one component each | EXTENDED by `MCParts`, as `ResourceManager` is |
| `AudioContexts`, `ToolLoop` | one component each | – |
| `ExecutionManagerProofs`, `SessionAdvancedProofs`, `ThreadPoolProofs`, `ResourceManagerProofs`, `ConversationProofs` | theorems | EXTEND the module they name |
| `LlmExecutorProofs`, `SessionBasicProofs` | lemmas of the executors, theorems of the session | EXTEND `LlmExecutor`, and both |
| `PartsProofs` | theorems of `FlowAgent`, `SightCoreWebSocket`, `AudioWindows`, `TurnText`, `EmbeddingLookup`, `ModelFile`, `StopTokens` | EXTENDS them |
| `MC…` | instances for TLC | EXTEND or INSTANCE the above |

### ExecutionManager

All bookkeeping of the code happens under `session_and_task_lookup_mutex_`, so
one critical section is one action, and what a thread does between two critical
sections is kept in `exec` (execution thread: `body`, `finish`, `await`) and `cb`
(callback thread: `called` while the user's callback runs).

| Code | Model |
|---|---|
| `TaskInfo` fields | `state`, `owner`, `kind`, `target`, `deps`, `following`, `cancelled`, `callback` |
| `RegisterNewSession`, `ReleaseSession`, `CancelAllTasksInSession`, `TaskController::Cancel` | actions of those names, `CancelTasks` |
| `Add*Task` → `CreateTask` (→ `QueueTask`) | `CreateTask` = `CreateTaskFails` or `CreateTaskSucceeds` |
| the closure's `StartTask`, with each of its error returns | `StartTask`, `StartAnswer` |
| the body of a task and its checks of the flag | `DecodeStep`, `RunBody`, `DecodeBufferFails` |
| `FinishTask`, `FollowingWaitingTasks`, `UpdateAllTasksToState`, `invoke_callback_and_return` | `FinishUnsuccessfully`, `FinishSuccessfully`, `FinishRefused`, `FinishStopsInCascade`, `FinishStopsInLoop` |
| `callback_thread_pool_->WaitUntilDone(10 s)` | `AwaitCallbacks` |
| the closure on the callback pool, `UpdateTaskState` | `CallbackBegin`, `CallbackEnd` |

`reports` (what each callback was called with) and `requested` (the dependencies
the client named) are history variables.  Iteration over a `flat_hash_set` is a
nondeterministic order: where the code stops half way, any subset of the other
elements has been visited.

Left out: what a body computes (its results are chosen from those it can
return), the audio and vision executors, and callbacks of created, queued and
cascaded tasks that call back into the manager (they run under its mutex and
would deadlock, see the hazard at `execution_manager.cc:267`).  The order of two
callbacks of *different* tasks is not recorded.

### SessionAdvanced

`object`, `phase`, `last`, `inside` are the object's life, `session_state_`,
`last_task_ids_` and what the holder of `mutex_` has yet to do; `controls` is
the flag shared through a `TaskController`.  `RunDecodeAsync` with a prompt
template, and `CloneAsync`, make two calls to the manager; they are two actions,
between which `CancelProcess` (which does not take the mutex), the two threads of
the manager and other sessions may run.  `StreamContinues` is the callback of
the prefill of `GenerateContentStream`; it runs between `CallbackBegin` and
`CallbackEnd` of the scheduler.  The synchronous operations, an asynchronous call
and a wait on the caller's stack, are left out.

### ThreadPool

Each stretch of `RunWorker` under `mutex_` is one action; `Await` releases it.
`CanCall` lets a running closure schedule another one after the destructor has
begun.  `TaskPool` is what `ExecutionManager` assumes of its pools: a queue
(`execQueue`, `cbQueue`) that a thread serves in order.

### LlmExecutor and SessionBasic

An executor has no thread of its own, so its operations are functions from its
state, a record, to a status and the state left, on the error paths too.  `tokens`
is `ProcessedTokens` (per candidate, with pending tokens), `step` the current
step, `kv` the token last written at each position of the cache, `room` the size of
the growing cache of the dynamic executor.  A failed run of the model leaves
`Lost` where it may have written.  `PrefillInternal`, `DecodeInternal`,
`RollBackProcessedTokens` and so on keep their names; `Npu…` are those of the NPU
executor, `DecodeDrafted` the speculative decoding.

In `SessionBasic` a closure waits in `queue`, the one that runs is `job`; each
prefill group, decode step or scoring step is an action, so that `CancelProcess`,
which takes no lock, falls between any two.  The caller's discipline, stated where
the actions are guarded: synchronous calls, saving and rewinding only while
nothing is queued (`Quiet`), a prompt fits the cache, and, with
`Careless = FALSE`, no call while a scoring or a decode that ended in the middle of its
stream has left the step ahead of the tokens (`Dangling`); a decode without
a new prompt has one candidate and samples inside the executor.  A run of the model
fails only while nothing else is queued.  `Transcript` is the promise to the
caller: the text grows at its end, and a rewind brings back what was saved.

### ResourceManager

Every call holds `executor_mutex_` from acquiring the executor to its end and is one
step, `AcquireExecutorWithContextHandler` included.  `stored` holds the shared processed
contexts; `shared` says which of them is a handler's, and each handler has a step of its own.  `ContextHandler` and the
executor that clones contexts are not in the repository; they are modelled by how
this code uses them.  LoRA ids, an acquisition that fails half way, and the
handler's `ran_decode` are left out.  `PrivateContexts` says what it is for: each
handler has a context that nobody else's calls change.

### Conversation and ChannelParser

A text is a sequence of symbols; delimiters are sequences chosen to overlap.  `Receive`
is what the internal callback does with a piece, `ExtractChannelContent` what the
complete message goes through.  `Conversation` sees the session from above: a
prefill or a decode adds to its `context`, fails, or is cancelled, as
`SessionBasic` (an error) or as `SessionAdvanced` (the state `kCancelled`, no
checkpoints).  Each call and callback is an action.

`ToMessage` may refuse what it is given.  `Unparsed` are the blocks of code that the
parser of tool calls does not accept; `Blocks` finds those of a text the way
`ParseTextAndToolCalls` does, with fences that are plain text (`escape_fence_strings`, true by
default).  `Give` tells the caller an error in place of a piece with such a block and
goes on, as `SendMessage` of `internal_callback_util.cc` does (66-71); `Decode` and
`DecodeDone` add these errors to `told`.  The complete message is made of a text from which
an asynchronous turn has taken the calls out, so that it may be accepted after a piece
was refused; a synchronous turn, which keeps them, fails (`ToMessageFails` in `DecodeDone`
and `DecodeCancelled`).  The other failures are choices of the environment, `MaxFaults` of
them: rendering (`Send`), the prefill (`Prefill`), a synchronous decode without
a configuration or an asynchronous one the session refuses, after the checkpoint was saved
(`StartDecode`), a run of the model (`DecodeFails`), and a complete message that is refused for
another reason (`DecodeDone`).  Left out: groups
(`CancelGroup`, `AddTaskController`), scoring, and a message sent before the last turn
has ended.  Templates are assumed not to render channels, and the single-turn template
is used for pending messages.

### The small parts

`StopTokens` follows the detector and the text `DecodeOneStep` gives away; a text is
the sequence of its tokens, `Lead` and `Trail` stand for a character split over two
tokens.  `EmbeddingLookup` assumes one embedding for each special token.  `ModelFile`
has the builder (Python), the reader of the header and the loader with its lock;
backend constraints, compression and other metadata are left out.  `FlowAgent` and
`SightCoreWebSocket` run on one JavaScript thread: an action is what runs from one
`await`, event or timer to the next; the owner of a socket connects once and may
disconnect at any time.  `TurnText` has the single-turn template of the Gemma 3n test
data and the prompt templates of a session; prefills succeed and nothing is cancelled
there, a tool message directly behind a pending system message is excluded, and the
beginning-of-sequence token and `RunDecodeAsync` of `SessionBasic` (section 6) are left
out.  `AudioWindows` numbers the samples since `Reset`; a conversation
resets after each input, streaming without `Reset` is what the preprocessor's test does.
`AudioContexts` keeps the identity of memories, which is what cloning is about; it is
reached with an audio executor that is handed to the manager or driven by itself, since
`TryLoadingAudioExecutor` refuses every backend (`resource_manager.cc:766-791`).
`ToolLoop` has the blocking and the streaming loop of the Kotlin conversation.

## 3. Runs

| Run | Instance | Shows |
|---|---|---|
| `scheduler` | 2 sessions; 3 prefills with ≤ 2 dependencies and no cancellation where a session is given up, or 2 tasks of any kind (`OneMoreOfPrefills`), one streamed chunk; all fault switches (419,000 states) | `RunsAfterDependencies`, `QueueExact`, `EndIsFinal`, `EndedMeansReported`, `CancelHonoured` |
| `session_clone` | 2 sessions, 3 tasks, prefill, decode, clone (603,000) | `AddNeverRefused`, `ImplementsManager` |
| `session_stream` | 1 session, 4 tasks, prefill, decode with a template, score (382,000) | `TypeOK`, `ActiveTasksExact`, `SessionInOrder`, `EveryTaskEnds` |
| `thread_pool` | 2 workers, 3 closures, creation may fail | order, threads on demand, what `WaitUntilDone` means, shutdown, `DestructorReturns`, `ImplementsPool` |
| `session_basic` | 6 executors, a cache of 6, 2 calls, 1 cancellation, 1 failure, 2 checkpoints (524,000) | `KvHolds`, `RoomSuffices`, `PrefillCounts`, `TurnKept`, `ImplementsTranscript` |
| `conversation` | both kinds of session, 3 messages, 1 cancellation, 1 failure, a tool call that does not parse (1,965,000) | `HistoryIsContext`, `NothingForgotten`, `ChannelsForgotten`, `EndIsTold`, `CancelUndoes` |
| `parts` | nine parts, each alone (342,000) | one or more properties each, below |
| `scheduler_stranded`, `conversation_calls`, `dynamic_turn`, `audio_contexts`, `tool_answers` | violations, section 6 | |

`parts` picks a part and runs it, the others stay where they are: what it checks of a
part is what a run of its own would.

| Part | Property |
|---|---|
| channels | `PiecesDoNotMatter`: a reply is split the same however it is cut, and as a whole |
| stop | `StopIsCut`: the text given away ends before its first stop sequence (for sequences of which none is a part of another, `Apart`) |
| embed | `EmbeddingsInOrder` |
| file | `SectionsRead` |
| agent | `NoneForgotten`: the gate's count is right, and no invocation waits while there is room |
| text | `TurnsClosed` |
| link | `OneConnection` |
| sound | `WindowsOfStream` |
| contexts | `TypeOK`, `OwnedOnce`, `PrefillAppends`, `ImplementsPrivate` |

**Bounds.**  `Tasks` and `Sessions` bound ids; `MaxDeps` the dependencies one
call names; `MaxChunks` the streamed reports of a decode; `Room` keeps a session
client from starting an operation that would run out of ids.  Three tasks give
each shape in which the scheduler can go wrong: a chain, a fork, a join with two
dependencies ending in either order, a follower added before, between and after
the two steps in which its dependency ends, and a cascade of length two.  Two
sessions are enough for a dependency across sessions and for a clone, whose target may
be released first.  Four tasks are needed only for a stream with a template (three)
and one more call.  A pool of two workers with three closures has one closure more
than workers.

`session_basic`: six positions (`MaxTokens`) hold two prompts of two tokens and an
answer, and are also reached, so that every turn may end at the limit; two calls
give each pair of operations with a cancellation, a failure, a save and a rewind around
it; decoding two tokens (`MaxOutput`) is one more than a draft.  `conversation`: three
messages are a turn, one that follows, and one that rewinds to the turn before;
one cancellation and one failure fall on every step.  Among the replies are one with a
channel, one whose channel never ends and one with a tool call that is in `Unparsed`, behind
which more text comes (`conversation_calls` has a call that is accepted); in `parts` two of the
blocks that six symbols can hold are refused.  `parts`: three handlers are an
original, its clone and a bystander; replies of six symbols hold a channel and the
beginning of another; two readers race for one section; five
invocations are more than twice the gate; four messages open, continue, close and
reopen a turn; two reconnections exhaust the attempts, five sockets allow a reset in
between; sixteen samples are four of the longest windows or hops.

Symmetry is used in `scheduler`, `scheduler_stranded` (tasks and sessions),
`session_basic` (labels) and `parts` (handlers): safety only, and no action orders the
symmetric values.  The liveness runs use none.

**Fault switches.**  `EarlyRelease` (the destructor ignores a timeout of its
wait), `SlowCallbacks` (a callback outlasts the 10 s of `FinishTask`) and
`BufferFault` (an error of a decode bypasses `FinishTask`) are on in
`scheduler`.  They are off in the session runs, where they
would make two properties plainly false: a task whose session is gone never ends, nor
does a decode whose buffer copy failed (`EveryTaskEnds`), and a session that is gone
is refused (`AddNeverRefused`).  The theorems leave every switch open, but for
`CallsAreAccepted`, which states `~EarlyRelease` as its hypothesis.

**Assumptions on constants** are named and evaluated by TLC.  One of them,
`ChannelsOfShortTexts` in `MCConversation`, is no assumption of the model but the check of a
theorem's hypothesis on short texts (section 4).

**CHECK_DEADLOCK FALSE** everywhere: clients may stop, ids, calls and inputs run out,
and a pool that has been destroyed does nothing.  That nothing hangs is stated by the
liveness properties instead.

**Fairness.**  Weak fairness of the execution thread and of the callback thread:
each is a dedicated thread of a pool that serves its queue (`ThreadPool`), model runs
end, and user callbacks return.  In `SessionAdvanced` also of `Proceed`: a thread inside
an operation or a destructor goes on.  In `ThreadPool` of each worker, of the joining
destructor, and of a wait, which has a deadline.  In `SessionBasic` of its one worker,
in `Conversation` of the session under it: the session goes on by itself, although the
properties of these two are safety.  Nothing is assumed of clients.

## 4. Proofs

`ExecutionManagerProofs` proves, from `ConstantsAssumption` alone (a finite set
of tasks, of any size, any number of dependencies, all switches in any position):

| Theorem | States |
|---|---|
| `SchedulerInvariant` | `Spec => []SchedulerInv` |
| `TypeCorrect` | `Spec => []TypeOK` |
| `DependenciesRunFirst` | `Spec => []RunsAfterDependencies` |
| `ExecutionQueueExact` | `Spec => []QueueExact` |
| `OutcomeIsFinal` | `Spec => EndIsFinal` |

The argument.  `RunsAfterDependencies` is not inductive: it says nothing of a
task that is still waiting.  `DependenciesSound` extends it to those: each
dependency the client named is still in `deps` or past its run.  A step of
`FinishTask` that takes `t` out of `deps[f]` happens when `t` leaves
`kProcessing`, so `t` is past its run.  This needs that the thread which
finishes `t` is the one that runs it (`RunnerSound`), that a task is not
queued twice, nor queued again after its run (`QueueSound`, `QueueComplete`), and
that a task with unfinished dependencies is not one that runs or has run
(`WaitersSound`).  `EndIsFinal` needs in addition that a last
callback which is queued or being delivered belongs to a task in
`kLastCallbackQueued`, and each to a different one (`CallbacksSound`), so that
`CallbackEnd` never ends a task twice; and that no task in the cascade has ended
(`FollowingWaitingTasks` skips those).  `CallbackHeld` makes `StartTask` find the
callback of a task it takes from the queue, so that its error returns are shown to be
unreachable but for a released session.

What waiters are told has an invariant of its own, which rests on the first:

| Theorem | States |
|---|---|
| `OutcomeInvariant` | `Spec => []OutcomeInv` |
| `WaitersAreTold` | `Spec => []EndedMeansReported` |
| `SessionsKnowTheirTasks` | `Spec => []ActiveTasksExact` |
| `CancellationIsHonoured` | `Spec => []CancelHonoured` |
| `TaskLife` | every step moves a task along the life the states allow (`Moves`) |

A task ends in two steps of two threads, so `EndedMeansReported` has to be carried
from the first to the second: `ReportsSound` says of every task that may still end that
it has reported no end state, except the one that is being delivered, as its last.
A session that was released has its callbacks replaced by a no-op (`mute`), whose tasks
never end; `MutedGone` tells them from the others.  The flag of a task may be set at any
time by another thread; what counts is a flag that a reader still finds (`ReadsFlag`), and
`DoneUncancelled` follows a result `kDone` from there through the callback queue to the
end state.  The cascades of failure are the long part: a cascade that stops
half way (`FinishStopsInCascade`, `FinishStopsInLoop`) has ended, reported and taken out
of their sessions any set of tasks, and the invariant holds of each such set.

Every invariant was checked by TLC before it was proved.  The proofs have one lemma per action.

`SessionAdvancedProofs` proves, from `ConstantsAssumption` and `SessionAssumption`
(the operations a session uses, at least one dependency; with slow callbacks and
destructors that give up waiting):

| Theorem | States |
|---|---|
| `LayerInvariant` | `SessionSpec => []LayerInv` |
| `LayerTypeCorrect` | `SessionSpec => []LayerTypeOK` |
| `SessionIsClient` | `SessionSpec => ImplementsManager` |
| `SessionTasksInOrder` | `SessionSpec => [](RunsAfterDependencies /\ QueueExact)` |
| `SessionOutcomeIsFinal` | `SessionSpec => EndIsFinal` |
| `SessionTasksTold` | `SessionSpec => []OutcomeInv` |
| `TasksInOrder` | `SessionSpec => []SessionInOrder` |
| `CallsAreAccepted` | `~EarlyRelease => (SessionSpec => []AddNeverRefused)` |

The scheduler's `Client` may make any call with ids that were handed out.  That a
session makes only such calls needs: its last tasks are issued ids (`LastIssued`); a
session being cloned into is registered, has no object that could release it, and no
second thread clones into it (`ClonesSound`, `ObjectsRegistered`); a controller sets
the flags of its own task and of one it depends on (`ControlsSound`).  Each step then
is a step of the scheduler, so `NextInv` carries the scheduler's invariant along.

A session names only its last task as a dependency, yet all its earlier tasks are to
run first.  `OrderInv` makes the induction: each task in a session's order names the one
before it (`ChainSound`), and a task that has been launched has all before it past
their runs (`ChainReached`), since its dependencies were (`DependenciesSound`, with
`DepsNamed`).  `CallsAreAccepted` holds only of destructors that wait: `HoldInv` says
that the object of a session that acts is registered and live, and that what the holder
of its mutex has yet to do names a session that nobody has released meanwhile.

`ThreadPoolProofs` proves, from `PoolAssumption` (finitely many workers, at least
one, and closures):

| Theorem | States |
|---|---|
| `PoolInvariant` | `Spec => []PoolInv` |
| `ClosuresInOrder` | `Spec => []NoneLostNorOvertaken` |
| `ThreadsWhenNeeded` | `Spec => []ThreadsOnDemand` |
| `WaitIsSound` | `Spec => []WaitMeansFinished` |
| `DestructorDrains` | `Spec => []ShutdownDrains` |
| `PoolRefinement` | `Spec => StepsOfPool`: every step is one of `TaskPool` or a stutter |

`WaitMeansFinished` and `ShutdownDrains` look only at counters and at the closures
that have returned; what connects the two is that `active` is the number of workers
between taking a closure and counting it out (`Busy`), and that the closures
taken are those that have returned and those that run, each on one worker
(`RunningSound`).  `NothingLeft` draws the conclusion both need: an empty queue and
`active = 0` leave nothing unfinished.  The destructor needs `QueueServed` besides: a
closure is never accepted into a pool without threads, or joining them would
leave it behind.  The refinement rests on the same facts and on `RoomForOne`: while
a worker awaits, fewer than `MaxThreads` closures run.

`ResourceManagerProofs` proves, for any number of handlers and any inputs:

| Theorem | States |
|---|---|
| `ContextInvariant` | `Spec => []ContextInv` |
| `ContextsTyped` | `Spec => []TypeOK` |
| `ContextsOwnedOnce` | `Spec => []OwnedOnce` |
| `PrefillsAppend` | `Spec => PrefillAppends` |
| `ContextsArePrivate` | `Spec => ImplementsPrivate` |

`ContextInv` says of each cell who shares it and where it is (`CellsSound`), of each handler
whether it has one and whether its step is saved (`HandlersSound`), and that the tokens
of a cell are long enough for the step of each sharer.  The code decides whether to copy
by comparing with the longest sharer, a maximum over an iteration: `LongestIsMaximal`
gets it from `GreatestElement`, which is proved from the well-foundedness of finite
sets.  The heart is `SafeCut`: where a call cuts the executor's tokens, nobody who shares them
is further, or the context has been separated from the others first.  Each call is
such a cut and an addition (`Continues`), which keeps the invariant (`CutKeeps`).  The
refinement maps each handler to the tokens up to its step; `OthersKeepTheirContext` is one
half, that no call changes what another handler sees, and `InputIsAppended` the other,
that the part of a prompt found in the shared tokens and the part that is run make up
the prompt.

`ConversationProofs` proves, for any messages, batches and replies:

| Theorem | States |
|---|---|
| `ConversationTyped` | `Spec => []TypeOK` |
| `CheckpointsAndTurns` | the invariants of checkpoints, turns and pushed messages |
| `EndsAreTold` | `Spec => []EndIsTold`: the last call of a turn says its fate, the ones before it only that a piece was refused |
| `CancellationUndone` | `Spec => []CancelUndoes` |
| `HistoryFollowed` | `<<>> \notin Batches => (Spec => []HistoryIsContext)` |
| `NothingIsForgotten` | `<<>> \notin Batches => (Spec => []NothingForgotten)` |
| `ChannelsAreForgotten` | `Spec /\ []NamedIsFound(stream.text) => []ChannelsForgotten` |

`Steps` splits a step into one that sends, the steps of the session's turn, and those
that leave messages and turn alone, and every invariant is proved over that split.
Types need `CheckpointInv` (a rewind cuts the context at the checkpoint), and
`CancelUndoes` needs `PushedInv` (the last message of the history is the one the turn
pushed).  `HistoryIsContext` follows from `FollowsInv`, that the context, with the inputs of
a prefill under way, is the preface and the history, the checkpoint being where the index
is.  `NothingForgotten` must hold of conversations with cancelled turns too, whose
messages are in the context and no longer in the history: `OrderInv` orders both by the
place at which a message was sent, and has the checkpoint divide the context where the
index divides the history.

The two hypotheses.  An empty array of messages pushes nothing, so that the preface would
be sent with the next message again, and a cancellation would take another turn's message
out of the history; it renders to nothing, which the session refuses (section 6).
`NamedIsFound` says that a reply out of which the complete message's search takes a channel
is one in which the search for channels and tool calls finds one too: both are folds over
the text, which the prover cannot follow.  TLC checks it for all texts up to seven symbols
(`ChannelsOfShortTexts`), which are more than the replies of the run.

`SessionBasicProofs` proves, from `InputsAreTokens` and `ConfigsAreBuilt` (tokens are
numbers, a prompt has one; what kinds of executor there are), of a caller that waits for
what it has called (`~Careless`) and of prompts that are counted (`Counted`):

| Theorem | States |
|---|---|
| `SessionInvariant` | `Spec => []IInv` |
| `SessionTyped` | `Spec => []TypeOK` |
| `CacheHolds` | `Spec => []KvHolds` |
| `CacheHasRoom` | `Spec => []RoomSuffices` |
| `TurnsFindTheirToken` | `Spec => []TokenIsThere` |
| `PrefillsCount` | `Spec => PrefillCounts` |
| `TurnsAreSupplied` | `NoMix => (Spec => []KInv)` |
| `TurnsAreKept` | `NoMix => (Spec => TurnKept)` |
| `TranscriptRefined` | `NoMix => (Spec => ImplementsTranscript)` |

`LlmExecutorProofs` has the executor's part: for each operation, what it leaves of a state
that was sound, for a static, dynamic, drafting or NPU executor, with any number of
candidates, draft length, chunk and increment, and also when a run of the model fails at
any point.  `Sound(c, e, g, q)` says that each candidate has `g` processed tokens and `q`
pending ones, and that its cache holds the processed ones or `Lost`; `step` is one of
few places around `g` and `q`, and which one decides what the next operation finds.

Whether an operation may be called in that state is decided far from it, which is why
`KvHolds` alone is not inductive.  `PromptInv` says that after a prefill, until the decode
or scoring it was for, the executor is `Ready`: a token pends and the step is behind it.
`TurnsInv` says what closures may be queued behind each other, `LoopInv` where a decode
or a draft loop stands between two of its steps, `PastInv` that a step beyond the tokens
is left only where the next prefill cuts it back, and `LastInv` that the last prompt token
is one.  `TokenIsThere` is what `Tasks::Decode` and `Tasks::Score` assume: the first token
of an answer is sampled from the prompt's last one, and `DecodeInternal` cuts the tokens at
the step without looking.

The last four are about the context, the tokens of the first candidate up to the step, and
about what each operation makes of it.  The invariant they rest on, `KInv`, adds to `IInv`:

- `SupplyInv`: the token that pends is `last_prefill_token_id_` when a decode that samples
  outside the executor, or a scoring, is about to begin, and the last sampled one when such
  a decode gives it back; and a drafter that goes on has a token to draft from.  Both
  hold because each turn that needs the token is queued right behind its prefill, and no
  turn in between changes it.
- `AddedInv`: while a decode runs, the context, with the token that only the caller knows
  when sampling is outside, is what it was at the decode's start and then what has been
  told.  It is the induction behind `TurnKept`; for a drafter it needs that the tokens
  behind a stop token are taken off what has been told and off the executor alike.
- `SavedInv` and `ClosedInv`: no checkpoint is beyond the context, and nothing outlives the
  session.

`WorkerGoes` proves of every step of the worker that it keeps the first two and only adds
to the context (`Longer`), also when a run of the model fails between the two parts of
a prompt or between draft and verification, and when a cancelled decode gives its token
back.  The refinement follows: a step of the worker is `Grow`, since what lies up to a
checkpoint is then unchanged (`SavedStays`), a save takes the whole context because a
caller that waits finds the step at its end, and a rewind cuts it where it was saved.

The three hypotheses are needed.  `NoMix` leaves out the dynamic executor with sampling
outside of it, where the prefill of one token that gives the last token back stores it without
counting the step: the run `dynamic_turn` is that executor, and TLC finds `TurnKept`
violated in it.  A careless caller decodes while the step is ahead of the
tokens.  `Counted` leaves out the dynamic executor with a first prompt (or a first chunk of
a prompt) of one token, which is stored without counting the step
(`llm_litert_compiled_model_executor.cc`, section 6, `dynamic_turn`): TLC finds `KvHolds`
and `TokenIsThere` violated there, in a second turn and without any failure.  The
executors of `session_basic` satisfy `Counted` and `NoMix`.

`PartsProofs` proves of seven small parts:

| Theorem | States |
|---|---|
| `NoneIsForgotten` | `AgentSpec => []NoneForgotten`, for any number of invocations and any limit |
| `OneConnectionOnly` | `SocketSpec => []OneConnection`, for any number of attempts |
| `WindowsAreOfStream` | `WindowSpec => []WindowsOfStream`, for windows of any length and distance |
| `TurnsAreWhole` | `TurnSpec => []TurnsClosed`, for any number of messages |
| `EmbeddingsAreDue` | `Words \subseteq Nat \ {0} => (EmbedSpec => []EmbeddingsInOrder)`, for any prompts |
| `SectionsAreRead` | `Sizes => (FileSpec => []SectionsRead)`, for any sections, block size and alignment |
| `TextsAreCut` | `WholeStops => (StopSpec => []StopIsCut)`, for any stop sequences, candidates and tokens |

The gate: an invocation is in the queue exactly when it waits, once (`QueueInv`), and the
count is the number of those that hold a slot (`CountInv`), so that handing a slot over,
which leaves the count alone, is right.  The socket: one of connecting, connected, waiting
to reconnect and given up (`LinkInv`).  The windows: `samplesToNext` is what is left to the
start of the next window counted from the samples consumed (`StepInv`), and the queue ends
with the samples that the next window has so far (`KeptInv`), also when windows
overlap or leave samples out; the number of windows is then a quotient (`QuotientIs`).

The turns: `TurnInv` is an automaton over the text, whose state is who speaks last and
whether a fence is open (`Reads`); a text is `Between` two turns or `Inside` one, and which
one is decided by the pending message, or by what a session has prefilled.
`LatestIn` replaces the search for the last marker in the text by what each addition
leaves of it.  The embeddings: `EmbedInv` says that those fed are the ones due (`Fed`),
and, while a prefill is under way, that the last lookup added for each special token holds
just what is due for the rest of the prompt (`Ready`), whatever older lookups still have
left over.  The hypothesis is the sign convention of the code, where special tokens are
negative.  The file: `ImageInv` says that the bytes of each section are in the file where the
header says, `LoaderInv` that the loader has the places of the last section of each key,
`BufferInv` that each buffer shows the section of its key, from the whole file mapped or
from the page at which its own mapping begins.  `Sizes` says that block size and alignments are positive.

What `build` has written is a recursion over the sections (`Written`), and so is the text of a list of texts (`Flat`).  The prover cannot
use an induction theorem whose parameter is an operator, but it can do the
induction for a set: `NatLeast` takes from the well-foundedness of `<` that every nonempty set
of naturals has a least element, and `NatAll`, that a set with 0 and with the successors of
its elements has all naturals, follows.  `WritingExists` shows so that the recursive function
exists, and `WrittenIs` unfolds it; `FlatIs` does so for `Flat`.

The stop sequences: `StopInv` says what each candidate has come to.  It is `Running`
as long as no stop sequence has ended: the detector's progress on each sequence is the one
beginning of it that the tokens end with (`Follows`), what is held back is as long as the
greatest of these, and all else but half a character is given away (`Told`).  From the
first end of a sequence on it is `Stopped`, and what is given away is the text before
that sequence, less at most what another sequence begins with (`CutAt`).  That the detector keeps following
(`ProgressIs`) is where `Apart` is needed: `Progress` falls back to the first token only, so with a
sequence that begins inside another one, or inside itself, it could lose a match.  `WholeStops` says that
stop sequences are not empty and consist of whole characters; without the second a
stop sequence could end in a half that has no text.

Only model-checked, and why:

- `EveryTaskEnds`, `DestructorReturns` and the liveness part of `ImplementsPool` are
  out of the prover's reach, as is ENABLED.
- `PiecesDoNotMatter` compares two folds over the text and is not true of all delimiters:
  with one start inside another, what is found depends on the pieces.

`LayerTypeOK` and the `TypeOK` of `ThreadPool` and `Conversation` are proved and have no run
of their own.

## 5. Plan

1. `FollowsInv` without the hypothesis on empty batches.
2. Groups of task controllers in `Conversation`; LoRA ids and acquisitions that fail half
   way in `ResourceManager`; the life of the manager.
3. `AlertService`; the Python binding with its interpreter lock.

## 6. Disagreements found

With a run:

- `scheduler_stranded`: when two dependencies of one task fail, the second
  cascade returns an error at the follower that has ended, and the others are left
  waiting for a task that has failed (`execution_manager.cc:470`).
- `conversation_calls`: the tool call of a streamed reply is taken out of the message
  that goes into the history (`internal_callback_util.cc:118`, 129); the synchronous
  call keeps it.
- `dynamic_turn`: the dynamic executor stores a single token without counting the step
  (`llm_litert_compiled_model_executor.cc:1804-1810`), so that the last token of a turn,
  which the sampler of the CPU gives back by a prefill of one token (`tasks.cc:514-516`), is
  dropped by the next call.  `session_basic` has the dynamic executor only
  where it samples itself.
- `audio_contexts`: `AudioStreamingContext::Clone` shares memory with the original
  (`audio_litert_compiled_model_executor.cc:144-153`), although
  `llm_executor_io_types.h:62-63` says the copy is deep; the encoder then overwrites the
  saved context of a clone.
- `tool_answers`: of two messages with tool calls in one streamed turn, the answer
  to the first is overwritten (`Conversation.kt:356`).

Met while modelling, without a run of their own:

- After `CancelProcess` every later task of an advanced session is
  `kDependentTaskCancelled` (`session_advanced.cc:123`, `execution_manager.cc:219-224`);
  `engine.h:223-224` says the session can be used afterwards.  A test
  (`session_advanced_test.cc:1469`) shows it.
- A task added while the last callback of a failed dependency is queued runs
  (`execution_manager.cc:240`); `io_types.h:301-302` says it ends as
  `kDependentTaskFailed`.
- A stream whose session has gone on to another decode is dropped without a last call of
  its callback (`session_advanced.cc:340`); `engine.h:121-126` promises one.
- A conversation on an advanced session that is cancelled between its prefill's
  end and its decode gets neither an error nor an end (`execution_manager.cc:67-73`,
  `internal_callback_util.cc:263-275`, against `conversation.h:424-425`).
- `SessionBasic::RunDecodeAsync` (`session_basic.cc:493-512`, 448-477) neither prefills the
  closing template nor checks `kPrefilled` nor sets `kDecoded`, as `RunDecode` does and
  `session_basic.cc:402-403` says is needed; `RewindToCheckpoint` (256-277) does not
  restore `session_state_`.
- An asynchronous send whose message renders to nothing fails (`session_basic.cc:341`);
  `conversation.h:286-325` says nothing of it.  An array of messages cannot be rendered
  by the single-turn template (`gemma3_data_processor.cc:419`), although
  `conversation.h:403-416` accepts one.
- `session_utils.h:42-45` says `ApplyPromptTemplates` refuses contents that are not text;
  the code handles them.
- A piece of a streamed reply that `ToMessage` refuses, such as a tool call that does not
  parse, is told to the caller as an error (`internal_callback_util.cc:66-71`), behind
  which the stream goes on and ends with an empty message or a second error.
  `conversation.h:418-426` says only that errors are told.  The C binding hands each error on as the last chunk (`c/engine.cc:71-75`), so that there are two of them, against
  `c/engine.h:393-394` ("`is_final` is true if this is the last chunk in the stream"); the
  JNI bridge takes the error for the end and drops the rest of the reply
  (`jni/litertlm.cc:1028-1036`).  `EndIsTold` therefore speaks of the last call.
- A streamed reply that is cancelled or fails inside a channel leaves what it has said there
  in the KV cache: it becomes no message, `checkpoint_message_index_` is not set, and the next
  user message does not rewind (`conversation.cc:534-552`, 515).  `conversation.h:169-171` says
  of such tokens that they "should not be persisted in the KV cache".  `ChannelsForgotten`
  excludes replies that were cut off.
- The callback of a cancelled turn takes one message out of the history
  (`conversation.cc:554-557`), also when the turn sent an array of them: the others stay.
  `CancelUndoes` speaks of turns with one message.
- After a cancelled pending message `is_appending_message_` stays set; a failed prefill
  never drops the embeddings that came with it; text held back as the beginning of a stop
  sequence is lost when the limit of steps is reached.
- `litert_lm_loader.cc:201-207`: of two sections with the same key the later one wins, but
  the backend constraint of the first stays.
- `DecodeOneStep` keeps the stop token of a draft only when it is the last
  (`tasks.cc:198-204`).
- Cloning a loaded session copies a state saved before its last calls
  (`resource_manager.cc:618-624`), as far as the audio context is concerned.
- Kotlin: an error thrown while the tool answer is sent is told to nobody; behind the limit
  of rounds both `onError` and `onDone` are called.
- `SightCoreWebSocket.disconnect()` makes the close handler connect again
  (`sightcore_connection.ts:62-68`, 88-91).
- `AlertService` counts the time it has waited twice, and lets senders that waited together
  all pass (`alert_service.ts:17`: "Max emails per minute").
- `python/litert_lm/litert_lm.cc:210-212` says the background thread is free of the
  interpreter lock, but its callback takes it for tools (828, 849), while `send_message`
  and `__exit__` hold it and wait for that thread.

## 7. Not modelled

The map covers about an eighth of the implementation's lines.  What it leaves is of four kinds.

- Computation without control: what a model run, a sampler, a tokenizer, a mel filter
  or an image transform computes; tensors, masks, quantisation and the set-up of
  delegates, which are most of the executors' lines.
- Text transformations without state: the template engine, the parsers of tool calls
  (generated), the data processors' formatting, constrained decoding's grammars, settings
  and flags.
- Wrappers: the C, Python, Rust and JNI bindings convert arguments and call what is
  modelled; the CLI is input and output.
- Code nothing uses but its tests (`ExecutionQueue`, `ResourceRegistry`), and sequential
  TypeScript (stores, analysers, widgets).

Stateful code left for later is in the plan: the life of the manager (its destructor waits
for the execution pool only, and may run on the callback thread when a stream's
continuation holds the last reference), groups of controllers, LoRA ids, `AlertService`
and Python's interpreter lock.  The life of the manager and the interpreter lock are hazards in
`PROJECT.json`, with their reasons.
