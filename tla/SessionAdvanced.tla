--------------------------- MODULE SessionAdvanced ---------------------------
(***************************************************************************)
(* Sessions on top of the scheduler: runtime/core/session_advanced.{h,cc}. *)
(*                                                                         *)
(* A session chains its tasks through last_task_ids_ and allows a decode   *)
(* only after a prefill.  It is the client of ExecutionManager: its        *)
(* operations replace that module's Client, and everything else runs as it *)
(* does there.  The mutex of a session is held over an operation; where an *)
(* operation makes two calls to the manager, `inside' records that the     *)
(* thread is between them.  Preprocessing of inputs, which may only fail   *)
(* before anything changes, is left out.                                   *)
(***************************************************************************)
EXTENDS ExecutionManager

CONSTANT Template    \* a decode is preceded by a prefill of the end template

ASSUME SessionAssumption ==
    Template \in BOOLEAN /\ {"prefill", "decode"} \subseteq Kinds /\ MaxDeps >= 1

VARIABLES
    object,    \* life of the SessionAdvanced object, destructor included
    phase,     \* session_state_
    last,      \* last_task_ids_
    inside,    \* what the thread that holds mutex_ has yet to add
    controls,  \* tasks whose flag the TaskController of a task sets
    stream,    \* what became of the prefill of a GenerateContentStream
    decodeOf,  \* the decode that continues such a prefill
    order      \* history: tasks of a session that follow one another

layerVars == <<object, phase, last, inside, controls, stream, decodeOf, order>>
allVars == <<vars, layerVars>>

\* What an operation has yet to do: the second task it adds, the flag the two
\* share, the stream it continues, and the session it clones into.
Inside(what, flag, t, c) == [what |-> what, flag |-> flag, for |-> t, into |-> c]
Nobody == Inside("no", FALSE, NoTask, NoSession)

LayerTypeOK ==
    /\ object \in [Sessions -> {"none", "alive", "waiting", "releasing", "gone"}]
    /\ phase \in [Sessions -> {"kFresh", "kPrefilled", "kDecoded"}]
    /\ last \in [Sessions -> {{}} \cup {{t} : t \in Tasks}]
    /\ inside \in [Sessions -> [what : {"no", "decode", "clone"}, flag : BOOLEAN,
                                for : Tasks \cup {NoTask},
                                into : Sessions \cup {NoSession}]]
    /\ controls \in [Tasks -> SUBSET Tasks]
    /\ stream \in [Tasks -> {"no", "waiting", "adding", "decoding", "refused"}]
    /\ decodeOf \in [Tasks -> Tasks \cup {NoTask}]
    /\ order \in [Sessions -> Seq(Tasks)]

SessionInit ==
    /\ Init
    /\ object = [s \in Sessions |-> "none"]
    /\ phase = [s \in Sessions |-> "kFresh"]
    /\ last = [s \in Sessions |-> {}]
    /\ inside = [s \in Sessions |-> Nobody]
    /\ controls = [t \in Tasks |-> {}]
    /\ stream = [t \in Tasks |-> "no"]
    /\ decodeOf = [t \in Tasks |-> NoTask]
    /\ order = [s \in Sessions |-> <<>>]

\* Ids are handed out in one fixed order; which one is of no consequence.
First(S) == IF S = {} THEN {} ELSE {CHOOSE x \in S : TRUE}
NewTask == First(Tasks \ issued)
NewSession == First(Sessions \ registered)

DecodeTasks == IF Template THEN 2 ELSE 1

\* Bound: a client starts an operation only if enough ids are left for it and
\* for the decodes that the streams already accepted will add.
Room(n) ==
    Cardinality(Tasks \ issued) >=
        n + DecodeTasks * Cardinality({t \in Tasks : stream[t] = "waiting" /\ ~Ended(t)})
          + Cardinality({s \in Sessions : inside[s] # Nobody})

-----------------------------------------------------------------------------
(* Operations that the mutex of the session guards.                        *)

\* A client may call the session, and nobody else is in it.
Enter(s) == object[s] = "alive" /\ inside[s] = Nobody

\* Add*Task with last_task_ids_ as dependencies.  That it is not refused is the
\* property AddNeverRefused.
Add(s, t, k, c, flag) ==
    CreateTask(s, t, k, c, last[s], flag) /\ Known(t)'

Extend(s, t) == order' = [order EXCEPT ![s] = Append(@, t)]

Create(s) ==
    /\ RegisterNewSession(s)
    /\ object' = [object EXCEPT ![s] = "alive"]
    /\ UNCHANGED <<phase, last, inside, controls, stream, decodeOf, order>>

\* RunPrefillAsync, called by the client or by GenerateContentStream, which
\* drops the controller.
RunPrefillAsync(s, t, streams) ==
    /\ Enter(s) /\ Room(IF streams THEN 1 + DecodeTasks ELSE 1)
    /\ Add(s, t, "prefill", NoSession, FALSE)
    /\ phase' = [phase EXCEPT ![s] = "kPrefilled"]
    /\ last' = [last EXCEPT ![s] = {t}]
    /\ Extend(s, t)
    /\ controls' = [controls EXCEPT ![t] = IF streams THEN {} ELSE {t}]
    /\ stream' = [stream EXCEPT ![t] = IF streams THEN "waiting" ELSE "no"]
    /\ UNCHANGED <<object, inside, decodeOf>>

\* Mutant of ChainDecode: the decode is not recorded.
ChainDecodeForgotten(s, t) == last' = last

ChainDecode(s, t) == last' = [last EXCEPT ![s] = {t}]

\* The decode goes to the caller: a client gets its controller, with one flag
\* for all the tasks in S; a stream gets its continuation.
HandOver(t, S, for) ==
    /\ controls' = [controls EXCEPT ![t] = IF for = NoTask THEN S ELSE {}]
    /\ stream' = IF for = NoTask THEN stream
                                 ELSE [stream EXCEPT ![for] = "decoding"]
    /\ decodeOf' = IF for = NoTask THEN decodeOf
                                   ELSE [decodeOf EXCEPT ![for] = t]

\* RunDecodeAsync up to the end, or up to the prefill of the template.
RunDecodeAsync(s, t, for) ==
    /\ phase[s] = "kPrefilled"
    /\ phase' = [phase EXCEPT ![s] = "kDecoded"]
    /\ Extend(s, t)
    /\ \/ /\ ~Template
          /\ Add(s, t, "decode", NoSession, FALSE)
          /\ ChainDecode(s, t)
          /\ HandOver(t, {t}, for)
          /\ UNCHANGED <<object, inside>>
       \/ /\ Template
          /\ Add(s, t, "prefill", NoSession, FALSE)
          /\ last' = [last EXCEPT ![s] = {t}]
          /\ inside' = [inside EXCEPT ![s] = Inside("decode", FALSE, for, NoSession)]
          /\ stream' = IF for = NoTask THEN stream
                                       ELSE [stream EXCEPT ![for] = "adding"]
          /\ UNCHANGED <<object, controls, decodeOf>>

\* The rest of it: the decode shares its flag with the prefill of the template.
AddDecode(s, t) ==
    /\ inside[s].what = "decode"
    /\ Add(s, t, "decode", NoSession, inside[s].flag)
    /\ ChainDecode(s, t)
    /\ Extend(s, t)
    /\ HandOver(t, last[s] \cup {t}, inside[s].for)
    /\ inside' = [inside EXCEPT ![s] = Nobody]
    /\ UNCHANGED <<object, phase>>

ClientDecodes(s, t) ==
    /\ Enter(s) /\ Room(DecodeTasks)
    /\ RunDecodeAsync(s, t, NoTask)

\* A scoring task follows the last task, but nothing follows a scoring task.
RunTextScoringAsync(s, t) ==
    /\ "score" \in Kinds /\ Enter(s) /\ Room(1)
    /\ Add(s, t, "score", NoSession, FALSE)
    /\ controls' = [controls EXCEPT ![t] = {t}]
    /\ UNCHANGED <<object, phase, last, inside, stream, decodeOf, order>>

\* CloneAsyncLocked registers the new session, adds the task, and makes the
\* object, which starts with the state and the last task of the original.
CloneAsync(s, c) ==
    /\ "clone" \in Kinds /\ Enter(s) /\ Room(1)
    /\ RegisterNewSession(c)
    /\ inside' = [inside EXCEPT ![s] = Inside("clone", FALSE, NoTask, c)]
    /\ UNCHANGED <<object, phase, last, controls, stream, decodeOf, order>>

\* Mutant of CloneTarget: the original is passed for the new session.
CloneTargetItself(s) == s

CloneTarget(s) == inside[s].into

AddClone(s, t) ==
    LET c == inside[s].into
    IN  /\ inside[s].what = "clone"
        /\ Add(s, t, "clone", CloneTarget(s), FALSE)
        /\ last' = [last EXCEPT ![s] = {t}, ![c] = {t}]
        /\ order' = [order EXCEPT ![s] = Append(@, t), ![c] = Append(order[s], t)]
        /\ phase' = [phase EXCEPT ![c] = phase[s]]
        /\ object' = [object EXCEPT ![c] = "alive"]
        /\ inside' = [inside EXCEPT ![s] = Nobody]
        /\ UNCHANGED <<controls, stream, decodeOf>>

-----------------------------------------------------------------------------
(* Operations without the mutex.                                           *)

\* CancelProcess may come while a decode is half added: the flag it sets on the
\* prefill of the template is the flag the decode will have.
CancelProcess(s) ==
    /\ object[s] = "alive"
    /\ CancelAllTasksInSession(s)
    /\ inside' = [inside EXCEPT ![s].flag =
                    @ \/ (inside[s].what = "decode" /\ last[s] \subseteq active[s])]
    /\ UNCHANGED <<object, phase, last, controls, stream, decodeOf, order>>

Cancel(t) ==
    /\ controls[t] # {}
    /\ CancelTasks(controls[t])
    /\ UNCHANGED layerVars

\* The destructor, which no other thread of the client may overlap: it waits
\* until the session has no active task, or until the wait times out, and then
\* releases the session.
Destroy(s) ==
    /\ object[s] = "alive"
    /\ inside[s] = Nobody \/ inside[s].for # NoTask
    /\ object' = [object EXCEPT ![s] = "waiting"]
    /\ UNCHANGED <<vars, phase, last, inside, controls, stream, decodeOf, order>>

\* Mutant of SessionDone: a queued last callback does not count.
SessionDoneButCallbacks(s) ==
    \A t \in active[s] : state[t] = "kLastCallbackQueued"

SessionDone(s) == active[s] = {}

WaitEnds(s) ==
    /\ object[s] = "waiting"
    /\ EarlyRelease \/ SessionDone(s)
    /\ object' = [object EXCEPT ![s] = "releasing"]
    /\ UNCHANGED <<vars, phase, last, inside, controls, stream, decodeOf, order>>

Release(s) ==
    /\ object[s] = "releasing"
    /\ ReleaseSession(s)
    /\ object' = [object EXCEPT ![s] = "gone"]
    /\ UNCHANGED <<phase, last, inside, controls, stream, decodeOf, order>>

-----------------------------------------------------------------------------
(* The callback of a streamed prefill, on the callback thread.             *)

\* The callback being delivered is the one of a streamed prefill that is done.
Continues ==
    /\ cb.pc = "called" /\ ~cb.mute /\ cb.result = "kDone"
    /\ stream[cb.task] = "waiting"

\* It starts the decode; a refusal is only logged.
StreamContinues ==
    LET s == owner[cb.task]
    IN  /\ Continues
        /\ inside[s] = Nobody
        /\ \/ \E t \in NewTask : RunDecodeAsync(s, t, cb.task)
           \/ /\ phase[s] # "kPrefilled"
              /\ stream' = [stream EXCEPT ![cb.task] = "refused"]
              /\ UNCHANGED <<vars, object, phase, last, inside, controls,
                             decodeOf, order>>

CallbackReturned ==
    cb.pc = "called" /\ ~Continues /\ stream[cb.task] # "adding"

CallbackStep ==
    \/ CallbackBegin /\ UNCHANGED layerVars
    \/ StreamContinues
    \/ CallbackReturned /\ CallbackEnd /\ UNCHANGED layerVars

-----------------------------------------------------------------------------

\* A thread inside an operation goes on; so does a destructor.
Proceed ==
    \/ \E s \in Sessions, t \in NewTask : AddDecode(s, t) \/ AddClone(s, t)
    \/ \E s \in Sessions : WaitEnds(s) \/ Release(s)

SessionClient ==
    \/ \E s \in NewSession : Create(s)
    \/ \E s \in Sessions, t \in NewTask :
         \/ RunPrefillAsync(s, t, FALSE)
         \/ RunPrefillAsync(s, t, TRUE)
         \/ ClientDecodes(s, t)
         \/ RunTextScoringAsync(s, t)
    \/ \E s \in Sessions, c \in NewSession : CloneAsync(s, c)
    \/ \E s \in Sessions : CancelProcess(s) \/ Destroy(s)
    \/ \E t \in Tasks : Cancel(t)

ExecutionStep == ExecutionThread /\ UNCHANGED layerVars

SessionNext == SessionClient \/ Proceed \/ ExecutionStep \/ CallbackStep

SessionFairness ==
    WF_allVars(ExecutionStep) /\ WF_allVars(CallbackStep) /\ WF_allVars(Proceed)

SessionSpec == SessionInit /\ [][SessionNext]_allVars /\ SessionFairness

-----------------------------------------------------------------------------
(* Properties.                                                             *)

\* What a session may not lose: it is registered, and knows its last task, for
\* as long as anybody can add a task to it -- a client, or the callback of a
\* streamed prefill.  So Add*Task is never refused, and no callback runs into an
\* object that has been destroyed.
AddNeverRefused ==
    \A s \in Sessions :
        \/ object[s] = "alive"
        \/ inside[s] # Nobody
        \/ /\ cb.pc = "called" /\ stream[cb.task] \in {"waiting", "adding"}
           /\ cb.result = "kDone" /\ owner[cb.task] = s
        => /\ s \in live /\ object[s] \in {"alive", "waiting"}
           /\ \A t \in last[s] : Known(t)

\* The tasks of a session run one after the other in the order of the calls that
\* added them, whoever made the call; those of a clone run after the clone task
\* and everything before it.  (Scoring tasks are not in the chain.)
SessionInOrder ==
    \A s \in Sessions : \A j \in 1..Len(order[s]) :
        state[order[s][j]] \in Launched =>
            \A i \in 1..(j - 1) : PastRun(order[s][i])

\* A session is a client of the scheduler like any other.
ImplementsManager == Init /\ [][Next]_vars

-----------------------------------------------------------------------------
(* The inductive invariant behind the refinement theorem.                  *)

LastIssued == \A s \in Sessions : last[s] \subseteq issued

ObjectsRegistered == \A s \in Sessions : object[s] # "none" => s \in registered

\* A session that is being cloned into is registered, has no object yet, and is
\* cloned into by one thread only.
ClonesSound ==
    \A s \in Sessions : inside[s].what = "clone" =>
        /\ "clone" \in Kinds
        /\ inside[s].into \in live \ {s}
        /\ object[inside[s].into] = "none"
        /\ \A r \in Sessions \ {s} :
             inside[r].what = "clone" => inside[r].into # inside[s].into

\* A controller sets the flag of its own task and of at most one more, which the
\* task depends on.
ControlsSound ==
    \A t \in Tasks : controls[t] # {} =>
        /\ t \in issued
        /\ \E d \in {t} \cup requested[t] : controls[t] = {d, t}

LayerInv ==
    /\ SchedulerInv
    /\ LayerTypeOK
    /\ LastIssued
    /\ ObjectsRegistered
    /\ ClonesSound
    /\ ControlsSound

-----------------------------------------------------------------------------
(* The inductive invariants behind the order of a session's tasks, and     *)
(* behind calls that are never refused.                                    *)

\* A task waits only for tasks the session named.
DepsNamed == \A t \in Tasks : Known(t) => deps[t] \subseteq requested[t]

\* The tasks of a session are a chain, and last_task_ids_ is its end.
ChainSound ==
    \A s \in Sessions :
        /\ last[s] = IF order[s] = <<>> THEN {} ELSE {Last(order[s])}
        /\ \A j \in 1..Len(order[s]) :
             /\ Known(order[s][j])
             /\ requested[order[s][j]] = IF j = 1 THEN {} ELSE {order[s][j - 1]}

\* The states of a task that was queued, or whose dependency ended like it.
Reached == Launched \cup {"kFailed", "kCancelled", "kMaxNumTokensReached"}

ChainReached ==
    \A s \in Sessions : \A j \in 1..Len(order[s]) :
        state[order[s][j]] \in Reached =>
            \A i \in 1..(j - 1) : PastRun(order[s][i])

OrderInv == DepsNamed /\ ChainSound /\ ChainReached

\* An object that is still needed is registered, and has no task left once its
\* destructor has stopped waiting.
ObjectsSound ==
    \A s \in Sessions :
        /\ object[s] \in {"alive", "waiting", "releasing"} => s \in live
        /\ object[s] \notin {"alive", "waiting"} => active[s] = {}

\* The destructor overlaps an operation only if that runs in a callback of a
\* task of the session.
InsideOf(s) ==
    /\ inside[s] # Nobody =>
         object[s] = "alive" \/ (object[s] = "waiting" /\ inside[s].for # NoTask)
    /\ inside[s].for # NoTask =>
         /\ inside[s].what = "decode"
         /\ cb.pc = "called" /\ cb.task = inside[s].for
         /\ owner[cb.task] = s /\ stream[cb.task] = "adding"

InsideSound == \A s \in Sessions : InsideOf(s)

HoldInv == ObjectsSound /\ InsideSound
=============================================================================
