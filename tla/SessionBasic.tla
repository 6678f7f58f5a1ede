----------------------------- MODULE SessionBasic -----------------------------
(***************************************************************************)
(* SessionBasic (session_basic.cc): one session at a time on an executor,   *)
(* with the prefill, decode and scoring loops it runs (pipeline.cc,         *)
(* tasks.cc).                                                               *)
(*                                                                          *)
(* Asynchronous calls put a closure in the queue of a pool of one thread;   *)
(* synchronous ones run on the caller's thread.  Nothing guards the         *)
(* executor: a caller makes synchronous calls, and saves or rewinds to a    *)
(* checkpoint, only while no closure is queued or running.  CancelProcess   *)
(* comes from any thread at any time.  What ApplyPromptTemplates adds to a  *)
(* prompt belongs to the prompt.                                            *)
(***************************************************************************)
EXTENDS LlmExecutor, FiniteSets

CONSTANTS
    Configs,        \* how executor and session are built, one is chosen
    Prompts,        \* the token sequences of prefills
    Targets,        \* the token sequences of scoring
    Sampled,        \* the tokens a sampler may give
    Stop,           \* the stop token
    Label,          \* the labels of checkpoints
    MaxTokens,      \* max_num_tokens of the executor
    MaxOutput,      \* the limit of decode steps of one turn
    MaxCalls,       \* bound on calls that start a turn
    MaxCancels,     \* bound on cancellations
    MaxFailures,    \* bound on failing runs of the model
    Careless        \* does the caller make calls that depend on unfinished turns?

ASSUME Bounds == /\ MaxTokens \in Nat /\ MaxOutput \in Nat \ {0}
                 /\ MaxCalls \in Nat /\ MaxCancels \in Nat /\ MaxFailures \in Nat
                 /\ Careless \in BOOLEAN

ASSUME InputsAreTokens ==
    /\ Prompts \subseteq Seq(Int) \ {<<>>} /\ Targets \subseteq Seq(Int)
    /\ Sampled \subseteq Nat

\* A drafter, the NPU and the dynamic executor have one candidate; the dynamic
\* one runs on the CPU, where tokens are not sampled ahead, and has no drafter.
ASSUME ConfigsAreBuilt == \A c \in Configs :
    /\ c.sampler \in {"internal", "external", "ahead", "draft", "npu"}
    /\ c.heads \in Nat \ {0} /\ c.dynamic \in BOOLEAN /\ c.draft \in Nat
    /\ c.suffix \in Seq(Int) /\ c.increment \in Nat \ {0} /\ c.chunk \in Nat
    /\ c.sampler \in {"draft", "npu"} \/ c.dynamic => c.heads = 1
    /\ c.dynamic => c.sampler \in {"internal", "external"}

VARIABLES
    conf,       \* the configuration
    exec,       \* the executor
    open,       \* is there a session on the executor (occupied_executors_)?
    cancelled,  \* cancelled_
    phase,      \* session_state_
    lastId,     \* last_prefill_token_id_
    queue,      \* closures scheduled on the worker pool
    job,        \* the closure or synchronous call that runs
    saved,      \* checkpoint_map_: label -> step, -1 for none
    prompted,   \* has a prefill been asked for since the last decode or rewind?
    calls, cancels, failures

counters == <<calls, cancels, failures>>
session  == <<conf, open, phase, lastId, saved>>
vars == <<conf, exec, open, cancelled, phase, lastId, queue, job, saved,
          prompted, calls, cancels, failures>>

Idle == [kind |-> "none", sync |-> FALSE, pc |-> "end", ids |-> <<>>,
         generate |-> FALSE, given |-> <<>>, found |-> {}, start |-> 0,
         told |-> <<>>]

Closure(kind, ids, generate) ==
    [Idle EXCEPT !.kind = kind, !.pc = "run", !.ids = ids, !.generate = generate]

NoCheckpoints == [l \in Label |-> -1]

Quiet == job = Idle /\ queue = <<>>

\* After scoring, or when a drafter fails, current_step is one beyond the tokens.
Dangling == exec.step > TokenCount(exec.tokens)

\* A scoring, or a stream whose decode is not queued yet, is under way: what
\* is called now would come before its end.
Unfinished ==
    \E turn \in {job} \cup {queue[i] : i \in DOMAIN queue} :
        turn.kind = "score" \/ turn.generate

MayGoOn == Careless \/ ~(Dangling \/ Unfinished)

Init ==
    /\ conf \in Configs
    /\ exec = FreshExecutor
    /\ open = FALSE /\ cancelled = FALSE
    /\ phase = "fresh" /\ lastId = 0
    /\ queue = <<>> /\ job = Idle
    /\ saved = NoCheckpoints
    /\ prompted = FALSE
    /\ calls = 0 /\ cancels = 0 /\ failures = 0

(***************************************************************************)
(* The caller.                                                              *)
(***************************************************************************)
\* The calls of the executor, of either kind.
Npu == conf.sampler = "npu"

ExecutorPrefill(e, ids, cut, failAt) ==
    IF Npu THEN NpuPrefill(e, ids, cut, failAt) ELSE Prefill(conf, e, ids, cut, failAt)

ExecutorSetCurrentStep(e, n) == IF Npu THEN Err(e) ELSE SetCurrentStep(e, n)

ExecutorDecodeLogits(e, given, fail) ==
    IF Npu THEN Err(e) ELSE DecodeLogits(conf, e, given, fail)

\* Only one session has the executor; the next is created after it is erased.
Create ==
    /\ ~open
    /\ open' = TRUE /\ cancelled' = FALSE /\ phase' = "fresh" /\ lastId' = 0
    /\ saved' = NoCheckpoints /\ prompted' = FALSE
    /\ UNCHANGED <<conf, exec, queue, job, counters>>

\* The destructor waits for the pool, resets the executor and gives it up.
Close ==
    /\ open /\ Quiet
    /\ exec' = IF Npu THEN NpuReset(exec) ELSE Reset(exec)
    /\ open' = FALSE /\ saved' = NoCheckpoints
    /\ UNCHANGED <<conf, cancelled, phase, lastId, queue, job, prompted, counters>>

\* A turn may start: the caller is not blocked in a synchronous call, and the
\* prompt fits into the cache.
MayCall(ids) ==
    /\ open /\ ~job.sync /\ calls < MaxCalls
    /\ MayGoOn
    /\ exec.step + Len(ids) < MaxTokens
    /\ calls' = calls + 1
    /\ UNCHANGED <<conf, exec, open, phase, lastId, saved, cancels, failures>>

\* A decode goes on from a prompt; without a new one only a single candidate
\* that is not sampled outside the executor can be continued, and a drafter
\* needs a token to draft from.
CanDecode ==
    \/ prompted
    \/ /\ Quiet /\ conf.heads = 1 /\ conf.sampler # "external" /\ ContextOf(exec) # <<>>
       /\ conf.sampler = "draft" =>
            LET r == RollBackProcessedTokens(exec) IN r.ok /\ HasPending(r.e.tokens)

Schedule(closure) == queue' = Append(queue, closure)

\* The flag is reset for the next turn, also while the last one still runs.
RunPrefillAsync(ids, generate) ==
    /\ MayCall(ids)
    /\ cancelled' = FALSE
    /\ Schedule(Closure("prefill", ids, generate))
    /\ prompted' = ~generate
    /\ UNCHANGED job

RunDecodeAsync ==
    /\ MayCall(<<>>) /\ CanDecode
    /\ cancelled' = FALSE
    /\ Schedule(Closure("decode", <<>>, FALSE))
    /\ prompted' = FALSE
    /\ UNCHANGED job

\* One target text; the session has as many candidates as targets.
RunTextScoringAsync(ids) ==
    /\ MayCall(ids) /\ conf.heads = 1 /\ prompted
    /\ Schedule(Closure("score", ids, FALSE))
    /\ prompted' = FALSE
    /\ UNCHANGED <<job, cancelled>>

\* The synchronous calls run on the caller's thread (GenerateContent is a
\* prefill and a decode).
RunPrefill(ids, generate) ==
    /\ MayCall(ids) /\ Quiet
    /\ cancelled' = FALSE
    /\ job' = [Closure("prefill", ids, generate) EXCEPT !.sync = TRUE]
    /\ prompted' = ~generate
    /\ UNCHANGED queue

RunDecode ==
    /\ MayCall(<<>>) /\ Quiet /\ CanDecode
    /\ cancelled' = FALSE
    /\ IF phase = "prefilled"
       THEN /\ job' = [Closure("decode", <<>>, FALSE) EXCEPT !.sync = TRUE]
            /\ prompted' = FALSE
       ELSE UNCHANGED <<job, prompted>>
    /\ UNCHANGED queue

\* CancelProcess only sets the flag.
CancelProcess ==
    /\ open /\ ~Quiet /\ cancels < MaxCancels
    /\ cancelled' = TRUE /\ cancels' = cancels + 1
    /\ UNCHANGED <<exec, queue, job, prompted, session, calls, failures>>

SaveCheckpoint(l) ==
    /\ open /\ Quiet /\ MayGoOn
    /\ saved' = [saved EXCEPT ![l] = exec.step]
    /\ UNCHANGED <<conf, exec, open, cancelled, phase, lastId, queue, job, prompted, counters>>

\* Checkpoints of later steps are removed; when the executor refuses, nothing
\* changes.
RewindToCheckpoint(l) ==
    LET r == ExecutorSetCurrentStep(exec, saved[l])
    IN /\ open /\ Quiet /\ saved[l] \in 0..exec.step
       /\ r.ok
       /\ exec' = r.e
       /\ saved' = [k \in Label |-> IF saved[k] > saved[l] THEN -1 ELSE saved[k]]
       /\ prompted' = FALSE
       /\ UNCHANGED <<conf, open, cancelled, phase, lastId, queue, job, counters>>

(***************************************************************************)
(* The thread that runs the job.                                            *)
(***************************************************************************)
TakeClosure ==
    /\ job = Idle /\ queue # <<>>
    /\ job' = Head(queue) /\ queue' = Tail(queue)
    /\ UNCHANGED <<exec, cancelled, prompted, session, counters>>

\* The job is over: the callback has had its last result.
JobEnds == job' = Idle

At(kind, pc) == job.kind = kind /\ job.pc = pc

GoTo(pc) == job' = [job EXCEPT !.pc = pc]

\* Which run of the model fails, if any may still fail.  A turn that fails does
\* not stop the turns queued behind it, which go on from what it has left:
\* a careful caller waits.
Failure ==
    {0} \cup (IF failures < MaxFailures /\ (Careless \/ queue = <<>>) THEN {1, 2} ELSE {})

Count(failAt) ==
    /\ failures' = IF failAt = 0 THEN failures ELSE failures + 1
    /\ UNCHANGED <<calls, cancels>>

\* Tasks::Prefill and PrefillInternal: the input must be shorter than the
\* limit; it is run in one or two parts.
PrefillJob ==
    /\ At("prefill", "run")
    /\ \E cut \in Cuts(conf, job.ids), failAt \in Failure :
         LET r == IF Len(job.ids) >= MaxTokens THEN Err(exec)
                  ELSE ExecutorPrefill(exec, job.ids, cut, failAt)
         IN /\ exec' = r.e
            /\ Count(failAt)
            /\ IF r.ok
               THEN /\ lastId' = job.ids[Len(job.ids)] /\ phase' = "prefilled"
                    /\ GoTo("report")
               ELSE UNCHANGED <<lastId, phase>> /\ JobEnds
            /\ prompted' = (prompted /\ r.ok)
    /\ UNCHANGED <<conf, open, saved, cancelled, queue>>

\* The asynchronous prefill reports a cancellation; the callback of a stream
\* looks at the flag again before it goes on.
PrefillReport ==
    /\ At("prefill", "report")
    /\ IF ~job.generate \/ (~job.sync /\ cancelled) THEN JobEnds ELSE GoTo("next")
    /\ UNCHANGED <<exec, cancelled, queue, prompted, session, counters>>

\* GenerateContent and the callback of GenerateContentStream call RunDecode,
\* RunDecodeAsync, which reset the flag.
PrefillThenDecode ==
    /\ At("prefill", "next")
    /\ cancelled' = FALSE
    /\ IF job.sync
       THEN /\ job' = [Closure("decode", <<>>, FALSE) EXCEPT !.sync = TRUE]
            /\ UNCHANGED queue
       ELSE Schedule(Closure("decode", <<>>, FALSE)) /\ job' = Idle
    /\ UNCHANGED <<exec, prompted, session, counters>>

\* DecodeInternal checks the state and prefills the end of the turn first;
\* DecodeInternalStreaming does neither.  Outside the executor, sampling
\* starts from the last token of the last prefill.
DecodeStart ==
    /\ At("decode", "run")
    /\ \E failAt \in IF job.sync /\ conf.suffix # <<>> THEN Failure \ {2} ELSE {0} :
         LET r == IF job.sync /\ conf.suffix # <<>>
                  THEN ExecutorPrefill(exec, conf.suffix, 0, failAt) ELSE Ok(exec)
             last == IF job.sync /\ conf.suffix # <<>>
                     THEN conf.suffix[Len(conf.suffix)] ELSE lastId
         IN /\ exec' = r.e
            /\ Count(failAt)
            /\ IF r.ok
               THEN /\ lastId' = last
                    /\ phase' = IF job.sync THEN "decoded" ELSE phase
                    /\ job' = [job EXCEPT !.pc = "loop", !.start = exec'.step,
                                          !.given = [i \in 1..conf.heads |-> last]]
               ELSE UNCHANGED <<lastId, phase>> /\ JobEnds
    /\ UNCHANGED <<conf, open, saved, cancelled, queue, prompted>>

\* Mutant of GiveBack: the step is not set back first.
GiveBackOnTop(failAt) ==
    IF conf.sampler # "external" THEN Ok(exec)
    ELSE Prefill(conf, exec, <<job.given[1]>>, 0, failAt)

\* Outside the executor the last sampled token is known to the caller only:
\* one more prefill makes it the pending one.
GiveBack(failAt) ==
    LET back == SetCurrentStep(exec, exec.step - 1)
    IN IF conf.sampler # "external" THEN Ok(exec)
       ELSE IF ~back.ok THEN back
       ELSE Prefill(conf, back.e, <<job.given[1]>>, 0, failAt)

DecodeCancelled ==
    /\ At("decode", "loop") /\ cancelled
    /\ \E failAt \in Failure \ {2} : exec' = GiveBack(failAt).e /\ Count(failAt)
    /\ JobEnds
    /\ UNCHANGED <<cancelled, queue, prompted, session>>

\* What one call of the executor may give: one token per candidate or, with a
\* drafter, the tokens of one draft, the first preceded by the decoded one.
Outputs ==
    IF conf.sampler = "draft"
    THEN UNION {[1..n -> Sampled] : n \in (IF exec.ranDecode THEN 1 ELSE 2)..
                       (conf.draft + (IF exec.ranDecode THEN 1 ELSE 2))}
    ELSE [1..conf.heads -> Sampled]

DecodeOnce(out, failAt) ==
    CASE conf.sampler = "draft"    -> DecodeDrafted(conf, exec, out, failAt)
      [] conf.sampler = "external" -> DecodeLogits(conf, exec, job.given, failAt # 0)
      [] Npu                       -> NpuDecode(exec, out, failAt # 0)
      [] OTHER                     -> DecodeSampled(conf, exec, out, failAt # 0)

\* DecodeOneStep::Run takes back the tokens of a draft from the stop token on,
\* unless that is the last one.
StopInDraft(out) ==
    LET at == {k \in 1..(Len(out) - 1) : out[k] = Stop}
    IN IF conf.sampler # "draft" \/ at = {} THEN 0
       ELSE Len(out) + 1 - (CHOOSE k \in at : \A j \in at : k <= j)

\* ShouldStop, without a benchmark.
ShouldStop(done, steps, step) ==
    done \/ step >= MaxTokens \/ steps >= MaxOutput

\* One iteration of the loop of Tasks::Decode: what r, the result of the call
\* that gave `out', makes of the turn.
AfterDecode(r, out, drop) ==
    LET step  == r.e.step - drop
        found == IF conf.sampler = "draft"
                 THEN {h \in {1} : \E k \in DOMAIN out : out[k] = Stop}
                 ELSE job.found \cup {h \in 1..conf.heads : out[h] = Stop}
        stop  == ShouldStop(found = 1..conf.heads, step - job.start, step)
    IN IF ~r.ok THEN exec' = r.e /\ JobEnds
       ELSE /\ exec' = IF drop = 0 THEN r.e ELSE SetCurrentStep(r.e, step).e
            /\ job' = [job EXCEPT
                 !.found = found,
                 !.told  = @ \o IF conf.sampler = "draft" THEN SubSeq(out, 1, Len(out) - drop)
                                ELSE <<out[1]>>,
                 !.given = IF conf.sampler = "external" THEN out ELSE @,
                 !.pc = IF stop THEN "finish" ELSE "loop"]

DecodeStep ==
    /\ At("decode", "loop") /\ ~cancelled
    /\ \E out \in Outputs, failAt \in Failure :
         /\ AfterDecode(DecodeOnce(out, failAt), out, StopInDraft(out))
         /\ Count(failAt)
    /\ UNCHANGED <<cancelled, queue, prompted, session>>

DecodeFinish ==
    /\ At("decode", "finish")
    /\ \E failAt \in Failure \ {2} : exec' = GiveBack(failAt).e /\ Count(failAt)
    /\ JobEnds
    /\ UNCHANGED <<cancelled, queue, prompted, session>>

\* One step of Tasks::Score: it feeds the token before the one it scores, so
\* that the last token of the target is never fed.
ScoreStep ==
    /\ job.kind = "score"
    /\ \E failAt \in Failure \ {2} :
         LET given == IF job.pc = "run" THEN <<lastId>> ELSE job.given
             r     == ExecutorDecodeLogits(exec, given, failAt # 0)
         IN IF job.ids = <<>> \/ Len(job.ids) >= MaxTokens
            THEN failAt = 0 /\ Count(0) /\ JobEnds /\ UNCHANGED exec
            ELSE /\ exec' = r.e /\ Count(failAt)
                 /\ IF r.ok
                    THEN /\ job' = [job EXCEPT !.pc = "loop", !.ids = Tail(@),
                                               !.given = <<Head(job.ids)>>]
                         ELSE JobEnds
    /\ UNCHANGED <<cancelled, queue, prompted, session>>

Worker ==
    \/ TakeClosure \/ PrefillJob \/ PrefillReport \/ PrefillThenDecode
    \/ DecodeStart \/ DecodeStep \/ DecodeCancelled \/ DecodeFinish \/ ScoreStep

Caller ==
    \/ Create \/ Close \/ RunDecodeAsync \/ RunDecode \/ CancelProcess
    \/ \E ids \in Prompts, generate \in BOOLEAN :
         RunPrefillAsync(ids, generate) \/ RunPrefill(ids, generate)
    \/ \E ids \in Targets : RunTextScoringAsync(ids)
    \/ \E l \in Label : SaveCheckpoint(l) \/ RewindToCheckpoint(l)

Next == Worker \/ Caller

\* The pool has one thread, which runs what is queued; a caller in a
\* synchronous call runs it.
Spec == Init /\ [][Next]_vars /\ WF_vars(Worker)

(***************************************************************************)
(* Properties.                                                              *)
(***************************************************************************)
TypeOK ==
    /\ conf \in Configs
    /\ exec.step \in Nat /\ exec.room \in Nat
    /\ exec.ranDecode \in BOOLEAN /\ exec.ahead \in BOOLEAN
    /\ Len(exec.tokens) = (IF exec.ranDecode THEN conf.heads ELSE 1)
    /\ DOMAIN exec.kv = DOMAIN exec.tokens
    /\ \A c \in DOMAIN exec.tokens :
         /\ Len(exec.tokens[c].ids) = GetStep(exec.tokens)
         /\ Len(exec.tokens[c].pending) = Len(exec.tokens[1].pending)
         /\ Len(exec.tokens[1].pending) \in 0..1
    /\ phase \in {"fresh", "prefilled", "decoded"}
    /\ job.kind \in {"none", "prefill", "decode", "score"}
    /\ saved \in [Label -> Nat \cup {-1}]

\* Whatever is prefilled, decoded, drafted, scored and rolled back, the cache
\* holds at every position the token recorded as processed there, for every
\* candidate, unless the run that should have written it failed
\* (RollBackProcessedTokens and the positions of PrefillInternal and
\* DecodeInternal).
KvHolds ==
    \A c \in DOMAIN exec.tokens : \A p \in 1..GetStep(exec.tokens) :
        /\ p <= Len(exec.kv[c])
        /\ exec.kv[c][p] \in {exec.tokens[c].ids[p], Lost}

\* The dynamic executor never runs the model beyond the cache it has made room
\* for (its PrefillInternal and DecodeInternal).
RoomSuffices ==
    conf.dynamic => \A c \in DOMAIN exec.kv : Len(exec.kv[c]) <= exec.room

\* A prefill that succeeds adds its prompt to the context, and the current
\* step counts it: "users prefill 100 tokens, then they expect the current
\* step to be 100" (llm_litert_compiled_model_executor.h).
PrefillCounts ==
    [][ At("prefill", "run") /\ job'.pc = "report" =>
          /\ ContextOf(exec') = ContextOf(exec) \o job.ids
          /\ exec'.step = exec.step + Len(job.ids) ]_vars

\* When a turn of decoding ends, cancelled or not, what it has reported, and
\* nothing else, has become part of the context: with tokens sampled in the
\* executor, outside it, ahead of time or drafted, for the first candidate
\* (DecodeOneStep and the end of Tasks::Decode).
TurnKept ==
    [][ job.kind = "decode" /\ job.pc # "run" /\ job' = Idle /\ failures' = failures =>
          ContextOf(exec') =
            SubSeq(ContextOf(exec), 1, job.start) \o job.told ]_vars

\* "We must run one prefill to add the stop token as pending token in the LLM
\* Executor when stop condition is met" (Tasks::Decode): what is called after
\* the turn finds the token pending once it has cut the tokens to the step.
LastTokenPends ==
    [][ At("decode", "finish") /\ conf.sampler = "external" /\ job' = Idle
        /\ failures' = failures /\ job.given[1] > 0 =>
          RollBackProcessedTokens(exec').e.tokens[1].pending = <<job.given[1]>> ]_vars

\* The session is an append-only transcript with checkpoints: no later
\* prefill, decode, rollback or failure changes what a checkpoint restores.
transcript == INSTANCE Transcript WITH
    said  <- IF open THEN ContextOf(exec) ELSE <<>>,
    saved <- [l \in Label |-> IF saved[l] = -1 THEN {}
                              ELSE {SubSeq(ContextOf(exec), 1, saved[l])}]

ImplementsTranscript == transcript!Spec
=============================================================================
