----------------------------- MODULE LlmExecutor -----------------------------
(***************************************************************************)
(* The LLM executor over a compiled LiteRT model: its processed tokens, its *)
(* step and its KV cache (llm_litert_compiled_model_executor.cc and         *)
(* llm_executor_processed_tokens.cc).                                       *)
(*                                                                          *)
(* The executor keeps the last token of the context back as a PENDING       *)
(* token, which the next prefill or decode feeds to the model.  Moving the  *)
(* step backwards only notes the new step; the tokens are cut and the last  *)
(* one made pending again when the next operation runs.                     *)
(*                                                                          *)
(* The executor has no thread of its own, so that an operation is a         *)
(* function from its state (a record) to a result [ok, e]: the status and   *)
(* the state left, on the error paths too.  Modules that call the executor  *)
(* turn these functions into actions.  Tensors are left out; of a KV cache  *)
(* row the model keeps the token each position was computed from.           *)
(***************************************************************************)
EXTENDS Integers, Sequences

CONSTANTS
    Unwritten,  \* what a KV position holds that nothing valid was written to
    Lost        \* what it holds after a run of the model that failed

ASSUME KvMarks == Unwritten \notin Int /\ Lost \notin Int

(***************************************************************************)
(* ProcessedTokens: one [ids, pending] per candidate, pending being a       *)
(* sequence of at most one token.                                           *)
(***************************************************************************)
NoTokens == <<[ids |-> <<>>, pending |-> <<>>]>>

GetStep(c) == Len(c[1].ids)

HasPending(c) == c[1].pending # <<>>

\* The processed tokens and the pending one.
TokenCount(c) == GetStep(c) + Len(c[1].pending)

CopyOfTokens(c) == [i \in DOMAIN c |-> c[i].ids \o c[i].pending]

\* Every candidate gets all of the tokens.
AddProcessedTokens(c, ids) ==
    [i \in DOMAIN c |-> [c[i] EXCEPT !.ids = @ \o ids]]

\* One token per candidate; refused by the callers below when one is pending.
AddPending(c, toks) ==
    [i \in DOMAIN c |-> [c[i] EXCEPT !.pending = <<toks[i]>>]]

MarkPendingAsProcessed(c) ==
    [i \in DOMAIN c |-> [ids |-> c[i].ids \o c[i].pending, pending |-> <<>>]]

InvalidatePending(c) == [i \in DOMAIN c |-> [c[i] EXCEPT !.pending = <<>>]]

\* RollBackToStep for n \in 0..TokenCount(c): the count itself changes
\* nothing, a lower step drops the pending token with the rest.
RollBackToStep(c, n) ==
    IF n = TokenCount(c) THEN c
    ELSE [i \in DOMAIN c |-> [ids |-> SubSeq(c[i].ids, 1, n), pending |-> <<>>]]

\* The tokens of all candidates at a step (counted from 0); none beyond the end.
TokenAtStep(c, s) ==
    IF s < 0 \/ s >= TokenCount(c) THEN <<>>
    ELSE [i \in DOMAIN c |-> (c[i].ids \o c[i].pending)[s + 1]]

(***************************************************************************)
(* The executor: its tokens, current_step, ran_decode, the KV cache of each *)
(* candidate, the length allocated for it (dynamic executor only), and      *)
(* `ahead': the sampler handles the input, and has already run the decode   *)
(* of the pending token.                                                    *)
(***************************************************************************)
FreshExecutor ==
    [tokens |-> NoTokens, step |-> 0, ranDecode |-> FALSE,
     kv |-> << <<>> >>, room |-> 0, ahead |-> FALSE]

Ok(e)  == [ok |-> TRUE,  e |-> e]
Err(e) == [ok |-> FALSE, e |-> e]

\* The model run writes toks to the row from position pos (from 0) on.
WriteKv(row, pos, toks) ==
    LET end == pos + Len(toks)
        len == IF Len(toks) = 0 \/ end < Len(row) THEN Len(row) ELSE end
    IN [i \in 1..len |-> IF i > pos /\ i <= end THEN toks[i - pos]
                         ELSE IF i <= Len(row) THEN row[i] ELSE Unwritten]

Marked(toks, mark) == [i \in DOMAIN toks |-> mark]

\* What the caller's context is: the tokens up to the step.
ContextOf(e) ==
    LET all == CopyOfTokens(e.tokens)[1]
    IN SubSeq(all, 1, IF e.step < Len(all) THEN e.step ELSE Len(all))

\* Mutant of RollBackProcessedTokens: a token that cannot become pending is lost.
RollBackLosingMedia(e) ==
    LET at  == TokenAtStep(e.tokens, e.step - 1)
        cut == RollBackToStep(e.tokens, e.step - 1)
    IN IF e.step \notin 1..(TokenCount(e.tokens) - 1)
       THEN Ok([e EXCEPT !.tokens = IF e.step = 0 THEN RollBackToStep(@, 0) ELSE @])
       ELSE Ok([e EXCEPT !.ahead = FALSE,
                         !.tokens = IF at[1] > 0 THEN AddPending(cut, at) ELSE cut])

\* Cuts the tokens to the current step.  The last one left becomes pending
\* again, unless its id says that it came from an image or from audio.
RollBackProcessedTokens(e) ==
    LET c   == e.tokens
        at  == TokenAtStep(c, e.step - 1)
        cut == RollBackToStep(c, e.step - 1)
    IN CASE e.step = TokenCount(c) -> Ok(e)
         [] e.step = 0 ->
              Ok([e EXCEPT !.tokens = RollBackToStep(c, 0), !.ahead = FALSE])
         [] e.step > TokenCount(c) + 1 -> Err(e)
         [] e.step = TokenCount(c) + 1 -> Ok([e EXCEPT !.ahead = FALSE])
         [] e.step \in 1..(TokenCount(c) - 1) /\ Len(at) # 1 ->
              Err([e EXCEPT !.tokens = cut])
         [] OTHER ->
              Ok([e EXCEPT !.ahead = FALSE,
                           !.tokens = IF at[1] > 0 THEN AddPending(cut, at)
                                      ELSE AddProcessedTokens(cut, at)])

\* SetCurrentStep only notes the step; Reset sets it to 0.
SetCurrentStep(e, n) ==
    IF n \in 0..e.step THEN Ok([e EXCEPT !.step = n]) ELSE Err(e)

Reset(e) == [e EXCEPT !.step = 0]

\* The first prefill after a decode goes on with the first candidate only.
PrepareFirstPrefillAfterDecode(e) ==
    IF ~e.ranDecode THEN e
    ELSE [e EXCEPT !.ranDecode = FALSE, !.ahead = FALSE,
                   !.tokens = <<@[1]>>, !.kv = <<@[1]>>]

\* Mutants of PrepareFirstDecode: nothing is copied, or the tokens only.
PrepareFirstDecodeAlone(conf, e) == [e EXCEPT !.ranDecode = TRUE]
PrepareFirstDecodeUncopied(conf, e) ==
    IF e.ranDecode THEN e
    ELSE [e EXCEPT !.ranDecode = TRUE,
                   !.tokens = [i \in 1..conf.heads |-> @[1]],
                   !.kv = [i \in 1..conf.heads |-> IF i = 1 THEN @[1] ELSE <<>>]]

\* The first decode after a prefill copies tokens and cache to all candidates.
PrepareFirstDecode(conf, e) ==
    IF e.ranDecode THEN e
    ELSE [e EXCEPT !.ranDecode = TRUE,
                   !.tokens = [i \in 1..conf.heads |-> @[1]],
                   !.kv = [i \in 1..conf.heads |-> @[1]]]

\* Mutant of PrefillRun: the step counts the tokens that were run.
PrefillRunCountsRun(e, ids, fail) ==
    Ok([e EXCEPT !.tokens = AddPending(AddProcessedTokens(MarkPendingAsProcessed(@),
                                SubSeq(ids, 1, Len(ids) - 1)), <<ids[Len(ids)]>>),
                 !.step = @ + Len(ids) - 1])

(***************************************************************************)
(* Prefill.  `fail' says that the run of the model fails: the tokens have   *)
(* been recorded before it.                                                 *)
(***************************************************************************)
\* All tokens but the last are run after the pending one, at positions from
\* current_step on; the last becomes pending.
PrefillRun(e, ids, fail) ==
    LET c      == e.tokens
        front  == SubSeq(ids, 1, Len(ids) - 1)
        skip   == ~HasPending(c) /\ front = <<>>
        mark(toks) == IF fail THEN Marked(toks, Lost) ELSE toks
        kv     == WriteKv(WriteKv(e.kv[1], GetStep(c), mark(c[1].pending)),
                          e.step, mark(front))
        done   == [e EXCEPT
                     !.tokens = AddPending(AddProcessedTokens(
                                    MarkPendingAsProcessed(c), front),
                                    <<ids[Len(ids)]>>),
                     !.kv   = <<kv>>,
                     !.step = @ + Len(ids)]
    IN IF fail /\ ~skip THEN Err(done) ELSE Ok(done)

\* Mutant of PrefillDynamic: the pending token gets no room.
PrefillDynamicTight(e, ids, fail) ==
    LET c    == e.tokens
        len  == Len(ids) - 1
        room == IF len > e.room - GetStep(c) THEN e.room + len ELSE e.room
    IN IF ~HasPending(c) /\ len = 0 THEN Ok([e EXCEPT !.tokens = AddPending(c, ids)])
       ELSE PrefillRun([e EXCEPT !.room = room], ids, fail)

\* The dynamic executor makes room in its cache first.  A single token with
\* none pending is stored without a run, and without counting the step.
PrefillDynamic(e, ids, fail) ==
    LET c      == e.tokens
        len    == Len(ids) - (IF HasPending(c) THEN 0 ELSE 1)
        single == ~HasPending(c) /\ len = 0
        room   == IF len > e.room - GetStep(c) THEN e.room + len ELSE e.room
    IN IF single THEN Ok([e EXCEPT !.tokens = AddPending(c, ids)])
       ELSE PrefillRun([e EXCEPT !.room = room], ids, fail)

PrefillInternal(conf, e, ids, fail) ==
    LET r == RollBackProcessedTokens(e)
    IN IF ~r.ok THEN r
       ELSE IF conf.dynamic THEN PrefillDynamic(r.e, ids, fail)
       ELSE PrefillRun(r.e, ids, fail)

\* The input is run in groups of lengths the model offers (static executor) or
\* in chunks of a given size (dynamic one, 0 for none): here at most two, `cut'
\* tokens and the rest.
Cuts(conf, ids) ==
    IF ~conf.dynamic THEN 0..(Len(ids) - 1)
    ELSE IF conf.chunk \in 1..(Len(ids) - 1) THEN {conf.chunk} ELSE {0}

\* failAt is the run that fails, 0 if none does.
Prefill(conf, e, ids, cut, failAt) ==
    LET p     == PrepareFirstPrefillAfterDecode(e)
        first == PrefillInternal(conf, p, SubSeq(ids, 1, cut), failAt = 1)
    IN IF cut = 0 THEN PrefillInternal(conf, p, ids, failAt = 1)
       ELSE IF ~first.ok THEN first
       ELSE PrefillInternal(conf, first.e, SubSeq(ids, cut + 1, Len(ids)), failAt = 2)

(***************************************************************************)
(* Decode.                                                                  *)
(***************************************************************************)
\* Tokens the caller gives (one per candidate) replace the pending ones.
TokensToDecode(c, given) ==
    IF given = <<>> \/ given[1] < 0 THEN c
    ELSE AddPending(InvalidatePending(c), given)

\* The dynamic executor grows its cache by one increment when it is full.
DecodeRoom(conf, e) ==
    IF conf.dynamic /\ e.room \in 1..(e.step - 1) THEN e.room + conf.increment
    ELSE e.room

\* One run of the model on the pending token, which is then processed; the
\* step is one further.  When the sampler handles the input, it has run the
\* model on this token already.  r is the result of the rollback.
DecodeInternal(conf, r, given, fail) ==
    LET e  == [r.e EXCEPT !.tokens = TokensToDecode(@, given),
                          !.room   = DecodeRoom(conf, r.e)]
        kv == [i \in DOMAIN e.kv |-> WriteKv(e.kv[i], e.step - 1, e.tokens[i].pending)]
    IN IF ~r.ok THEN r
       ELSE IF \/ conf.dynamic /\ r.e.room = 0
               \/ ~e.ahead /\ (fail \/ ~HasPending(e.tokens))
            THEN Err(e)
       ELSE Ok([e EXCEPT !.tokens = MarkPendingAsProcessed(@),
                         !.kv     = IF e.ahead THEN @ ELSE kv,
                         !.step   = @ + 1])

DecodeLogits(conf, e, given, fail) ==
    DecodeInternal(conf, RollBackProcessedTokens(PrepareFirstDecode(conf, e)), given, fail)

\* Decode without a drafter: one sampled token per candidate becomes pending.
\* A sampler that handles the input runs the model on it at once.
SampleAndStore(conf, r, sampled) ==
    IF ~r.ok THEN r
    ELSE Ok([r.e EXCEPT
               !.tokens = AddPending(@, sampled),
               !.ahead  = conf.sampler = "ahead",
               !.kv = IF conf.sampler # "ahead" THEN @
                      ELSE [i \in DOMAIN @ |->
                              WriteKv(@[i], r.e.step - 1, <<sampled[i]>>)]])

DecodeSampled(conf, e, sampled, fail) ==
    SampleAndStore(conf, DecodeLogits(conf, e, <<>>, fail), sampled)

\* The verifier runs the model on the token and on all drafted ones, of which
\* the accepted are a prefix, and gives one more token (Draft).
WriteDraft(conf, row, pos, toks) ==
    WriteKv(row, pos, toks \o [i \in 1..(conf.draft + 1 - Len(toks)) |-> Unwritten])

\* What a drafter makes of the result r of the run before it: a decode of one
\* token when it is the `first' since the prefill, and else only a rollback, so
\* that the pending token is verified with the draft.
Drafted(conf, first, r, out, failAt) ==
    LET e     == r.e
        front == SubSeq(out, 1, Len(out) - 1)
        run   == IF first THEN front ELSE e.tokens[1].pending \o front
        pos   == IF first THEN e.step - 1 ELSE GetStep(e.tokens)
    IN IF ~r.ok THEN r
       ELSE IF failAt # 0
            THEN Err([e EXCEPT
                   !.kv = <<WriteKv(@[1], GetStep(e.tokens),
                                    Marked(e.tokens[1].pending, Lost))>>,
                   !.tokens = MarkPendingAsProcessed(@)])
       ELSE Ok([e EXCEPT
                  !.tokens = AddPending(AddProcessedTokens(
                                 MarkPendingAsProcessed(@), front), <<out[Len(out)]>>),
                  !.kv     = <<WriteDraft(conf, @[1], pos, run)>>,
                  !.step   = @ + Len(run)])

\* Decode with a drafter.  `out' is what the call returns, failAt the run that
\* fails: 1 the model's, 2 the drafter's.
DecodeDrafted(conf, e, out, failAt) ==
    Drafted(conf, ~e.ranDecode,
            IF e.ranDecode THEN RollBackProcessedTokens(e)
            ELSE DecodeLogits(conf, e, <<>>, failAt = 1),
            out, failAt)

(***************************************************************************)
(* The NPU executor (llm_litert_npu_compiled_model_executor.cc): one        *)
(* candidate, sampled greedily.  It has no SetCurrentStep and no            *)
(* DecodeLogits: what needs them is refused as not implemented.             *)
(***************************************************************************)
NpuRollBack(e) ==
    IF TokenCount(e.tokens) = e.step THEN e
    ELSE [e EXCEPT !.tokens = RollBackToStep(@, e.step)]

\* The models are run even when only the last token is new; the tokens, the new
\* pending one and the step have been recorded before.
NpuPrefillInternal(e, ids, fail) ==
    LET r == PrefillRun(NpuRollBack(e), ids, fail) IN IF fail THEN Err(r.e) ELSE r

NpuPrefill(e, ids, cut, failAt) ==
    LET first == NpuPrefillInternal(e, SubSeq(ids, 1, cut), failAt = 1)
    IN IF cut = 0 THEN NpuPrefillInternal(e, ids, failAt = 1)
       ELSE IF ~first.ok THEN first
       ELSE NpuPrefillInternal(first.e, SubSeq(ids, cut + 1, Len(ids)), failAt = 2)

\* Nothing is recorded when the pending token is missing or a model fails.
NpuDecode(e0, sampled, fail) ==
    LET e == NpuRollBack(e0)
    IN IF ~HasPending(e.tokens) THEN Err(e)
       ELSE IF fail
       THEN Err([e EXCEPT !.kv = <<WriteKv(@[1], GetStep(e.tokens), <<Lost>>)>>])
       ELSE Ok([e EXCEPT
                  !.kv = <<WriteKv(@[1], GetStep(e.tokens), e.tokens[1].pending)>>,
                  !.tokens = AddPending(MarkPendingAsProcessed(@), sampled),
                  !.step = @ + 1])

\* Reset forgets the tokens and clears the cache at once.
NpuReset(e) == FreshExecutor
=============================================================================
