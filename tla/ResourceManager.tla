--------------------------- MODULE ResourceManager ---------------------------
(***************************************************************************)
(* ResourceManager and its LockedLlmExecutor (resource_manager.cc): one     *)
(* executor, which holds the context of one handler at a time.              *)
(*                                                                          *)
(* A cloned handler shares the processed context of the original, each with *)
(* a step of its own.  A handler that goes on where another one has gone    *)
(* another way first copies the processed context (copy on write); a prompt *)
(* that repeats what is there already only moves the step.                  *)
(*                                                                          *)
(* Every call holds executor_mutex_ from AcquireExecutorWithContextHandler   *)
(* to its end, so that a call is one step.  ContextHandler and the executor *)
(* that can clone a context are not in the repository: they are modelled by *)
(* how this code uses them.  Of a context the model keeps the tokens.       *)
(***************************************************************************)
EXTENDS Integers, Sequences, FiniteSets

CONSTANTS
    Handler, NoHandler,
    Inputs,         \* the token sequences of prefills; a negative id is an image
    Sampled,        \* the tokens that are decoded
    MaxStep         \* bound on the length of a context

ASSUME ContextBounds ==
    /\ NoHandler \notin Handler /\ IsFiniteSet(Handler)
    /\ Inputs \subseteq Seq(Int) /\ Sampled \subseteq Int /\ MaxStep \in Nat

\* SharedProcessedContext objects; a free one stands for the next one made.
Cell == 1..Cardinality(Handler)
NoCell == 0

VARIABLES
    executor,   \* the loaded context: [toks, pending, step]
    current,    \* current_handler_
    owned,      \* handlers a session has
    shared,     \* handler -> its shared_processed_context, NoCell: no such handler
    saved,      \* handler -> step of the runtime state it holds, -1: none
    stored      \* cell -> processed contexts it holds, none or one

vars == <<executor, current, owned, shared, saved, stored>>

Processed(e) == [toks |-> e.toks, pending |-> e.pending]

NewContext == [toks |-> <<>>, pending |-> FALSE]

Init ==
    /\ executor = [toks |-> <<>>, pending |-> FALSE, step |-> 0]
    /\ current = NoHandler
    /\ owned = {}
    /\ shared = [h \in Handler |-> NoCell]
    /\ saved = [h \in Handler |-> -1]
    /\ stored = [c \in Cell |-> {}]

(***************************************************************************)
(* The executor, as the wrapper uses it: the step may be set anywhere up to *)
(* the end of the tokens, which are cut there by the next prefill or decode; *)
(* the last of them is then to be processed again.                          *)
(***************************************************************************)
TokenCount(e) == Len(e.toks)

ExecutorPrefill(e, at, ids) ==
    [toks |-> SubSeq(e.toks, 1, at) \o ids, pending |-> TRUE, step |-> at + Len(ids)]

ExecutorDecode(e, tok) ==
    [toks |-> SubSeq(e.toks, 1, e.step) \o <<tok>>, pending |-> TRUE, step |-> e.step + 1]

\* The given token is processed at the step.
ExecutorDecodeLogits(e, tok) ==
    [toks |-> SubSeq(e.toks, 1, e.step) \o <<tok>>, pending |-> FALSE, step |-> e.step + 1]

(***************************************************************************)
(* Handlers.                                                                *)
(***************************************************************************)
FreshCell(h) == CHOOSE c \in Cell : \A g \in Handler \ {h} : shared[g] # c

StepOf(h) == IF h = current THEN executor.step ELSE saved[h]

\* LongestHandlerTimeStep of the loaded context, with the executor at a step.
LongestHandlerTimeStep(at) ==
    LET steps == {at} \cup {saved[h] : h \in {g \in Handler \ {current} :
                                               shared[g] = shared[current]}}
    IN CHOOSE n \in steps : \A m \in steps : m <= n

\* A context nobody refers to is freed.
Freed(cells, handlers) ==
    [c \in Cell |-> IF \E h \in Handler : handlers[h] = c THEN cells[c] ELSE {}]

CreateContextHandler(h) ==
    /\ shared[h] = NoCell
    /\ LET c == FreshCell(h)
       IN shared' = [shared EXCEPT ![h] = c] /\ stored' = [stored EXCEPT ![c] = {NewContext}]
    /\ saved' = [saved EXCEPT ![h] = 0]
    /\ owned' = owned \cup {h}
    /\ UNCHANGED <<executor, current>>

\* The state is taken from the handler or, when it is loaded, from the executor.
CloneSource(h) == IF saved[h] # -1 THEN saved[h] ELSE executor.step

CloneContextHandler(h, g) ==
    /\ h \in owned /\ shared[g] = NoCell
    /\ shared' = [shared EXCEPT ![g] = shared[h]]
    /\ saved' = [saved EXCEPT ![g] = CloneSource(h)]
    /\ owned' = owned \cup {g}
    /\ UNCHANGED <<executor, current, stored>>

\* The manager keeps the handler that is loaded alive.
ReleaseHandler(h) ==
    /\ h \in owned
    /\ owned' = owned \ {h}
    /\ IF h = current THEN UNCHANGED <<shared, saved, stored>>
       ELSE /\ shared' = [shared EXCEPT ![h] = NoCell]
            /\ saved' = [saved EXCEPT ![h] = -1]
            /\ stored' = Freed(stored, shared')
    /\ UNCHANGED <<executor, current>>

\* What becomes of the handler that was loaded: it gets its state back, or is
\* destroyed with the last reference to it.
PutBack(h) ==
    /\ shared' = IF current = NoHandler \/ current \in owned THEN shared
                 ELSE [shared EXCEPT ![current] = NoCell]
    /\ saved' = [g \in Handler |-> IF g = h THEN -1
                                   ELSE IF g # current THEN saved[g]
                                   ELSE IF g \in owned THEN executor.step ELSE -1]

\* A handler of the same shared context: only the state is exchanged.
SwitchState(h) ==
    /\ executor' = [executor EXCEPT !.step = saved[h]]
    /\ UNCHANGED stored

\* Mutants of SwitchContext: the step is not restored, or the loaded context
\* not saved.
SwitchContextKeepingStep(h) ==
    \E p \in stored[shared[h]] :
        /\ executor' = [executor EXCEPT !.toks = p.toks, !.pending = p.pending]
        /\ UNCHANGED stored
SwitchContextUnsaved(h) ==
    \E p \in stored[shared[h]] :
        /\ executor' = [toks |-> p.toks, pending |-> p.pending, step |-> saved[h]]
        /\ stored' = Freed([stored EXCEPT ![shared[h]] = {}], shared')

\* Otherwise the loaded context is saved, and the new one moved to the executor.
SwitchContext(h) ==
    \E p \in stored[shared[h]] :
        /\ executor' = [toks |-> p.toks, pending |-> p.pending, step |-> saved[h]]
        /\ stored' = Freed([c \in Cell |->
                              IF c = shared[h] THEN {}
                              ELSE IF current # NoHandler /\ c = shared[current]
                                   THEN {Processed(executor)}
                              ELSE stored[c]], shared')

\* AcquireExecutorWithContextHandler; nothing changes for the loaded handler.
AcquireExecutorWithContextHandler(h) ==
    /\ h \in owned /\ h # current
    /\ PutBack(h)
    /\ IF current # NoHandler /\ shared[h] = shared[current]
       THEN SwitchState(h) ELSE SwitchContext(h)
    /\ current' = h
    /\ UNCHANGED owned

(***************************************************************************)
(* The calls of the handler that has the executor.                          *)
(***************************************************************************)
\* SaveProcessedContextAndSeparateLoadedHandler: the others keep a copy.
Separate ==
    LET c == FreshCell(current)
    IN /\ shared' = [shared EXCEPT ![current] = c]
       /\ stored' = Freed([stored EXCEPT ![shared[current]] = {Processed(executor)},
                                         ![c] = {}], shared')

\* Mutant of CopyOnWrite: no copy is made.
CopyNever(at, step) == UNCHANGED <<shared, stored>>

\* Cutting the tokens at a step, with the executor at another, needs a copy
\* unless the step is the longest one.
CopyOnWrite(at, step) ==
    IF LongestHandlerTimeStep(at) # step THEN Separate ELSE UNCHANGED <<shared, stored>>

\* RemoveMatchingTokens: how many tokens of the input are there already.  An
\* image never matches.
Matching(ids) ==
    LET n == CHOOSE n \in 0..Len(ids) :
                /\ \A i \in 1..n : /\ ids[i] >= 0
                                   /\ executor.step + i <= TokenCount(executor)
                                   /\ ids[i] = executor.toks[executor.step + i]
                /\ n < Len(ids) => \/ ids[n + 1] < 0
                                   \/ executor.step + n + 1 > TokenCount(executor)
                                   \/ ids[n + 1] # executor.toks[executor.step + n + 1]
    IN n

\* Mutant of PrefillFrom: tokens after the match are taken for the caller's.
PrefillKeepingRest(ids) ==
    LET n    == Matching(ids)
        rest == SubSeq(ids, n + 1, Len(ids))
    IN /\ executor' = IF rest = <<>> THEN [executor EXCEPT !.step = @ + n]
                      ELSE ExecutorPrefill(executor, TokenCount(executor), rest)
       /\ UNCHANGED <<shared, stored>>

\* Prefill of an input at a step before the end of the tokens.
PrefillFrom(ids) ==
    LET n    == Matching(ids)
        step == executor.step + n
        rest == SubSeq(ids, n + 1, Len(ids))
    IN IF rest = <<>>
       THEN executor' = [executor EXCEPT !.step = step] /\ UNCHANGED <<shared, stored>>
       ELSE /\ executor' = ExecutorPrefill(executor, step, rest)
            /\ IF step = TokenCount(executor) THEN UNCHANGED <<shared, stored>>
               ELSE CopyOnWrite(executor.step, step)

Prefill(ids) ==
    /\ current \in owned /\ executor.step + Len(ids) <= MaxStep
    /\ IF executor.step = TokenCount(executor)
       THEN /\ executor' = ExecutorPrefill(executor, executor.step, ids)
            /\ UNCHANGED <<shared, stored>>
       ELSE PrefillFrom(ids)
    /\ UNCHANGED <<current, owned, saved>>

MaybeTruncateProcessedTokens(step) ==
    IF step = TokenCount(executor) THEN UNCHANGED <<shared, stored>>
    ELSE CopyOnWrite(step, step)

Decode(tok) ==
    /\ current \in owned /\ executor.step \in 1..(MaxStep - 1)
    /\ MaybeTruncateProcessedTokens(executor.step)
    /\ executor' = ExecutorDecode(executor, tok)
    /\ UNCHANGED <<current, owned, saved>>

\* The caller, who samples outside the executor, gives the token to process:
\* the pending one again after a prefill, the sampled one after that.
DecodeLogits(tok) ==
    /\ current \in owned /\ executor.step \in 1..(MaxStep - 1)
    /\ LET again == executor.step = TokenCount(executor) /\ executor.pending
           step  == IF again THEN executor.step - 1 ELSE executor.step
       IN /\ again => tok = executor.toks[executor.step]
          /\ MaybeTruncateProcessedTokens(step)
          /\ executor' = ExecutorDecodeLogits([executor EXCEPT !.step = step], tok)
    /\ UNCHANGED <<current, owned, saved>>

\* A session rewinds.
SetCurrentStep(n) ==
    /\ current \in owned /\ n \in 0..(executor.step - 1)
    /\ executor' = [executor EXCEPT !.step = n]
    /\ UNCHANGED <<current, owned, shared, saved, stored>>

Next ==
    \/ \E h \in Handler : CreateContextHandler(h) \/ ReleaseHandler(h)
                          \/ AcquireExecutorWithContextHandler(h)
    \/ \E h, g \in Handler : CloneContextHandler(h, g)
    \/ \E ids \in Inputs : Prefill(ids)
    \/ \E tok \in Sampled : Decode(tok) \/ DecodeLogits(tok)
    \/ \E n \in 0..MaxStep : SetCurrentStep(n)

Spec == Init /\ [][Next]_vars

-----------------------------------------------------------------------------
(* Properties.                                                             *)

Alive == {h \in Handler : shared[h] # NoCell}

\* What a handler's session takes for its context.
TokensOf(h) ==
    IF current \in Handler /\ shared[h] = shared[current] THEN executor.toks
    ELSE (CHOOSE p \in stored[shared[h]] : TRUE).toks
ContextOf(h) == SubSeq(TokensOf(h), 1, StepOf(h))

TypeOK ==
    /\ executor.toks \in Seq(Int) /\ executor.pending \in BOOLEAN
    /\ executor.step \in 0..TokenCount(executor)
    /\ current \in Handler \cup {NoHandler}
    /\ owned \subseteq Alive
    /\ shared \in [Handler -> Cell \cup {NoCell}]
    /\ saved \in [Handler -> Nat \cup {-1}]
    /\ \A c \in Cell : \A p \in stored[c] : p.toks \in Seq(Int) /\ p.pending \in BOOLEAN

\* Nothing is owned twice or by nobody: the loaded handler holds neither
\* runtime state nor processed context, every other one can get both.  The
\* RET_CHECKs and Retrieve calls of a switch, of a copy and of a clone fail
\* otherwise, after half of the state has been moved.
OwnedOnce ==
    /\ \A h \in Alive : saved[h] = -1 <=> h = current
    /\ \A h \in Alive : Cardinality(stored[shared[h]]) =
                           IF current # NoHandler /\ shared[h] = shared[current] THEN 0 ELSE 1
    /\ \A c \in Cell : (\A h \in Handler : shared[h] # c) => stored[c] = {}
    /\ current # NoHandler => current \in Alive

(* The inductive invariant under which the properties hold. *)
ProcessedContext == [toks : Seq(Int), pending : BOOLEAN]

\* The cell of the loaded context.
Loaded == IF current = NoHandler THEN NoCell ELSE shared[current]

ContextTypeOK ==
    /\ executor \in [toks : Seq(Int), pending : BOOLEAN, step : Nat]
    /\ executor.step <= TokenCount(executor)
    /\ current \in Handler \cup {NoHandler}
    /\ owned \subseteq Handler
    /\ shared \in [Handler -> Cell \cup {NoCell}]
    /\ saved \in [Handler -> Nat \cup {-1}]
    /\ stored \in [Cell -> SUBSET ProcessedContext]

\* A handler exists for its session or because it is loaded; the loaded one
\* exists, and it alone holds no state.
HandlersSound ==
    /\ \A h \in Handler : shared[h] # NoCell <=> h \in owned \/ h = current
    /\ \A h \in Handler : shared[h] # NoCell => (saved[h] = -1 <=> h = current)

\* A context that a handler refers to is in the executor or stored, and long
\* enough for the step of the handler.
CellsSound ==
    /\ \A c \in Cell : (\A h \in Handler : shared[h] # c) => stored[c] = {}
    /\ Loaded # NoCell => stored[Loaded] = {}
    /\ \A h \in Handler : shared[h] \notin {NoCell, Loaded} =>
          \E p \in stored[shared[h]] : stored[shared[h]] = {p} /\ saved[h] <= Len(p.toks)
    /\ \A h \in Handler : shared[h] = Loaded /\ Loaded # NoCell =>
          saved[h] <= TokenCount(executor)

ContextInv == ContextTypeOK /\ HandlersSound /\ CellsSound

\* A prefill appends its whole input to the context of its handler, whatever
\* part of it was found in the shared tokens (LockedLlmExecutor::Prefill).
PrefillAppends ==
    [][ \A ids \in Inputs : Prefill(ids) => ContextOf(current)' = ContextOf(current) \o ids ]_vars

\* Copy on write: to each handler its context is private, whoever shares the
\* processed context with it and truncates or extends it.
private == INSTANCE PrivateContexts WITH
    said <- [h \in Handler |-> IF h \in owned THEN {ContextOf(h)} ELSE {}]

ImplementsPrivate == private!Spec
=============================================================================
