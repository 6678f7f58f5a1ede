---------------------------- MODULE EmbeddingLookup ----------------------------
(***************************************************************************)
(* The embeddings of a prefill: EmbeddingLookupManager and its lookups of   *)
(* text, of image and audio embeddings and of their end markers             *)
(* (embedding_lookup_manager.cc, _text.cc, _multi_modal.cc,                 *)
(* _end_of_multi_modal.cc), as the executor's prefill uses them             *)
(* (llm_litert_compiled_model_executor.cc).                                 *)
(*                                                                          *)
(* The tokens of images and of audio are all the same special token; their  *)
(* embeddings are taken in order from what came with the prompt, across the *)
(* groups the prompt is run in and the last token of each group, which is   *)
(* looked up alone.                                                         *)
(***************************************************************************)
EXTENDS Integers, Sequences, FiniteSets

CONSTANTS
    Words,       \* the text tokens (positive)
    MaxPrompt,   \* bound: tokens of a prompt
    MaxPrefills  \* bound: prefills

Vision == -1  \* ExecutorVisionData::kSpecialToken
Audio  == -2  \* ExecutorAudioData::kSpecialToken
EndOf  == -3  \* an end token, which has an embedding of its own
Special == {Vision, Audio}

VARIABLES
    supports,   \* fully_supports_multi_modal_
    lookups,    \* multi_modal_embedding_lookups_: [special, left], by the order of adding
    prompt,     \* the tokens of the prefill under way
    fed,        \* the embeddings of its tokens looked up so far
    pendingRow, \* the executor has a pending input token
    prefills,   \* prefills so far
    busy        \* a prefill is under way

DefaultRow == <<"default">>
Row(token) == <<"text", token>>   \* also the end marker's
Part(s, first, last) == SubSeq(s, first, last)
Top(S)    == CHOOSE x \in S : \A y \in S : y <= x
Bottom(S) == CHOOSE x \in S : \A y \in S : x <= y

Rank(toks, j) == Cardinality({i \in 1..j : toks[i] = toks[j]})
Count(toks, token) == Cardinality({i \in DOMAIN toks : toks[i] = token})

EmbedInit ==
    /\ supports \in BOOLEAN
    /\ lookups = <<>> /\ prompt = <<>> /\ fed = <<>>
    /\ pendingRow = FALSE /\ busy = FALSE /\ prefills = 0

\* The embedding of token j of toks, when taken from the lookups ls.  Every
\* lookup of the token writes its own, so that the last one counts.
RowOf(ls, toks, j, missing) ==
    LET mine == {i \in DOMAIN ls : ls[i].special = toks[j]}
    IN IF toks[j] > 0 \/ (toks[j] = EndOf /\ supports) THEN Row(toks[j])
       ELSE IF ~supports \/ mine = {} THEN missing
       ELSE ls[Top(mine)].left[Rank(toks, j)]

\* Each lookup gives one embedding for each of its tokens, in turn; the first
\* that has too few ends the call, with what it had used up.
Used(ls, toks) ==
    LET need(i) == IF supports THEN Count(toks, ls[i].special) ELSE 0
        dry == {i \in DOMAIN ls : need(i) > Len(ls[i].left)}
    IN [ok |-> dry = {},
        lookups |-> [i \in DOMAIN ls |->
            IF dry # {} /\ i > Bottom(dry) THEN ls[i]
            ELSE [ls[i] EXCEPT !.left =
                    Part(@, (IF need(i) < Len(@) THEN need(i) ELSE Len(@)) + 1, Len(@))]]]

\* Mutant of LookupOne: the embedding is copied, but not taken.
LookupOneKept(ls, token) ==
    [ok |-> Used(ls, <<token>>).ok, lookups |-> ls,
     rows |-> IF Used(ls, <<token>>).ok THEN <<RowOf(ls, <<token>>, 1, <<"unset">>)>> ELSE <<>>]

\* LookupPrefill of one token, for the pending token.
LookupOne(ls, token) ==
    LET used == Used(ls, <<token>>)
    IN [ok |-> used.ok, lookups |-> used.lookups,
        rows |-> IF ~used.ok THEN <<>>
                 ELSE <<RowOf(ls, <<token>>, 1, IF supports THEN <<"unset">> ELSE DefaultRow)>>]

\* LookupPrefill of a group, which drops the lookups that are used up.
LookupSpan(ls, toks) ==
    LET used == Used(ls, toks)
        HasRemaining == {i \in DOMAIN ls : used.lookups[i].left # <<>>}
    IN [ok |-> used.ok,
        lookups |-> IF used.ok THEN [i \in HasRemaining |-> used.lookups[i]] ELSE used.lookups,
        rows |-> IF ~used.ok THEN <<>>
                 ELSE [j \in DOMAIN toks |-> RowOf(ls, toks, j, DefaultRow)]]

Embeddings(special, n) ==
    [special |-> special, left |-> [k \in 1..n |-> <<"given", prefills + 1, special, k>>]]

\* The place of a lookup of this prefill: behind the earlier ones, audio last.
Place(special) == 2 * prefills - special

\* UpdateMultiModalEmbeddings, at the start of a prefill, with the number of
\* embeddings of each kind that came with the prompt, 0 for none.
StartPrefill(toks, given) ==
    LET new == {special \in Special : given[special] > 0}
        all == DOMAIN lookups \cup {Place(special) : special \in new}
        kind(i) == CHOOSE special \in new : Place(special) = i
        refused == ~supports /\ new # {}
    IN /\ ~busy
       /\ prefills < MaxPrefills
       /\ prefills' = prefills + 1
       /\ busy' = ~refused
       /\ prompt' = toks
       /\ fed' = <<>>
       /\ lookups' = IF refused THEN lookups
                     ELSE [i \in all |-> IF i \in DOMAIN lookups THEN lookups[i]
                                        ELSE Embeddings(kind(i), given[kind(i)])]
       /\ UNCHANGED <<supports, pendingRow>>

\* One group of n tokens: all but the last are looked up together, unless there
\* is nothing to run, then the last alone.  After the last group
\* CleanupMultiModalEmbeddings; a group that fails ends the prefill without it.
\* `fail' is a run of the model that fails.
PrefillGroup(n, fail) ==
    LET toks == Part(prompt, Len(fed) + 1, Len(fed) + n)
        skip == n = 1 /\ ~pendingRow
        span == IF skip THEN [ok |-> TRUE, lookups |-> lookups, rows |-> <<>>]
                ELSE LookupSpan(lookups, Part(toks, 1, n - 1))
        one  == LookupOne(span.lookups, toks[n])
        ok   == span.ok /\ one.ok /\ ~(fail /\ ~skip)
        last == Len(fed) + n = Len(prompt)
    IN /\ busy
       /\ fed' = IF span.ok THEN fed \o span.rows \o one.rows ELSE fed
       /\ lookups' = IF ~span.ok THEN span.lookups
                     ELSE IF ok /\ last THEN <<>> ELSE one.lookups
       /\ pendingRow' = (span.ok /\ one.ok)
       /\ busy' = (ok /\ ~last)
       /\ UNCHANGED <<supports, prompt, prefills>>

\* A prompt comes with one embedding for each of its special tokens, as the
\* comments of llm_executor_io_types.h ask for; an executor without the support
\* is given none, or refuses them.
EmbedNext ==
    \/ \E len \in 1..MaxPrompt : \E toks \in [1..len -> Words \cup Special \cup {EndOf}] :
         \E given \in BOOLEAN :
           /\ supports => given
           /\ StartPrefill(toks, [special \in Special |->
                                    IF given THEN Count(toks, special) ELSE 0])
    \/ \E n \in 1..(Len(prompt) - Len(fed)) : \E fail \in BOOLEAN : PrefillGroup(n, fail)

EmbedSpec == EmbedInit /\ [][EmbedNext]_<<supports, lookups, prompt, fed, pendingRow, prefills, busy>>

\* Whatever groups a prompt is run in, and whatever an earlier prefill that
\* failed left behind, a special token is embedded by the embedding of its rank
\* in its own prompt, and every other token by its own.
EmbeddingsInOrder ==
    \A j \in DOMAIN fed :
        fed[j] = IF prompt[j] > 0 \/ (prompt[j] = EndOf /\ supports) THEN Row(prompt[j])
                 ELSE IF ~supports THEN DefaultRow
                 ELSE <<"given", prefills, prompt[j], Rank(prompt, j)>>
=============================================================================
