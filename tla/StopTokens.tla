------------------------------ MODULE StopTokens ------------------------------
(***************************************************************************)
(* How the text of a decode ends at a stop sequence: StopTokenDetector      *)
(* (stop_token_detector.cc), which follows every stop sequence through the  *)
(* tokens of every candidate, and the text that DecodeOneStep::Run          *)
(* (tasks.cc) gives away or holds back after each token.                    *)
(*                                                                          *)
(* A text is the sequence of the tokens it comes from.  A Lead token has no *)
(* text of its own: the tokenizer decodes it together with the Trail token  *)
(* after it (an incomplete BPE sequence).                                   *)
(***************************************************************************)
EXTENDS Integers, Sequences, FiniteSets

CONSTANTS
    Plain,        \* tokens that are text by themselves
    Lead, Trail,  \* the two halves of a text of two tokens
    StopChoice,   \* the stop sequences a caller may add
    MaxStops,     \* bound: stop sequences added
    MaxStream     \* bound: MaxStream[n] tokens for each of n candidates

VARIABLES
    stops,       \* stop_sequences_storage_
    detector,    \* per candidate: progress on each stop sequence, the greatest
                 \* of them, found, and matched_stop_sequence_length_
    partialIds,  \* bpe_partial_token_ids_
    heldText,    \* pending_stop_tokens_: texts held back
    givenText,   \* the result texts of all steps, one after the other
    sampledIds   \* the tokens of each candidate

Flat(texts) ==
    LET f[n \in 0..Len(texts)] == IF n = 0 THEN <<>> ELSE f[n - 1] \o texts[n]
    IN f[Len(texts)]

Greatest(S) == CHOOSE x \in S : \A y \in S : y <= x
Smallest(S) == CHOOSE x \in S : \A y \in S : x <= y

\* ResetBatch.
FreshDetector ==
    [progress |-> [k \in DOMAIN stops |-> 0], max |-> 0, found |-> FALSE, matched |-> 0]

StopInit ==
    /\ stops = <<>>
    /\ \E heads \in DOMAIN MaxStream :
         /\ detector   = [i \in 1..heads |-> FreshDetector]
         /\ partialIds = [i \in 1..heads |-> <<>>]
         /\ heldText   = [i \in 1..heads |-> <<>>]
         /\ givenText  = [i \in 1..heads |-> <<>>]
         /\ sampledIds = [i \in 1..heads |-> <<>>]

Started == sampledIds[1] # <<>>

\* A sequence that is there already is skipped.
AddStopTokenSequence(seq) ==
    /\ ~Started
    /\ Len(stops) < MaxStops
    /\ \A k \in DOMAIN stops : stops[k] # seq
    /\ stops' = Append(stops, seq)
    /\ detector' = [i \in DOMAIN detector |->
                      [detector[i] EXCEPT !.progress = Append(@, 0)]]
    /\ UNCHANGED <<partialIds, heldText, givenText, sampledIds>>

\* Mutant of Progress: a mismatch forgets that the token may start the sequence.
ProgressOrNone(seq, at, token) ==
    IF at < Len(seq) /\ seq[at + 1] = token THEN at + 1 ELSE 0

Progress(seq, at, token) ==
    IF at < Len(seq) /\ seq[at + 1] = token THEN at + 1
    ELSE IF seq[1] = token THEN 1 ELSE 0

\* ProcessTokens for one candidate.  Of the sequences complete at once the last
\* one added gives the length; after that every token counts as part of it.
ProcessToken(d, token) ==
    LET progress == [k \in DOMAIN stops |-> Progress(stops[k], d.progress[k], token)]
        complete == {k \in DOMAIN stops : progress[k] = Len(stops[k])}
    IN IF d.found THEN [d EXCEPT !.matched = @ + 1]
       ELSE [progress |-> progress,
             max      |-> Greatest({0} \cup {progress[k] : k \in DOMAIN stops}),
             found    |-> complete # {},
             matched  |-> IF complete = {} THEN d.matched ELSE Len(stops[Greatest(complete)])]

\* What is held is at most as long as the longest match under way.
HoldBack(d, held, text) ==
    LET queue == IF d.max > 0 THEN Append(held, text) ELSE held
        over  == IF Len(queue) > d.max THEN Len(queue) - d.max ELSE 0
    IN [held |-> SubSeq(queue, over + 1, Len(queue)),
        given |-> Flat(SubSeq(queue, 1, over)) \o (IF d.max = 0 THEN text ELSE <<>>)]

\* One token for each candidate.  A decode ends once every candidate is stopped;
\* ProcessTokens refuses to run without stop sequences.
DecodeStep(tokens) ==
    LET d      == [i \in DOMAIN detector |-> ProcessToken(detector[i], tokens[i])]
        merged == [i \in DOMAIN detector |-> Append(partialIds[i], tokens[i])]
        whole(i) == tokens[i] # Lead
        out    == [i \in DOMAIN detector |->
                     IF whole(i) /\ ~d[i].found THEN HoldBack(d[i], heldText[i], merged[i])
                     ELSE [held |-> heldText[i], given |-> <<>>]]
    IN /\ stops # <<>>
       /\ \E i \in DOMAIN detector : ~detector[i].found
       /\ detector' = d
       /\ partialIds' = [i \in DOMAIN detector |->
                           IF ~whole(i) THEN merged[i]
                           ELSE IF ~d[i].found THEN <<>> ELSE partialIds[i]]
       /\ heldText'  = [i \in DOMAIN detector |-> out[i].held]
       /\ givenText' = [i \in DOMAIN detector |-> givenText[i] \o out[i].given]
       /\ sampledIds' = [i \in DOMAIN detector |-> Append(sampledIds[i], tokens[i])]
       /\ UNCHANGED stops

\* The model writes whole characters: a trailing half comes after a leading one.
Drawn(i) ==
    LET s == sampledIds[i]
    IN IF s # <<>> /\ s[Len(s)] = Lead THEN {Trail} ELSE Plain \cup {Lead}

StopNext ==
    \/ \E seq \in StopChoice : AddStopTokenSequence(seq)
    \/ /\ Len(sampledIds[1]) < MaxStream[Len(detector)]
       /\ \E tokens \in [DOMAIN detector -> Plain \cup {Lead, Trail}] :
            /\ \A i \in DOMAIN tokens : tokens[i] \in Drawn(i)
            /\ DecodeStep(tokens)

stopVars == <<stops, detector, partialIds, heldText, givenText, sampledIds>>

StopSpec == StopInit /\ [][StopNext]_stopVars

(***************************************************************************)
(* No stop sequence begins inside another one (or again inside itself), but *)
(* for one of several tokens at the very end of it.                         *)
(***************************************************************************)
Apart ==
    \A a, b \in DOMAIN stops : \A p \in 2..Len(stops[a]) :
        stops[b][1] = stops[a][p] => p = Len(stops[a]) /\ Len(stops[b]) > 1

EndsAt(s, n) == {k \in DOMAIN stops : /\ Len(stops[k]) <= n
                                      /\ SubSeq(s, n - Len(stops[k]) + 1, n) = stops[k]}

Beginning(text) == text = <<>> \/ \E k \in DOMAIN stops :
    Len(text) < Len(stops[k]) /\ text = SubSeq(stops[k], 1, Len(text))

\* When the stop sequences keep apart, the detector stops at the first of them
\* and counts the tokens from there on, and the caller is given the text before
\* it.  The text held back is never more than the beginning of a stop sequence
\* (and half a character); when the decode ends elsewhere, it is lost.
StopIsCut ==
    Apart => \A i \in DOMAIN sampledIds :
        LET s    == sampledIds[i]
            ends == {n \in DOMAIN s : EndsAt(s, n) # {}}
            n    == Smallest(ends)
            cut  == n - Len(stops[CHOOSE k \in EndsAt(s, n) : TRUE])
            text == SubSeq(s, 1, IF ends = {} THEN Len(s) - Len(partialIds[i]) ELSE cut)
            kept == Len(givenText[i])
        IN /\ detector[i].found = (ends # {})
           /\ ends # {} => detector[i].matched = Len(s) - cut
           /\ givenText[i] = SubSeq(text, 1, kept)
           /\ ends = {} => text = givenText[i] \o Flat(heldText[i])
           /\ partialIds[i] = <<>> => Beginning(SubSeq(text, kept + 1, Len(text)))
=============================================================================
