------------------------------ MODULE Transcript ------------------------------
(***************************************************************************)
(* What a session promises its caller, without steps, pending tokens and    *)
(* caches: a transcript that grows at the end, and checkpoints that bring   *)
(* back exactly what it was when they were saved.                           *)
(***************************************************************************)
EXTENDS Integers, Sequences, SequencesExt

CONSTANT Label

VARIABLES
    said,   \* the tokens of the conversation so far
    saved   \* for each label the transcripts saved under it: none or one

vars == <<said, saved>>

Init == said = <<>> /\ saved = [l \in Label |-> {}]

\* A prefill, or a step of a decode: tokens are added at the end, if any.
Grow == IsPrefix(said, said') /\ UNCHANGED saved

Save(l) == saved' = [saved EXCEPT ![l] = {said}] /\ UNCHANGED said

\* Checkpoints of longer transcripts are gone, those of shorter ones stay.
Rewind(l) ==
    /\ saved[l] = {said'}
    /\ saved' = [k \in Label |-> {s \in saved[k] : Len(s) <= Len(said')}]

\* The session is closed; the next one starts from nothing.
Close == said' = <<>> /\ saved' = [l \in Label |-> {}]

Next == Grow \/ Close \/ \E l \in Label : Save(l) \/ Rewind(l)

Spec == Init /\ [][Next]_vars
=============================================================================
