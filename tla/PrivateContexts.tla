--------------------------- MODULE PrivateContexts ---------------------------
(***************************************************************************)
(* What the resource manager promises the handlers of one executor: each    *)
(* has a context of its own, which nobody else's calls change.              *)
(***************************************************************************)
EXTENDS Sequences, SequencesExt

CONSTANT Handler

VARIABLE said   \* the context of each handler: none, or one token sequence

Init == said = [h \in Handler |-> {}]

Create(h) == said[h] = {} /\ said' = [said EXCEPT ![h] = {<<>>}]

Clone(h, g) == said[h] # {} /\ said[g] = {} /\ said' = [said EXCEPT ![g] = said[h]]

Release(h) == said' = [said EXCEPT ![h] = {}]

Grow(h) ==
    \E t \in said[h], t2 \in said'[h] :
        IsPrefix(t, t2) /\ said' = [said EXCEPT ![h] = {t2}]

\* The step is set back.
Rewind(h) ==
    \E t \in said[h], t2 \in said'[h] :
        IsPrefix(t2, t) /\ said' = [said EXCEPT ![h] = {t2}]

Next == \E h \in Handler :
    \/ Create(h) \/ Release(h) \/ Grow(h) \/ Rewind(h)
    \/ \E g \in Handler : Clone(h, g)

Spec == Init /\ [][Next]_said
=============================================================================
