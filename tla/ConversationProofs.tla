-------------------------- MODULE ConversationProofs --------------------------
(***************************************************************************)
(* Proofs about Conversation.                                               *)
(*                                                                          *)
(* Every step is one of Send, the steps of the session's turn, and the      *)
(* quiet ones that leave messages and turn alone; each is first restated by *)
(* what it does to the state (SendStep, PrefillStep, ...), and `Steps' is   *)
(* the case split all the invariants are proved over.                       *)
(*                                                                          *)
(* The types need CheckpointInv: a rewind cuts the context at the           *)
(* checkpoint.  HistoryIsContext follows from FollowsInv, that the context, *)
(* with the inputs of a prefill under way, is the preface and the history,  *)
(* the checkpoint being where the index is.  NothingForgotten has to hold   *)
(* of conversations with cancelled turns, whose messages are in the context *)
(* and no longer in the history: OrderInv orders both by the place at which *)
(* a message was sent, and has the checkpoint divide the context where the  *)
(* index divides the history, so that cutting the one and sending the rest  *)
(* of the other again leaves nothing out.  ChannelInv says that what lies   *)
(* before the checkpoint, or everything when there is no index, is plain.   *)
(***************************************************************************)
EXTENDS Conversation, SequenceTheorems, TLAPS

(***************************************************************************)
(* Messages and sequences of them.                                          *)
(***************************************************************************)
LEMMA MessageIs ==
    ASSUME NEW n \in Nat, NEW place \in Nat, NEW role \in Roles,
           NEW channels \in BOOLEAN, NEW call \in BOOLEAN
    PROVE  /\ Message(n, place, role, channels, call) \in Messages
           /\ Message(n, place, role, channels, call).at = <<n, place>>
           /\ Message(n, place, role, channels, call).role = role
           /\ Message(n, place, role, channels, call).channels = channels
BY DEF Message, Messages

LEMMA PrefaceIs ==
    Preface \in Messages /\ Preface.at = <<0, 0>> /\ Preface.role = "preface" /\ Preface.channels = FALSE
<1>1. 0 \in Nat /\ "preface" \in Roles /\ FALSE \in BOOLEAN
  BY DEF Roles
<1>. QED  BY <1>1, MessageIs, Zenon DEF Preface

\* A reply is a message of the model at the end of its turn.
LEMMA AnswerIs ==
    ASSUME turns \in Nat
    PROVE  /\ Answer \in Messages /\ Answer.at = <<turns, 0>> /\ Answer.role = "model"
           /\ Spoken \in Messages /\ Spoken.at = <<turns, 0>> /\ Spoken.role = "model"
           /\ Spoken.channels = (ExtractChannelContent(Named, stream.text).names # {})
           /\ Answer.channels =
                (ExtractChannelContent(IF turn.sync THEN Named ELSE AllChannels,
                                       stream.text).names # {})
<1>. DEFINE a == Complete.names # {}
            b == HoldsCall(Complete.text)
            c == ExtractChannelContent(Named, stream.text).names # {}
            d == HoldsCall(stream.text)
<1>1. /\ Answer = Message(turns, 0, "model", a, b)
      /\ Spoken = Message(turns, 0, "model", c, d)
  BY DEF Answer, Spoken
<1>2. a \in BOOLEAN /\ b \in BOOLEAN /\ c \in BOOLEAN /\ d \in BOOLEAN
  BY DEF HoldsCall
<1>. HIDE DEF a, b, c, d
<1>5. 0 \in Nat /\ "model" \in Roles
  BY DEF Roles
<1>3. \A x, y \in BOOLEAN :
        /\ Message(turns, 0, "model", x, y) \in Messages
        /\ Message(turns, 0, "model", x, y).at = <<turns, 0>>
        /\ Message(turns, 0, "model", x, y).role = "model"
        /\ Message(turns, 0, "model", x, y).channels = x
  BY <1>5, MessageIs
<1>4. PICK x, y, z, w \in BOOLEAN : x = a /\ y = b /\ z = c /\ w = d
  BY <1>2, Zenon
<1>. QED  BY <1>1, <1>3, <1>4, Zenon DEF a, c, Complete

\* What is left of a reply that has been broken off.
LEMMA PartialIs ==
    ASSUME turns \in Nat
    PROVE  /\ [Spoken EXCEPT !.role = "partial"] \in Messages
           /\ [Spoken EXCEPT !.role = "partial"].at = <<turns, 0>>
           /\ [Spoken EXCEPT !.role = "partial"].role = "partial"
<1>. DEFINE s == Spoken
<1>1. s \in Messages /\ s.at = <<turns, 0>>
  BY AnswerIs
<1>. HIDE DEF s
<1>2. PICK m \in Messages : m = s
  BY <1>1
<1>3. [m EXCEPT !.role = "partial"] \in Messages
  <2>1. "partial" \in Roles
    BY DEF Roles
  <2>. QED  BY <2>1 DEF Messages
<1>4. [m EXCEPT !.role = "partial"].at = m.at
  BY DEF Messages
<1>5. [m EXCEPT !.role = "partial"].role = "partial"
  BY DEF Messages
<1>. QED  BY <1>1, <1>2, <1>3, <1>4, <1>5 DEF s

LEMMA FunctionIsSequence ==
    ASSUME NEW S, NEW n \in Nat, NEW f \in [1..n -> S]
    PROVE  f \in Seq(S) /\ Len(f) = n
OBVIOUS

LEMMA RenderedIs ==
    ASSUME NEW s \in Seq(Messages)
    PROVE  /\ Rendered(s) \in Seq(Messages) /\ Len(Rendered(s)) = Len(s)
           /\ \A i \in 1..Len(s) : /\ Same(Rendered(s)[i], s[i])
                                   /\ Rendered(s)[i].channels = FALSE
<1>1. \A i \in 1..Len(s) : s[i] \in Messages
  OBVIOUS
<1>2. \A i \in 1..Len(s) : /\ [s[i] EXCEPT !.channels = FALSE] \in Messages
                           /\ [s[i] EXCEPT !.channels = FALSE].at = s[i].at
                           /\ [s[i] EXCEPT !.channels = FALSE].role = s[i].role
                           /\ [s[i] EXCEPT !.channels = FALSE].channels = FALSE
  BY <1>1 DEF Messages
<1>3. Rendered(s) = [i \in 1..Len(s) |-> [s[i] EXCEPT !.channels = FALSE]]
  BY DEF Rendered
<1>4. Len(s) \in Nat
  OBVIOUS
<1>5. Rendered(s) \in [1..Len(s) -> Messages]
  BY <1>2, <1>3
<1>6. Rendered(s) \in Seq(Messages) /\ Len(Rendered(s)) = Len(s)
  BY <1>4, <1>5
<1>7. \A i \in 1..Len(s) : Rendered(s)[i] = [s[i] EXCEPT !.channels = FALSE]
  BY <1>3
<1>. QED  BY <1>2, <1>6, <1>7 DEF Same

\* The messages of one call, as they are put into the history.
LEMMA TurnMessagesAre ==
    ASSUME NEW roles \in Seq(Roles), NEW n \in Nat
    PROVE  /\ TurnMessages(n, roles) \in Seq(Messages)
           /\ Len(TurnMessages(n, roles)) = Len(roles)
           /\ \A i \in 1..Len(roles) : /\ TurnMessages(n, roles)[i].at = <<n, i>>
                                       /\ TurnMessages(n, roles)[i].channels = FALSE
<1>1. Len(roles) \in Nat /\ DOMAIN roles = 1..Len(roles)
  OBVIOUS
<1>2. \A i \in 1..Len(roles) : i \in Nat /\ roles[i] \in Roles
  OBVIOUS
<1>3. \A i \in 1..Len(roles) : /\ Message(n, i, roles[i], FALSE, FALSE) \in Messages
                               /\ Message(n, i, roles[i], FALSE, FALSE).at = <<n, i>>
                               /\ Message(n, i, roles[i], FALSE, FALSE).channels = FALSE
  BY <1>2, MessageIs
<1>4. TurnMessages(n, roles) = [i \in 1..Len(roles) |-> Message(n, i, roles[i], FALSE, FALSE)]
  BY <1>1 DEF TurnMessages
<1>5. TurnMessages(n, roles) \in [1..Len(roles) -> Messages]
  BY <1>3, <1>4
<1>6. TurnMessages(n, roles) \in Seq(Messages) /\ Len(TurnMessages(n, roles)) = Len(roles)
  BY <1>1, <1>5, FunctionIsSequence, Zenon
<1>7. \A i \in 1..Len(roles) : TurnMessages(n, roles)[i] = Message(n, i, roles[i], FALSE, FALSE)
  BY <1>4
<1>. QED  BY <1>3, <1>6, <1>7

LEMMA FrontIs ==
    ASSUME NEW s \in Seq(Messages)
    PROVE  /\ Front(s) \in Seq(Messages)
           /\ s # <<>> => /\ Len(Front(s)) = Len(s) - 1
                          /\ \A i \in 1..(Len(s) - 1) : Front(s)[i] = s[i]
<1>1. CASE s = <<>>
  <2>1. Front(s) = <<>>
    BY <1>1 DEF Front
  <2>. QED  BY <1>1, <2>1
<1>2. CASE s # <<>>
  <2>1. Len(s) - 1 \in Nat /\ 1 \in Nat
    BY <1>2
  <2>2. Front(s) = SubSeq(s, 1, Len(s) - 1)
    BY DEF Front
  <2>3. PICK n \in Nat : n = Len(s) - 1
    BY <2>1
  <2>4. /\ SubSeq(s, 1, n) \in Seq(Messages)
        /\ Len(SubSeq(s, 1, n)) = n
    BY <2>3
  <2>5. \A i \in 1..n : SubSeq(s, 1, n)[i] = s[i]
    BY <2>3
  <2>. QED  BY <2>2, <2>3, <2>4, <2>5
<1>. QED  BY <1>1, <1>2

\* What rewinding and rendering put before the session.
LEMMA InputsAre ==
    ASSUME TypeOK, NEW s \in Seq(Messages)
    PROVE  /\ GetSingleTurnText(s) \in Seq(Messages)
           /\ index > 0 => RewoundInputs \in Seq(Messages)
<1>1. Rendered(s) \in Seq(Messages)
  BY RenderedIs
<1>2. GetSingleTurnText(s) \in Seq(Messages)
  BY <1>1, PrefaceIs DEF GetSingleTurnText
<1>3. ASSUME index > 0  PROVE RewoundInputs \in Seq(Messages)
  <2>1. history \in Seq(Messages) /\ index \in Nat
    BY DEF TypeOK
  <2>2. SubSeq(history, index, Len(history)) \in Seq(Messages)
    BY <1>3, <2>1
  <2>. QED  BY <2>2, RenderedIs DEF RewoundInputs
<1>. QED  BY <1>2, <1>3

(***************************************************************************)
(* Types.                                                                   *)
(***************************************************************************)
LEMMA BatchIs ==
    ASSUME NEW roles \in Batches
    PROVE  roles \in Seq(Roles)
<1>1. roles \in Seq(STRING) /\ DOMAIN roles = 1..Len(roles) /\ Len(roles) \in Nat
  BY ConversationBounds
<1>2. \A i \in 1..Len(roles) : roles[i] \in Roles
  <2>1. \A i \in DOMAIN roles : roles[i] \in Range(roles)
    BY DEF Range
  <2>. QED  BY <1>1, <2>1 DEF Roles
<1>3. roles \in [1..Len(roles) -> Roles]
  <2>1. roles = [i \in 1..Len(roles) |-> roles[i]]
    BY <1>1
  <2>. QED  BY <1>2, <2>1
<1>. QED  BY <1>1, <1>3, FunctionIsSequence

\* What Send does, whether it rewinds or not.
SendStep(roles, sync, pending, stage, rewinds, inputs) ==
    /\ Idle /\ turns' = turns + 1
    /\ stage \in {"none", "rewound", "render", "inputs"}
    /\ faults' = IF stage = "none" THEN faults ELSE faults + 1
    /\ rewinds \in BOOLEAN /\ rewinds = Rewinds(roles) /\ (rewinds => index > 0)
    /\ inputs \in Seq(Messages)
    /\ inputs = (IF rewinds THEN RewoundInputs ELSE <<>>) \o GetSingleTurnText(TurnMessages(turns + 1, roles))
    /\ context' = IF rewinds THEN SubSeq(context, 1, checkpoint) ELSE context
    /\ index' = IF rewinds /\ stage # "rewound" THEN 0 ELSE index
    /\ history' = IF stage \in {"none", "inputs"} THEN history \o TurnMessages(turns + 1, roles) ELSE history
    /\ turn' = IF stage # "none" THEN NoTurn
               ELSE [pc |-> "prefill", sync |-> sync, pending |-> pending,
                     roles |-> roles, inputs |-> inputs, before |-> history,
                     fate |-> "none"]
    /\ flag' = FALSE /\ stream' = NoReply /\ reply' = <<>> /\ told' = <<>>
    /\ UNCHANGED <<conf, checkpoint, supported, cancels>>

LEMMA SendIs ==
    ASSUME TypeOK, NEW roles \in Batches, NEW sync \in BOOLEAN, NEW pending \in BOOLEAN,
           Send(roles, sync, pending)
    PROVE  \E stage, rewinds, inputs : SendStep(roles, sync, pending, stage, rewinds, inputs)
<1>. DEFINE rewinds == Rewinds(roles)
            inputs == (IF rewinds THEN RewoundInputs ELSE <<>>)
                      \o GetSingleTurnText(TurnMessages(turns + 1, roles))
<1>1. rewinds \in BOOLEAN /\ (rewinds => index > 0)
  BY DEF Rewinds
<1>2. inputs \in Seq(Messages)
  <2>. HIDE DEF rewinds
  <2>1. TurnMessages(turns + 1, roles) \in Seq(Messages)
    <3>1. turns + 1 \in Nat
      BY DEF TypeOK
    <3>. QED  BY <3>1, BatchIs, TurnMessagesAre
  <2>2. GetSingleTurnText(TurnMessages(turns + 1, roles)) \in Seq(Messages)
    BY <2>1, InputsAre
  <2>3. rewinds => RewoundInputs \in Seq(Messages)
    BY <1>1, <2>1, InputsAre
  <2>. QED  BY <2>2, <2>3
<1>3. PICK stage \in Faults({"rewound", "render", "inputs"}) :
         /\ Fails(stage)
         /\ context' = IF rewinds THEN SubSeq(context, 1, checkpoint) ELSE context
         /\ index' = IF rewinds /\ stage # "rewound" THEN 0 ELSE index
         /\ history' = IF stage \in {"none", "inputs"} THEN history \o TurnMessages(turns + 1, roles) ELSE history
         /\ turn' = IF stage # "none" THEN NoTurn
                    ELSE [pc |-> "prefill", sync |-> sync, pending |-> pending,
                          roles |-> roles, inputs |-> inputs, before |-> history,
                          fate |-> "none"]
  BY DEF Send
<1>4. stage \in {"none", "rewound", "render", "inputs"}
  BY DEF Faults
<1>5. /\ Idle /\ turns' = turns + 1
      /\ flag' = FALSE /\ stream' = NoReply /\ reply' = <<>> /\ told' = <<>>
      /\ UNCHANGED <<conf, checkpoint, supported, cancels>>
  BY DEF Send
<1>6. faults' = IF stage = "none" THEN faults ELSE faults + 1
  BY <1>3 DEF Fails
<1>7. SendStep(roles, sync, pending, stage, rewinds, inputs)
  <2>. HIDE DEF inputs
  <2>1. inputs = (IF rewinds THEN RewoundInputs ELSE <<>>) \o GetSingleTurnText(TurnMessages(turns + 1, roles))
    BY DEF inputs
  <2>2. rewinds = Rewinds(roles)
    OBVIOUS
  <2>. HIDE DEF rewinds
  <2>. QED  BY <1>1, <1>2, <1>3, <1>4, <1>5, <1>6, <2>1, <2>2, Zenon DEF SendStep
<1>. QED  BY <1>7, Zenon

LEMMA SendTyped ==
    ASSUME TypeOK, CheckpointInv, NEW roles \in Batches, NEW sync \in BOOLEAN,
           NEW pending \in BOOLEAN, NEW stage, NEW rewinds, NEW inputs,
           SendStep(roles, sync, pending, stage, rewinds, inputs)
    PROVE  TypeOK'
<1>1. SendStep(roles, sync, pending, stage, rewinds, inputs)
  OBVIOUS
<1>2. roles \in Seq(Roles) /\ TurnMessages(turns + 1, roles) \in Seq(Messages)
  <2>1. turns + 1 \in Nat
    BY DEF TypeOK
  <2>. QED  BY <2>1, BatchIs, TurnMessagesAre
<1>3. history' \in Seq(Messages)
  <2>1. history \in Seq(Messages) /\ history \o TurnMessages(turns + 1, roles) \in Seq(Messages)
    BY <1>2 DEF TypeOK
  <2>. QED  BY <1>1, <2>1 DEF SendStep
<1>4. context' \in Seq(Messages)
  <2>1. context \in Seq(Messages)
    BY DEF TypeOK
  <2>2. rewinds => checkpoint \in 0..Len(context)
    BY <1>1 DEF SendStep, CheckpointInv
  <2>3. rewinds => SubSeq(context, 1, checkpoint) \in Seq(Messages)
    BY <2>1, <2>2
  <2>. QED  BY <1>1, <2>1, <2>3 DEF SendStep
<1>5. turn' \in TurnRecord
  <2>1. history \in Seq(Messages) /\ inputs \in Seq(Messages)
    BY <1>1 DEF TypeOK, SendStep
  <2>2. <<>> \in Seq(Messages) /\ <<>> \in Seq(Roles)
    OBVIOUS
  <2>3. CASE stage = "none"
    BY <1>1, <1>2, <2>1, <2>3 DEF SendStep, TurnRecord
  <2>4. CASE stage # "none"
    BY <1>1, <2>2, <2>4 DEF SendStep, NoTurn, TurnRecord
  <2>. QED  BY <2>3, <2>4
<1>6. /\ conf' \in [kind : Kinds, filter : Filters, onInit : BOOLEAN]
      /\ checkpoint' \in Nat \cup {-1} /\ supported' \in BOOLEAN
  BY <1>1 DEF SendStep, TypeOK
<1>7. index' \in Nat /\ turns' \in Nat /\ cancels' \in Nat /\ faults' \in Nat
  BY <1>1 DEF SendStep, TypeOK
<1>8. flag' \in BOOLEAN /\ told' \in Seq(ToBeTold)
  <2>1. flag' = FALSE /\ told' = <<>>
    BY <1>1 DEF SendStep
  <2>2. flag' \in BOOLEAN
    BY <2>1, Zenon
  <2>3. told' \in Seq(ToBeTold)
    BY <2>1
  <2>. QED  BY <2>2, <2>3
<1>. QED  BY <1>3, <1>4, <1>5, <1>6, <1>7, <1>8 DEF TypeOK

LEMMA EndsIs ==
    ASSUME TypeOK, NEW fate \in Fates, NEW ends \in Seq(ToBeTold), Ends(fate, ends)
    PROVE  /\ turn' \in TurnRecord /\ turn'.pc = "idle" /\ turn'.fate = fate
           /\ turn'.sync = turn.sync /\ turn'.pending = turn.pending
           /\ turn'.roles = turn.roles /\ turn'.before = turn.before
           /\ told' \in Seq(ToBeTold)
           /\ told' = told \o (IF turn.sync THEN <<>> ELSE ends)
<1>1. turn \in TurnRecord /\ told \in Seq(ToBeTold)
  BY DEF TypeOK
<1>2. turn' = [turn EXCEPT !.pc = "idle", !.fate = fate, !.inputs = <<>>]
  BY DEF Ends
<1>3. turn' \in TurnRecord
  <2>1. PICK u \in TurnRecord : u = turn
    BY <1>1
  <2>2. <<>> \in Seq(Messages) /\ fate \in Fates \cup {"none"}
    OBVIOUS
  <2>3. [u EXCEPT !.pc = "idle", !.fate = fate, !.inputs = <<>>] \in TurnRecord
    BY <2>2 DEF TurnRecord
  <2>. QED  BY <1>2, <2>1, <2>3
<1>4. /\ turn'.pc = "idle" /\ turn'.fate = fate
      /\ turn'.sync = turn.sync /\ turn'.pending = turn.pending
      /\ turn'.roles = turn.roles /\ turn'.before = turn.before
  BY <1>1, <1>2 DEF TurnRecord
<1>5. told' = told \o (IF turn.sync THEN <<>> ELSE ends)
  BY DEF Ends
<1>6. told' \in Seq(ToBeTold)
  BY <1>1, <1>5
<1>. QED  BY <1>3, <1>4, <1>5, <1>6

LEMMA GoToIs ==
    ASSUME TypeOK, NEW pc \in {"dropped", "prefilled", "decode"}, GoTo(pc)
    PROVE  /\ turn' \in TurnRecord /\ turn'.pc = pc /\ turn'.fate = turn.fate
           /\ turn'.sync = turn.sync /\ turn'.pending = turn.pending
           /\ turn'.roles = turn.roles /\ turn'.before = turn.before
           /\ told' = told
<1>1. turn \in TurnRecord
  BY DEF TypeOK
<1>2. turn' = [turn EXCEPT !.pc = pc] /\ told' = told
  BY DEF GoTo
<1>3. turn' \in TurnRecord
  BY <1>1, <1>2 DEF TurnRecord
<1>. QED  BY <1>1, <1>2, <1>3 DEF TurnRecord

\* How a step of the session leaves the turn.
TurnGoes(pc, fate) ==
    /\ turn' \in TurnRecord /\ turn'.pc = pc /\ turn'.fate = fate
    /\ turn'.sync = turn.sync /\ turn'.pending = turn.pending
    /\ turn'.roles = turn.roles /\ turn'.before = turn.before
    /\ told' \in Seq(ToBeTold)

TurnEnds(fate, ends) ==
    TurnGoes("idle", fate) /\ told' = told \o (IF turn.sync THEN <<>> ELSE ends)

TurnMoves(pc) == TurnGoes(pc, turn.fate) /\ told' = told

\* The end of a reply, behind what was refused of what was held back.
TurnAnswers(fate) ==
    /\ TurnGoes("idle", fate)
    /\ \E refused \in {<<>>, <<"refused">>} :
         told' = told \o (IF turn.sync THEN <<>> ELSE refused \o <<fate>>)

LEMMA RefusedIs ==
    ASSUME NEW t, NEW fate \in Fates
    PROVE  /\ Refused(t) \in {<<>>, <<"refused">>}
           /\ Refused(t) \o <<fate>> \in Seq(ToBeTold) /\ <<fate>> \in Seq(ToBeTold)
           /\ <<>> \o <<fate>> = <<fate>>
<1>1. Refused(t) \in {<<>>, <<"refused">>}
  BY Zenon DEF Refused
<1>2. fate \in ToBeTold /\ "refused" \in ToBeTold
  BY DEF ToBeTold
<1>3. \A x \in ToBeTold : <<x>> \in Seq(ToBeTold) /\ <<>> \o <<x>> = <<x>>
  OBVIOUS
<1>4. \A x, y \in ToBeTold : <<y>> \o <<x>> \in Seq(ToBeTold)
  OBVIOUS
<1>5. \A r \in {<<>>, <<"refused">>} : r \o <<fate>> \in Seq(ToBeTold)
  BY <1>2, <1>3, <1>4, Zenon
<1>. QED  BY <1>1, <1>2, <1>3, <1>5, Zenon

LEMMA AnswersIs ==
    ASSUME TypeOK, NEW t, NEW fate \in Fates, Ends(fate, Refused(t) \o <<fate>>)
    PROVE  TurnAnswers(fate)
<1>1. PICK e : e = Refused(t) \o <<fate>>
  OBVIOUS
<1>2. e \in Seq(ToBeTold) /\ Ends(fate, e)
  BY <1>1, RefusedIs
<1>3. TurnGoes("idle", fate) /\ told' = told \o (IF turn.sync THEN <<>> ELSE e)
  BY <1>2, EndsIs DEF TurnGoes
<1>4. Refused(t) \in {<<>>, <<"refused">>}
  BY RefusedIs
<1>. QED  BY <1>1, <1>3, <1>4, Zenon DEF TurnAnswers

\* Prefill: it ends as an error or cancelled, is dropped, or goes on; the
\* context has all of the inputs or nothing of them.
PrefillStep ==
    /\ turn.pc = "prefill"
    /\ faults' \in {faults, faults + 1}
    /\ UNCHANGED <<conf, checkpoint, supported, index, flag, stream, turns, cancels>>
    /\ \/ /\ context' = context \o turn.inputs /\ faults' = faults
          /\ history' = history
          /\ flag /\ ~turn.sync => conf.kind # "basic"
          /\ TurnMoves(IF flag /\ ~turn.sync THEN "dropped" ELSE "prefilled")
       \/ /\ context' = (IF faults' = faults THEN context \o turn.inputs ELSE context)
          /\ flag /\ ~turn.sync /\ conf.kind = "basic" /\ history' = Front(history)
          /\ TurnEnds("cancelled", <<"cancelled">>)
       \/ /\ context' = context /\ faults' = faults + 1 /\ history' = history
          /\ TurnEnds("error", <<"error">>)
       \/ /\ context' = context /\ faults' = faults /\ history' = history
          /\ flag /\ conf.kind = "advanced"
          /\ TurnMoves(IF turn.sync THEN "prefilled" ELSE "dropped")

LEMMA PrefillIs ==
    ASSUME TypeOK, Prefill
    PROVE  PrefillStep
<1>1. /\ turn.pc = "prefill"
      /\ UNCHANGED <<conf, checkpoint, supported, index, flag, stream, turns, cancels>>
  BY DEF Prefill
<1>2. PICK fault \in Faults({"prefill"}) :
         /\ Fails(fault)
         /\ \/ /\ context' = IF fault = "none" THEN context \o turn.inputs ELSE context
               /\ IF flag /\ ~turn.sync /\ conf.kind = "basic" THEN EndsCancelled
                  ELSE /\ UNCHANGED history
                       /\ IF fault # "none" THEN Ends("error", <<"error">>)
                          ELSE IF flag /\ ~turn.sync THEN GoTo("dropped")
                          ELSE GoTo("prefilled")
            \/ /\ flag /\ conf.kind = "advanced" /\ fault = "none"
               /\ GoTo(IF turn.sync THEN "prefilled" ELSE "dropped")
               /\ UNCHANGED <<context, history>>
  BY DEF Prefill
<1>3. faults \in Nat /\ faults' = (IF fault = "none" THEN faults ELSE faults + 1)
  BY <1>2 DEF Fails, TypeOK
<1>4. faults' = faults <=> fault = "none"
  BY <1>3
<1>5. /\ "error" \in Fates /\ <<"error">> \in Seq(ToBeTold)
      /\ "cancelled" \in Fates /\ <<"cancelled">> \in Seq(ToBeTold)
      /\ told \in Seq(ToBeTold)
  BY DEF Fates, ToBeTold, TypeOK
<1>6. CASE /\ context' = IF fault = "none" THEN context \o turn.inputs ELSE context
           /\ flag /\ ~turn.sync /\ conf.kind = "basic" /\ EndsCancelled
  <2>1. Ends("cancelled", <<"cancelled">>) /\ history' = Front(history)
    BY <1>6 DEF EndsCancelled, CancelCallback
  <2>2. TurnEnds("cancelled", <<"cancelled">>)
    BY <1>5, <2>1, EndsIs DEF TurnEnds, TurnGoes
  <2>3. context' = (IF faults' = faults THEN context \o turn.inputs ELSE context)
    BY <1>4, <1>6
  <2>. QED  BY <1>1, <1>3, <1>6, <2>1, <2>2, <2>3 DEF PrefillStep
<1>7. CASE /\ context' = IF fault = "none" THEN context \o turn.inputs ELSE context
           /\ ~(flag /\ ~turn.sync /\ conf.kind = "basic")
           /\ UNCHANGED history /\ fault # "none" /\ Ends("error", <<"error">>)
  <2>1. TurnEnds("error", <<"error">>)
    BY <1>5, <1>7, EndsIs DEF TurnEnds, TurnGoes
  <2>. QED  BY <1>1, <1>3, <1>7, <2>1 DEF PrefillStep
<1>8. CASE /\ context' = IF fault = "none" THEN context \o turn.inputs ELSE context
           /\ ~(flag /\ ~turn.sync /\ conf.kind = "basic")
           /\ UNCHANGED history /\ fault = "none"
           /\ GoTo(IF flag /\ ~turn.sync THEN "dropped" ELSE "prefilled")
  <2>1. TurnMoves(IF flag /\ ~turn.sync THEN "dropped" ELSE "prefilled")
    BY <1>5, <1>8, GoToIs DEF TurnMoves, TurnGoes
  <2>. QED  BY <1>1, <1>3, <1>8, <2>1 DEF PrefillStep
<1>9. CASE /\ flag /\ conf.kind = "advanced" /\ fault = "none"
           /\ GoTo(IF turn.sync THEN "prefilled" ELSE "dropped")
           /\ UNCHANGED <<context, history>>
  <2>1. TurnMoves(IF turn.sync THEN "prefilled" ELSE "dropped")
    BY <1>5, <1>9, GoToIs DEF TurnMoves, TurnGoes
  <2>. QED  BY <1>1, <1>3, <1>9, <2>1 DEF PrefillStep
<1>. QED  BY <1>2, <1>6, <1>7, <1>8, <1>9, Zenon

StartDecodeStep ==
    /\ turn.pc = "prefilled" /\ faults' \in {faults, faults + 1}
    /\ UNCHANGED <<conf, history, context, index, stream, turns, cancels>>
    /\ \/ /\ turn.pending /\ TurnEnds("done", <<>>) /\ faults' = faults
          /\ UNCHANGED <<checkpoint, supported, flag>>
       \/ /\ ~turn.pending /\ TurnMoves("decode") /\ SaveCheckpoint /\ faults' = faults
          /\ flag' \in BOOLEAN /\ (flag' => flag)
       \/ /\ ~turn.pending /\ TurnEnds("error", <<"error">>) /\ SaveCheckpoint
          /\ faults' = faults + 1 /\ flag' = flag

LEMMA StartDecodeIs ==
    ASSUME TypeOK, StartDecode
    PROVE  StartDecodeStep
<1>1. /\ turn.pc = "prefilled"
      /\ UNCHANGED <<conf, history, context, index, stream, turns, cancels>>
  BY DEF StartDecode
<1>2. /\ "done" \in Fates /\ <<>> \in Seq(ToBeTold) /\ told \in Seq(ToBeTold)
      /\ "error" \in Fates /\ <<"error">> \in Seq(ToBeTold) /\ flag \in BOOLEAN
  BY DEF Fates, ToBeTold, TypeOK
<1>3. PICK fault \in Faults(IF turn.pending THEN {} ELSE {"start"}) :
         /\ Fails(fault)
         /\ IF turn.pending THEN UNCHANGED <<checkpoint, supported>> ELSE SaveCheckpoint
         /\ \/ turn.pending /\ Ends("done", <<>>) /\ UNCHANGED <<flag, reply>>
            \/ /\ ~turn.pending /\ fault = "none" /\ GoTo("decode")
               /\ flag' = (flag /\ conf.kind = "advanced")
            \/ fault # "none" /\ Ends("error", <<"error">>) /\ UNCHANGED <<flag, reply>>
  BY DEF StartDecode
<1>4. turn.pending => fault = "none"
  BY DEF Faults
<1>5. faults' = IF fault = "none" THEN faults ELSE faults + 1
  BY <1>3 DEF Fails
<1>6. CASE turn.pending
  <2>1. Ends("done", <<>>) /\ UNCHANGED <<checkpoint, supported, flag>>
    BY <1>3, <1>4, <1>6
  <2>2. TurnEnds("done", <<>>)
    BY <1>2, <2>1, EndsIs DEF TurnEnds, TurnGoes
  <2>. QED  BY <1>1, <1>4, <1>5, <1>6, <2>1, <2>2 DEF StartDecodeStep
<1>7. CASE ~turn.pending /\ fault = "none"
  <2>1. SaveCheckpoint /\ GoTo("decode") /\ flag' = (flag /\ conf.kind = "advanced")
    BY <1>3, <1>7
  <2>2. TurnMoves("decode")
    BY <1>2, <2>1, GoToIs DEF TurnMoves, TurnGoes
  <2>3. flag' \in BOOLEAN /\ (flag' => flag)
    BY <2>1
  <2>. QED  BY <1>1, <1>5, <1>7, <2>1, <2>2, <2>3 DEF StartDecodeStep
<1>8. CASE ~turn.pending /\ fault # "none"
  <2>1. SaveCheckpoint /\ Ends("error", <<"error">>) /\ flag' = flag
    BY <1>3, <1>8
  <2>2. TurnEnds("error", <<"error">>)
    BY <1>2, <2>1, EndsIs DEF TurnEnds, TurnGoes
  <2>. QED  BY <1>1, <1>5, <1>8, <2>1, <2>2 DEF StartDecodeStep
<1>. QED  BY <1>6, <1>7, <1>8

\* The end of a decode: the session keeps what was decoded, the history gets
\* the answer or nothing.
DecodeStep(m) ==
    /\ turn.pc = "decode"
    /\ UNCHANGED <<conf, checkpoint, supported, flag, turns, cancels>>
    /\ m \in Messages /\ m.at = <<turns, 0>> /\ context' = Append(context, m)
    /\ \/ /\ history' = Append(history, Answer) /\ MarkChannels /\ faults' = faults
          /\ m = Spoken /\ TurnAnswers("done")
       \/ /\ history' = history /\ index' = index /\ faults' = faults + 1
          /\ TurnAnswers("error")
       \/ /\ history' = (IF turn.sync THEN history ELSE Front(history))
          /\ index' = index /\ faults' = faults /\ flag /\ conf.kind = "basic"
          /\ m.role = "partial" /\ TurnEnds("cancelled", <<"cancelled">>)
       \/ /\ history' = Append(history, Answer) /\ MarkChannels /\ faults' = faults
          /\ flag /\ conf.kind # "basic" /\ turn.sync /\ TurnEnds("cancelled", <<>>)
       \/ /\ history' = history /\ index' = index /\ faults' = faults
          /\ flag /\ conf.kind # "basic" /\ TurnMoves("dropped")

LEMMA DecodeDoneIs ==
    ASSUME TypeOK, DecodeDone
    PROVE  \E m : DecodeStep(m)
<1>. DEFINE m == Spoken
<1>1. /\ turn.pc = "decode"
      /\ UNCHANGED <<conf, checkpoint, supported, flag, turns, cancels>>
      /\ context' = Append(context, m)
  BY DEF DecodeDone
<1>2. m \in Messages /\ m.at = <<turns, 0>>
  BY AnswerIs DEF TypeOK
<1>3. "error" \in Fates /\ "done" \in Fates
  BY DEF Fates
<1>4. PICK fault \in (IF ToMessageFails(Complete.text) THEN {"message"}
                     ELSE Faults({"message"})) :
         /\ Fails(fault)
         /\ IF fault = "none"
            THEN /\ history' = Append(history, Answer) /\ MarkChannels
                 /\ Ends("done", Refused(stream') \o <<"done">>)
            ELSE Ends("error", Refused(stream') \o <<"error">>) /\ UNCHANGED <<history, index>>
  BY DEF DecodeDone
<1>5. faults' = IF fault = "none" THEN faults ELSE faults + 1
  BY <1>4 DEF Fails
<1>6. CASE fault = "none"
  <2>1. TurnAnswers("done")
    BY <1>3, <1>4, <1>6, AnswersIs
  <2>2. history' = Append(history, Answer) /\ MarkChannels /\ faults' = faults /\ m = Spoken
    BY <1>4, <1>5, <1>6
  <2>. HIDE DEF m
  <2>3. DecodeStep(m)
    BY <1>1, <1>2, <2>1, <2>2, Zenon DEF DecodeStep
  <2>. QED  BY <2>3, Zenon
<1>7. CASE fault # "none"
  <2>1. TurnAnswers("error")
    BY <1>3, <1>4, <1>7, AnswersIs
  <2>2. history' = history /\ index' = index /\ faults' = faults + 1
    BY <1>4, <1>5, <1>7
  <2>. HIDE DEF m
  <2>3. DecodeStep(m)
    BY <1>1, <1>2, <2>1, <2>2, Zenon DEF DecodeStep
  <2>. QED  BY <2>3, Zenon
<1>. QED  BY <1>6, <1>7, Zenon

LEMMA DecodeFailsIs ==
    ASSUME TypeOK, DecodeFails
    PROVE  \E m : DecodeStep(m)
<1>. DEFINE m == [Spoken EXCEPT !.role = "partial"]
<1>1. /\ turn.pc = "decode"
      /\ UNCHANGED <<conf, checkpoint, supported, flag, turns, cancels>>
      /\ context' = Append(context, m)
      /\ history' = history /\ index' = index /\ faults' = faults + 1
      /\ Ends("error", <<"error">>)
  BY DEF DecodeFails, kept
<1>2. m \in Messages /\ m.at = <<turns, 0>>
  BY PartialIs DEF TypeOK
<1>3. "error" \in Fates /\ <<"error">> \in Seq(ToBeTold) /\ told \in Seq(ToBeTold)
  BY DEF Fates, ToBeTold, TypeOK
<1>4. TurnAnswers("error")
  <2>1. TurnGoes("idle", "error") /\ told' = told \o (IF turn.sync THEN <<>> ELSE <<"error">>)
    BY <1>1, <1>3, EndsIs DEF TurnGoes
  <2>2. <<>> \o <<"error">> = <<"error">>
    OBVIOUS
  <2>. QED  BY <2>1, <2>2, Zenon DEF TurnAnswers
<1>. HIDE DEF m
<1>5. DecodeStep(m)
  BY <1>1, <1>2, <1>4, Zenon DEF DecodeStep
<1>. QED  BY <1>5, Zenon

LEMMA DecodeCancelledIs ==
    ASSUME TypeOK, DecodeCancelled
    PROVE  \E m : DecodeStep(m)
<1>. DEFINE m == [Spoken EXCEPT !.role = "partial"]
<1>1. /\ turn.pc = "decode" /\ flag
      /\ UNCHANGED <<conf, checkpoint, supported, flag, turns, cancels>>
      /\ context' = Append(context, m)
  BY DEF DecodeCancelled
<1>2. m \in Messages /\ m.at = <<turns, 0>> /\ m.role = "partial"
  BY PartialIs DEF TypeOK
<1>3. /\ "error" \in Fates /\ "cancelled" \in Fates /\ <<"cancelled">> \in Seq(ToBeTold)
      /\ <<>> \in Seq(ToBeTold) /\ told \in Seq(ToBeTold)
  BY DEF Fates, ToBeTold, TypeOK
<1>4. CASE conf.kind = "basic"
  <2>1. /\ index' = index /\ faults' = faults /\ Ends("cancelled", <<"cancelled">>)
        /\ history' = (IF turn.sync THEN history ELSE Front(history))
    BY <1>4 DEF DecodeCancelled, EndsCancelled, CancelCallback
  <2>2. TurnEnds("cancelled", <<"cancelled">>)
    BY <1>3, <2>1, EndsIs DEF TurnEnds, TurnGoes
  <2>. HIDE DEF m
  <2>3. DecodeStep(m)
    BY <1>1, <1>2, <1>4, <2>1, <2>2, Zenon DEF DecodeStep
  <2>. QED  BY <2>3, Zenon
<1>5. CASE conf.kind # "basic" /\ turn.sync /\ ~ToMessageFails(Complete.text)
  <2>1. /\ history' = Append(history, Answer) /\ MarkChannels /\ Ends("cancelled", <<>>)
        /\ faults' = faults
    BY <1>5 DEF DecodeCancelled
  <2>2. TurnEnds("cancelled", <<>>)
    BY <1>3, <2>1, EndsIs DEF TurnEnds, TurnGoes
  <2>. HIDE DEF m
  <2>3. DecodeStep(m)
    BY <1>1, <1>2, <1>5, <2>1, <2>2, Zenon DEF DecodeStep
  <2>. QED  BY <2>3, Zenon
<1>6. CASE conf.kind # "basic" /\ ~turn.sync
  <2>1. GoTo("dropped") /\ history' = history /\ index' = index /\ faults' = faults
    BY <1>6 DEF DecodeCancelled
  <2>2. TurnMoves("dropped")
    BY <1>3, <2>1, GoToIs DEF TurnMoves, TurnGoes
  <2>. HIDE DEF m
  <2>3. DecodeStep(m)
    BY <1>1, <1>2, <1>6, <2>1, <2>2, Zenon DEF DecodeStep
  <2>. QED  BY <2>3, Zenon
<1>7. CASE conf.kind # "basic" /\ turn.sync /\ ToMessageFails(Complete.text)
  <2>1. /\ history' = history /\ index' = index /\ Ends("error", <<>>)
        /\ faults' = faults + 1
    BY <1>7 DEF DecodeCancelled, Fails
  <2>2. TurnGoes("idle", "error") /\ told' = told \o (IF turn.sync THEN <<>> ELSE <<>> \o <<"error">>)
    BY <1>3, <1>7, <2>1, EndsIs DEF TurnGoes
  <2>3. TurnAnswers("error")
    BY <2>2, Zenon DEF TurnAnswers
  <2>. HIDE DEF m
  <2>4. DecodeStep(m)
    BY <1>1, <1>2, <2>1, <2>3, Zenon DEF DecodeStep
  <2>. QED  BY <2>4, Zenon
<1>. QED  BY <1>4, <1>5, <1>6, <1>7, Zenon

DroppedStep ==
    /\ turn.pc = "dropped" /\ TurnEnds("cancelled", <<>>)
    /\ UNCHANGED <<conf, history, checkpoint, supported, index, context, flag, turns, cancels, faults>>

LEMMA DroppedIs ==
    ASSUME TypeOK, Dropped
    PROVE  DroppedStep
<1>1. "cancelled" \in Fates /\ <<>> \in Seq(ToBeTold) /\ told \in Seq(ToBeTold)
  BY DEF Fates, ToBeTold, TypeOK
<1>2. Ends("cancelled", <<>>)
  BY DEF Dropped
<1>3. TurnEnds("cancelled", <<>>)
  BY <1>1, <1>2, EndsIs DEF TurnEnds, TurnGoes
<1>4. /\ turn.pc = "dropped"
      /\ UNCHANGED <<conf, history, checkpoint, supported, index, context, flag, turns, cancels, faults>>
  BY DEF Dropped, kept, counters
<1>. QED  BY <1>3, <1>4 DEF DroppedStep

\* Steps that leave the messages and the turn alone; a piece of a reply may be
\* refused.
QuietStep ==
    /\ UNCHANGED <<conf, history, context, turn, turns, faults>>
    /\ told' = told \/ (turn.pc = "decode" /\ told' = Append(told, "refused"))
    /\ cancels' \in {cancels, cancels + 1} /\ flag' \in BOOLEAN
    /\ (cancels' = cancels /\ flag' => flag)
    /\ \/ UNCHANGED <<checkpoint, supported, index>>
       \/ /\ Idle /\ conf.kind = "advanced"
          /\ checkpoint' = -1 /\ supported' = TRUE /\ index' = 0

LEMMA QuietSteps ==
    ASSUME TypeOK, CancelProcess \/ Decode \/ Clone \/ UNCHANGED vars
    PROVE  QuietStep
<1>1. flag \in BOOLEAN /\ cancels \in Nat /\ told \in Seq(ToBeTold)
  BY DEF TypeOK
<1>2. ASSUME CancelProcess  PROVE QuietStep
  <2>1. /\ UNCHANGED <<conf, history, context, turn, told, turns, faults, checkpoint, supported, index>>
        /\ cancels' = cancels + 1
        /\ flag' = (flag \/ conf.kind = "basic" \/ turn.pc \in {"prefill", "decode"})
    BY <1>2 DEF CancelProcess, kept
  <2>. QED  BY <1>1, <2>1 DEF QuietStep
<1>3. ASSUME Decode  PROVE QuietStep
  <2>1. /\ turn.pc = "decode" /\ told' = told \o Refused(stream')
        /\ UNCHANGED <<conf, history, context, turn, turns, faults, cancels, flag,
                       checkpoint, supported, index>>
    BY <1>3 DEF Decode, kept, counters
  <2>2. Refused(stream') \in {<<>>, <<"refused">>}
    BY Zenon DEF Refused
  <2>3. told \o <<>> = told /\ told \o <<"refused">> = Append(told, "refused")
    <3>1. "refused" \in ToBeTold
      BY DEF ToBeTold
    <3>. QED  BY <1>1, <3>1
  <2>4. told' = told \/ told' = Append(told, "refused")
    BY <2>1, <2>2, <2>3, Zenon
  <2>. QED  BY <1>1, <2>1, <2>4 DEF QuietStep
<1>4. ASSUME Clone  PROVE QuietStep
  BY <1>1, <1>4 DEF Clone, kept, counters, QuietStep
<1>5. ASSUME UNCHANGED vars  PROVE QuietStep
  BY <1>1, <1>5 DEF vars, QuietStep
<1>. QED  BY <1>2, <1>3, <1>4, <1>5

\* Every step is one of these.
LEMMA Steps ==
    ASSUME TypeOK, [Next]_vars
    PROVE  \/ \E roles \in Batches, sync, pending \in BOOLEAN : \E stage, rewinds, inputs :
                SendStep(roles, sync, pending, stage, rewinds, inputs)
           \/ PrefillStep \/ StartDecodeStep \/ DroppedStep \/ QuietStep
           \/ \E m : DecodeStep(m)
<1>1. ASSUME NEW roles \in Batches, NEW sync \in BOOLEAN, NEW pending \in BOOLEAN,
             Send(roles, sync, pending)
      PROVE  \E stage, rewinds, inputs : SendStep(roles, sync, pending, stage, rewinds, inputs)
  BY <1>1, SendIs
<1>2. ASSUME Session
      PROVE  \/ PrefillStep \/ StartDecodeStep \/ DroppedStep \/ QuietStep
             \/ \E m : DecodeStep(m)
  BY <1>2, PrefillIs, StartDecodeIs, DroppedIs, QuietSteps, DecodeDoneIs, DecodeFailsIs,
     DecodeCancelledIs, Zenon DEF Session
<1>3. ASSUME CancelProcess \/ Clone \/ UNCHANGED vars  PROVE QuietStep
  BY <1>3, QuietSteps, Zenon
<1>. QED  BY <1>1, <1>2, <1>3, ZenonT(30) DEF Next

LEMMA SaveCheckpointTyped ==
    ASSUME TypeOK, SaveCheckpoint
    PROVE  checkpoint' \in Nat \cup {-1} /\ supported' \in BOOLEAN
<1>1. checkpoint \in Nat \cup {-1} /\ supported \in BOOLEAN /\ Len(context) \in Nat
  BY DEF TypeOK
<1>. QED  BY <1>1 DEF SaveCheckpoint

LEMMA MarkChannelsTyped ==
    ASSUME TypeOK, MarkChannels
    PROVE  index' \in Nat /\ (index' = index \/ index' = Len(history) + 1)
<1>1. index \in Nat /\ Len(history) \in Nat
  BY DEF TypeOK
<1>. QED  BY <1>1 DEF MarkChannels

LEMMA TypeStep ==
    ASSUME TypeOK, CheckpointInv, [Next]_vars
    PROVE  TypeOK'
<1>1. ASSUME NEW roles \in Batches, NEW sync \in BOOLEAN, NEW pending \in BOOLEAN,
             NEW stage, NEW rewinds, NEW inputs,
             SendStep(roles, sync, pending, stage, rewinds, inputs)
      PROVE  TypeOK'
  BY <1>1, SendTyped
<1>2. ASSUME PrefillStep  PROVE TypeOK'
  <2>1. /\ conf' = conf /\ checkpoint' = checkpoint /\ supported' = supported /\ index' = index
        /\ flag' = flag /\ turns' = turns /\ cancels' = cancels
        /\ faults' \in {faults, faults + 1}
        /\ turn' \in TurnRecord /\ told' \in Seq(ToBeTold)
    <3>1. told \in Seq(ToBeTold)
      BY DEF TypeOK
    <3>. QED  BY <1>2, <3>1 DEF PrefillStep, TurnMoves, TurnEnds, TurnGoes
  <2>2. context' \in {context, context \o turn.inputs} /\ history' \in {history, Front(history)}
    BY <1>2 DEF PrefillStep
  <2>3. /\ context \in Seq(Messages) /\ context \o turn.inputs \in Seq(Messages)
        /\ history \in Seq(Messages) /\ Front(history) \in Seq(Messages)
    BY FrontIs DEF TypeOK, TurnRecord
  <2>4. faults' \in Nat
    BY <2>1 DEF TypeOK
  <2>. QED  BY <2>1, <2>2, <2>3, <2>4 DEF TypeOK
<1>3. ASSUME StartDecodeStep  PROVE TypeOK'
  <2>1. /\ UNCHANGED <<conf, history, context, index, turns, cancels>>
        /\ turn' \in TurnRecord /\ told' \in Seq(ToBeTold)
    <3>1. told \in Seq(ToBeTold)
      BY DEF TypeOK
    <3>. QED  BY <1>3, <3>1 DEF StartDecodeStep, TurnMoves, TurnEnds, TurnGoes
  <2>4. faults' \in Nat
    BY <1>3 DEF StartDecodeStep, TypeOK
  <2>2. checkpoint' \in Nat \cup {-1} /\ supported' \in BOOLEAN
    BY <1>3, SaveCheckpointTyped DEF StartDecodeStep, TypeOK
  <2>3. flag' \in BOOLEAN
    BY <1>3 DEF StartDecodeStep, TypeOK
  <2>. QED  BY <2>1, <2>2, <2>3, <2>4 DEF TypeOK
<1>4. ASSUME DroppedStep  PROVE TypeOK'
  BY <1>4 DEF DroppedStep, TurnEnds, TurnGoes, TypeOK
<1>5. ASSUME QuietStep  PROVE TypeOK'
  <2>1. UNCHANGED <<conf, history, context, turn, turns, faults>>
    BY <1>5 DEF QuietStep
  <2>4. told' \in Seq(ToBeTold)
    <3>1. told \in Seq(ToBeTold) /\ "refused" \in ToBeTold
      BY DEF ToBeTold, TypeOK
    <3>. QED  BY <1>5, <3>1 DEF QuietStep
  <2>2. flag' \in BOOLEAN /\ cancels' \in Nat
    BY <1>5 DEF QuietStep, TypeOK
  <2>3. checkpoint' \in Nat \cup {-1} /\ supported' \in BOOLEAN /\ index' \in Nat
    <3>1. CASE UNCHANGED <<checkpoint, supported, index>>
      BY <3>1 DEF TypeOK
    <3>2. CASE checkpoint' = -1 /\ supported' = TRUE /\ index' = 0
      <4>1. supported' \in BOOLEAN
        BY <3>2, Zenon
      <4>2. checkpoint' \in Nat \cup {-1} /\ index' \in Nat
        BY <3>2
      <4>. QED  BY <4>1, <4>2
    <3>. QED  BY <1>5, <3>1, <3>2 DEF QuietStep
  <2>. QED  BY <2>1, <2>2, <2>3, <2>4 DEF TypeOK
<1>6. ASSUME NEW m, DecodeStep(m)  PROVE TypeOK'
  <2>1. /\ UNCHANGED <<conf, checkpoint, supported, flag, turns, cancels>>
        /\ turn' \in TurnRecord /\ told' \in Seq(ToBeTold)
    BY <1>6 DEF DecodeStep, TurnMoves, TurnEnds, TurnAnswers, TurnGoes
  <2>2. context' \in Seq(Messages)
    BY <1>6 DEF DecodeStep, TypeOK
  <2>3. history' \in {history, Front(history), Append(history, Answer)}
    BY <1>6 DEF DecodeStep
  <2>4. /\ history \in Seq(Messages) /\ Front(history) \in Seq(Messages)
        /\ Append(history, Answer) \in Seq(Messages)
    BY FrontIs, AnswerIs DEF TypeOK
  <2>5. index' \in Nat
    BY <1>6, MarkChannelsTyped DEF DecodeStep, TypeOK
  <2>6. faults' \in Nat
    BY <1>6 DEF DecodeStep, TypeOK
  <2>. QED  BY <2>1, <2>2, <2>3, <2>4, <2>5, <2>6 DEF TypeOK
<1>. QED  BY <1>1, <1>2, <1>3, <1>4, <1>5, <1>6, Steps, Zenon

(***************************************************************************)
(* The checkpoint.                                                          *)
(***************************************************************************)
LEMMA CheckpointStep ==
    ASSUME TypeOK, CheckpointInv, [Next]_vars
    PROVE  CheckpointInv'
<1>1. ASSUME NEW roles \in Batches, NEW sync \in BOOLEAN, NEW pending \in BOOLEAN,
             NEW stage, NEW rewinds, NEW inputs,
             SendStep(roles, sync, pending, stage, rewinds, inputs)
      PROVE  CheckpointInv'
  <2>1. turn'.pc # "decode"
    BY <1>1 DEF SendStep, NoTurn
  <2>2. checkpoint' = checkpoint /\ (index' > 0 => index' = index)
    BY <1>1 DEF SendStep
  <2>3. index > 0 => checkpoint \in 0..Len(context) /\ context \in Seq(Messages)
    BY DEF CheckpointInv, TypeOK
  <2>4. CASE rewinds
    <3>1. context' = SubSeq(context, 1, checkpoint) /\ checkpoint \in 0..Len(context)
      BY <1>1, <2>3, <2>4 DEF SendStep
    <3>2. Len(context') = checkpoint
      BY <3>1, <1>1, <2>3, <2>4 DEF SendStep
    <3>. QED  BY <2>1, <2>2, <3>1, <3>2 DEF CheckpointInv
  <2>5. CASE ~rewinds
    BY <1>1, <2>1, <2>2, <2>3, <2>5 DEF SendStep, CheckpointInv
  <2>. QED  BY <1>1, <2>4, <2>5 DEF SendStep
<1>2. ASSUME PrefillStep  PROVE CheckpointInv'
  <2>1. turn'.pc # "decode" /\ checkpoint' = checkpoint /\ index' = index
    BY <1>2 DEF PrefillStep, TurnMoves, TurnEnds, TurnGoes
  <2>2. Len(context) <= Len(context') /\ Len(context) \in Nat /\ Len(context') \in Nat
    <3>1. context' \in {context, context \o turn.inputs}
      BY <1>2 DEF PrefillStep
    <3>. QED  BY <3>1 DEF TypeOK, TurnRecord
  <2>. QED  BY <2>1, <2>2 DEF CheckpointInv, TypeOK
<1>3. ASSUME StartDecodeStep  PROVE CheckpointInv'
  <2>1. index' = index /\ context' = context /\ conf' = conf /\ Len(context) \in Nat
    BY <1>3 DEF StartDecodeStep, TypeOK
  <2>2. CASE turn.pending
    BY <1>3, <2>1, <2>2 DEF StartDecodeStep, TurnEnds, TurnGoes, CheckpointInv
  <2>3. CASE ~turn.pending
    <3>1. SaveCheckpoint
      BY <1>3, <2>3 DEF StartDecodeStep
    <3>2. index > 0 => checkpoint' = checkpoint
      BY <3>1 DEF SaveCheckpoint
    <3>3. conf.filter /\ supported' /\ index = 0 => checkpoint' = Len(context)
      BY <3>1 DEF SaveCheckpoint
    <3>. QED  BY <2>1, <3>2, <3>3 DEF CheckpointInv
  <2>. QED  BY <2>2, <2>3
<1>4. ASSUME DroppedStep  PROVE CheckpointInv'
  BY <1>4 DEF DroppedStep, TurnEnds, TurnGoes, CheckpointInv
<1>5. ASSUME QuietStep  PROVE CheckpointInv'
  BY <1>5 DEF QuietStep, CheckpointInv, Idle
<1>6. ASSUME NEW m, DecodeStep(m)  PROVE CheckpointInv'
  <2>1. turn'.pc # "decode" /\ checkpoint' = checkpoint
    BY <1>6 DEF DecodeStep, TurnMoves, TurnEnds, TurnAnswers, TurnGoes
  <2>2. Len(context') = Len(context) + 1 /\ Len(context) \in Nat
    BY <1>6 DEF DecodeStep, TypeOK
  <2>3. \/ index' = index
        \/ conf.filter /\ supported /\ index = 0
    BY <1>6 DEF DecodeStep, MarkChannels
  <2>4. turn.pc = "decode"
    BY <1>6 DEF DecodeStep
  <2>. QED  BY <2>1, <2>2, <2>3, <2>4 DEF CheckpointInv, TypeOK
<1>. QED  BY <1>1, <1>2, <1>3, <1>4, <1>5, <1>6, Steps, Zenon

(***************************************************************************)
(* The turn and what it has put into the history.                           *)
(***************************************************************************)
LEMMA InitHolds ==
    ASSUME Init
    PROVE  TypeOK /\ CheckpointInv /\ TurnInv /\ PushedInv
<1>1. /\ conf \in [kind : Kinds, filter : Filters, onInit : BOOLEAN]
      /\ history = <<>> /\ context = (IF conf.onInit THEN <<Preface>> ELSE <<>>)
      /\ checkpoint = -1 /\ supported = TRUE /\ index = 0 /\ flag = FALSE
      /\ turn = NoTurn /\ told = <<>> /\ turns = 0 /\ cancels = 0 /\ faults = 0
  BY DEF Init
<1>2. context \in Seq(Messages) /\ history \in Seq(Messages) /\ told \in Seq(ToBeTold)
  BY <1>1, PrefaceIs
<1>3. turn \in TurnRecord
  <2>1. <<>> \in Seq(Messages) /\ <<>> \in Seq(Roles)
    OBVIOUS
  <2>. QED  BY <1>1, <2>1 DEF NoTurn, TurnRecord
<1>4. supported \in BOOLEAN /\ flag \in BOOLEAN
  BY <1>1, Zenon
<1>5. TypeOK
  BY <1>1, <1>2, <1>3, <1>4 DEF TypeOK
<1>6. turn.pc = "idle" /\ Idle
  BY <1>1 DEF NoTurn, Idle
<1>7. CheckpointInv /\ TurnInv /\ PushedInv
  BY <1>1, <1>6 DEF CheckpointInv, TurnInv, PushedInv, Idle
<1>. QED  BY <1>5, <1>7

\* One more piece is refused.
LEMMA RefusedOnceMore ==
    ASSUME NEW calls \in Seq(ToBeTold), OnlyRefused(calls)
    PROVE  OnlyRefused(Append(calls, "refused"))
<1>1. \A i \in 1..Len(calls) : calls[i] = "refused"
  BY DEF OnlyRefused
<1>2. PICK t : t = Append(calls, "refused")
  OBVIOUS
<1>3. /\ DOMAIN t = 1..(Len(calls) + 1) /\ t[Len(calls) + 1] = "refused"
      /\ \A i \in 1..Len(calls) : t[i] = calls[i]
  BY <1>2
<1>4. \A i \in 1..(Len(calls) + 1) : t[i] = "refused"
  BY <1>1, <1>3
<1>. QED  BY <1>2, <1>3, <1>4 DEF OnlyRefused

\* The last call says what became of the turn.
SaysLast(calls, fate) ==
    calls # <<>> /\ Last(calls) = fate /\ OnlyRefused(Front(calls))

LEMMA LastIsSaid ==
    ASSUME NEW calls \in Seq(ToBeTold), OnlyRefused(calls), NEW fate \in Fates,
           NEW refused \in {<<>>, <<"refused">>}
    PROVE  SaysLast(calls \o (refused \o <<fate>>), fate)
<1>1. fate \in ToBeTold /\ "refused" \in ToBeTold
  BY DEF ToBeTold
<1>2. PICK s \in Seq(ToBeTold) : s = calls \o refused /\ OnlyRefused(s)
  <2>1. CASE refused = <<>>
    BY <2>1
  <2>2. CASE refused = <<"refused">>
    <3>1. calls \o refused = Append(calls, "refused") /\ Append(calls, "refused") \in Seq(ToBeTold)
      BY <1>1, <2>2
    <3>. QED  BY <3>1, RefusedOnceMore
  <2>. QED  BY <2>1, <2>2
<1>3. PICK t \in Seq(ToBeTold) : t = Append(s, fate)
  <2>1. Append(s, fate) \in Seq(ToBeTold)
    BY <1>1
  <2>. QED  BY <2>1, Zenon
<1>4. calls \o (refused \o <<fate>>) = t
  <2>1. CASE refused = <<>>
    BY <1>1, <1>2, <1>3, <2>1
  <2>2. CASE refused = <<"refused">>
    BY <1>1, <1>2, <1>3, <2>2
  <2>. QED  BY <2>1, <2>2
<1>5. /\ Len(t) = Len(s) + 1 /\ Len(s) \in Nat /\ t[Len(t)] = fate
      /\ \A i \in 1..Len(s) : t[i] = s[i]
  BY <1>3
<1>6. t # <<>> /\ Last(t) = fate
  BY <1>5 DEF Last
<1>7. Front(t) = SubSeq(t, 1, Len(s))
  BY <1>5 DEF Front
<1>8. /\ DOMAIN Front(t) = 1..Len(s)
      /\ \A i \in 1..Len(s) : Front(t)[i] = s[i]
  BY <1>5, <1>7
<1>9. OnlyRefused(Front(t))
  BY <1>2, <1>8 DEF OnlyRefused
<1>. QED  BY <1>4, <1>6, <1>9 DEF SaysLast

LEMMA TurnStep ==
    ASSUME TypeOK, TurnInv, [Next]_vars
    PROVE  TurnInv'
<1>0. turn \in TurnRecord /\ OnlyRefused(<<>>)
  BY DEF TypeOK, OnlyRefused
<1>1. ASSUME NEW roles \in Batches, NEW sync \in BOOLEAN, NEW pending \in BOOLEAN,
             NEW stage, NEW rewinds, NEW inputs,
             SendStep(roles, sync, pending, stage, rewinds, inputs)
      PROVE  TurnInv'
  <2>1. told' = <<>> /\ turn'.fate = "none" /\ turn'.pc \in {"idle", "prefill"}
    BY <1>1 DEF SendStep, NoTurn
  <2>. QED  BY <1>0, <2>1 DEF TurnInv, Idle
<1>2. ASSUME PrefillStep  PROVE TurnInv'
  <2>1. told = <<>> /\ turn.fate = "none" /\ conf' = conf
    BY <1>2 DEF PrefillStep, TurnInv, Idle
  <2>. QED  BY <1>0, <1>2, <2>1 DEF PrefillStep, TurnMoves, TurnEnds, TurnGoes, TurnInv, Idle
<1>3. ASSUME StartDecodeStep  PROVE TurnInv'
  <2>1. told = <<>> /\ turn.fate = "none" /\ conf' = conf
    BY <1>3 DEF StartDecodeStep, TurnInv, Idle
  <2>. QED  BY <1>0, <1>3, <2>1 DEF StartDecodeStep, TurnMoves, TurnEnds, TurnGoes, TurnInv, Idle
<1>4. ASSUME DroppedStep  PROVE TurnInv'
  BY <1>4 DEF DroppedStep, TurnEnds, TurnGoes, TurnInv, Idle
<1>5. ASSUME QuietStep  PROVE TurnInv'
  <2>1. turn' = turn /\ conf' = conf
    BY <1>5 DEF QuietStep
  <2>2. CASE told' = told
    BY <2>1, <2>2 DEF TurnInv, Idle
  <2>3. CASE turn.pc = "decode" /\ told' = Append(told, "refused")
    <3>1. OnlyRefused(told) /\ turn.fate = "none"
      BY <2>3 DEF TurnInv, Idle
    <3>2. OnlyRefused(told')
      BY <2>3, <3>1, RefusedOnceMore DEF TypeOK
    <3>. QED  BY <2>1, <2>3, <3>1, <3>2 DEF TurnInv, Idle
  <2>. QED  BY <1>5, <2>2, <2>3 DEF QuietStep
<1>6. ASSUME NEW m, DecodeStep(m)  PROVE TurnInv'
  <2>1. OnlyRefused(told) /\ turn.fate = "none" /\ conf' = conf /\ ~turn.pending
    BY <1>6 DEF DecodeStep, TurnInv, Idle
  <2>2. CASE turn'.pc = "idle"
    BY <2>2 DEF TurnInv, Idle
  <2>3. CASE TurnMoves("dropped") /\ conf.kind # "basic"
    BY <2>1, <2>3 DEF TurnMoves, TurnGoes, TurnInv, Idle
  <2>. QED  BY <1>6, <2>2, <2>3 DEF DecodeStep, TurnEnds, TurnAnswers, TurnGoes
<1>. QED  BY <1>1, <1>2, <1>3, <1>4, <1>5, <1>6, Steps, Zenon

LEMMA EndIsToldStep ==
    ASSUME TypeOK, TurnInv, EndIsTold, [Next]_vars
    PROVE  EndIsTold'
<1>0. told \in Seq(ToBeTold) /\ "error" \in Fates /\ "cancelled" \in Fates /\ "done" \in Fates
  BY DEF TypeOK, Fates
<1>1. ASSUME NEW roles \in Batches, NEW sync \in BOOLEAN, NEW pending \in BOOLEAN,
             NEW stage, NEW rewinds, NEW inputs,
             SendStep(roles, sync, pending, stage, rewinds, inputs)
      PROVE  EndIsTold'
  <2>1. turn'.fate = "none"
    BY <1>1 DEF SendStep, NoTurn
  <2>. QED  BY <2>1 DEF EndIsTold
\* What all the ends have in common: they are told behind what was refused.
<1>2. ASSUME OnlyRefused(told), NEW fate \in Fates, NEW refused \in {<<>>, <<"refused">>},
             turn'.fate = fate, turn'.sync = turn.sync,
             told' = told \o (IF turn.sync THEN <<>> ELSE refused \o <<fate>>),
             ~turn'.pending \/ fate # "done"
      PROVE  EndIsTold'
  <2>1. CASE turn'.sync
    BY <2>1 DEF EndIsTold
  <2>2. CASE ~turn'.sync
    <3>1. told' = told \o (refused \o <<fate>>)
      BY <1>2, <2>2
    <3>2. SaysLast(told', fate)
      BY <1>0, <1>2, <3>1, LastIsSaid
    <3>. QED  BY <1>2, <3>2 DEF EndIsTold, SaysLast
  <2>. QED  BY <2>1, <2>2
<1>3. \A fate \in Fates : <<>> \o <<fate>> = <<fate>>
  OBVIOUS
<1>4. ASSUME NEW fate \in Fates, OnlyRefused(told), TurnEnds(fate, <<fate>>),
             ~turn.pending \/ fate # "done"
      PROVE  EndIsTold'
  <2>1. /\ turn'.fate = fate /\ turn'.sync = turn.sync /\ turn'.pending = turn.pending
        /\ told' = told \o (IF turn.sync THEN <<>> ELSE <<>> \o <<fate>>)
    BY <1>3, <1>4 DEF TurnEnds, TurnGoes
  <2>. QED  BY <1>2, <1>4, <2>1
<1>5. ASSUME NEW fate \in Fates, OnlyRefused(told), TurnAnswers(fate), ~turn.pending
      PROVE  EndIsTold'
  <2>1. PICK refused \in {<<>>, <<"refused">>} :
           told' = told \o (IF turn.sync THEN <<>> ELSE refused \o <<fate>>)
    BY <1>5 DEF TurnAnswers
  <2>2. turn'.fate = fate /\ turn'.sync = turn.sync /\ turn'.pending = turn.pending
    BY <1>5 DEF TurnAnswers, TurnGoes
  <2>. QED  BY <1>2, <1>5, <2>1, <2>2
<1>6. ASSUME NEW pc, TurnMoves(pc), pc # "idle"  PROVE EndIsTold'
  BY <1>6 DEF TurnMoves, TurnGoes, EndIsTold, Idle
<1>7. ASSUME PrefillStep  PROVE EndIsTold'
  <2>1. OnlyRefused(told)
    BY <1>7 DEF PrefillStep, TurnInv, Idle
  <2>. QED  BY <1>0, <1>4, <1>6, <1>7, <2>1 DEF PrefillStep
<1>8. ASSUME StartDecodeStep  PROVE EndIsTold'
  <2>1. OnlyRefused(told) /\ told = <<>>
    BY <1>8 DEF StartDecodeStep, TurnInv, Idle
  <2>2. CASE turn.pending /\ TurnEnds("done", <<>>)
    BY <2>1, <2>2 DEF TurnEnds, TurnGoes, EndIsTold
  <2>. QED  BY <1>0, <1>4, <1>6, <1>8, <2>1, <2>2 DEF StartDecodeStep
<1>9. ASSUME DroppedStep  PROVE EndIsTold'
  <2>1. conf.kind # "basic" /\ conf' = conf
    BY <1>9 DEF DroppedStep, TurnInv
  <2>. QED  BY <1>9, <2>1 DEF DroppedStep, TurnEnds, TurnGoes, EndIsTold, Idle
<1>10. ASSUME QuietStep  PROVE EndIsTold'
  <2>1. turn' = turn /\ conf' = conf
    BY <1>10 DEF QuietStep
  <2>2. CASE told' = told
    BY <2>1, <2>2 DEF EndIsTold, Idle
  <2>3. CASE turn.pc = "decode"
    BY <2>1, <2>3 DEF EndIsTold, Idle
  <2>. QED  BY <1>10, <2>2, <2>3 DEF QuietStep
<1>11. ASSUME NEW m, DecodeStep(m)  PROVE EndIsTold'
  <2>1. OnlyRefused(told) /\ ~turn.pending /\ conf' = conf
    BY <1>11 DEF DecodeStep, TurnInv, Idle
  <2>2. CASE conf.kind # "basic" /\ TurnEnds("cancelled", <<>>)
    BY <2>1, <2>2 DEF TurnEnds, TurnGoes, EndIsTold
  <2>. QED  BY <1>0, <1>4, <1>5, <1>6, <1>11, <2>1, <2>2 DEF DecodeStep
<1>. QED  BY <1>1, <1>7, <1>8, <1>9, <1>10, <1>11, Steps, Zenon

LEMMA PushedStep ==
    ASSUME TypeOK, PushedInv, [Next]_vars
    PROVE  PushedInv'
<1>1. ASSUME NEW roles \in Batches, NEW sync \in BOOLEAN, NEW pending \in BOOLEAN,
             NEW stage, NEW rewinds, NEW inputs,
             SendStep(roles, sync, pending, stage, rewinds, inputs)
      PROVE  PushedInv'
  <2>1. CASE stage = "none"
    <3>1. turns' > 0
      BY <1>1 DEF SendStep, TypeOK
    <3>2. turn'.before = history /\ turn'.roles = roles /\ turn'.roles \in Batches
      BY <1>1, <2>1 DEF SendStep
    <3>3. history' = history \o TurnMessages(turns', roles)
      BY <1>1, <2>1 DEF SendStep
    <3>4. history' = turn'.before \o TurnMessages(turns', turn'.roles)
      BY <3>2, <3>3
    <3>. QED  BY <3>1, <3>2, <3>4 DEF PushedInv
  <2>2. CASE stage # "none"
    <3>1. turn'.pc = "idle"
      BY <1>1, <2>2 DEF SendStep, NoTurn
    <3>. QED  BY <3>1 DEF PushedInv, Idle
  <2>. QED  BY <2>1, <2>2
<1>2. ASSUME history' = history, turns' = turns, turn'.before = turn.before,
             turn'.roles = turn.roles, Idle => turn'.pc = "idle"
      PROVE  PushedInv'
  <2>1. TurnMessages(turns', turn'.roles) = TurnMessages(turns, turn.roles)
    BY <1>2
  <2>. QED  BY <1>2, <2>1 DEF PushedInv, Idle
<1>3. ASSUME turn'.pc = "idle"  PROVE PushedInv'
  BY <1>3 DEF PushedInv, Idle
<1>4. ASSUME PrefillStep  PROVE PushedInv'
  BY <1>2, <1>3, <1>4 DEF PrefillStep, TurnMoves, TurnEnds, TurnGoes, Idle
<1>5. ASSUME StartDecodeStep  PROVE PushedInv'
  BY <1>2, <1>3, <1>5 DEF StartDecodeStep, TurnMoves, TurnEnds, TurnGoes, Idle
<1>6. ASSUME DroppedStep  PROVE PushedInv'
  BY <1>3, <1>6 DEF DroppedStep, TurnEnds, TurnGoes
<1>7. ASSUME QuietStep  PROVE PushedInv'
  BY <1>2, <1>7 DEF QuietStep, Idle
<1>8. ASSUME NEW m, DecodeStep(m)  PROVE PushedInv'
  BY <1>2, <1>3, <1>8 DEF DecodeStep, TurnMoves, TurnEnds, TurnAnswers, TurnGoes, Idle
<1>. QED  BY <1>1, <1>4, <1>5, <1>6, <1>7, <1>8, Steps, Zenon

LEMMA FrontOfOneMore ==
    ASSUME NEW s \in Seq(Messages), NEW u \in Seq(Messages),
           Len(u) = Len(s) + 1, \A i \in 1..Len(s) : u[i] = s[i]
    PROVE  Front(u) = s
<1>1. Len(s) \in Nat /\ Len(u) = Len(s) + 1 /\ \A i \in 1..Len(s) : u[i] = s[i]
  OBVIOUS
<1>2. u # <<>>
  BY <1>1
<1>3. /\ Front(u) \in Seq(Messages) /\ Len(Front(u)) = Len(s)
      /\ \A i \in 1..Len(s) : Front(u)[i] = s[i]
  <2>1. Len(u) - 1 = Len(s)
    BY <1>1
  <2>2. /\ Front(u) \in Seq(Messages) /\ Len(Front(u)) = Len(u) - 1
        /\ \A i \in 1..(Len(u) - 1) : Front(u)[i] = u[i]
    BY <1>2, FrontIs
  <2>. QED  BY <1>1, <2>1, <2>2
<1>. QED  BY <1>3, SeqEqual

LEMMA ConcatIs ==
    ASSUME NEW s \in Seq(Messages), NEW e \in Seq(Messages)
    PROVE  /\ s \o e \in Seq(Messages) /\ Len(s \o e) = Len(s) + Len(e)
           /\ Len(s) \in Nat /\ Len(e) \in Nat
           /\ \A i \in 1..Len(s) : (s \o e)[i] = s[i]
           /\ \A i \in 1..Len(e) : (s \o e)[Len(s) + i] = e[i]
           /\ \A i \in (Len(s) + 1)..(Len(s) + Len(e)) : (s \o e)[i] = e[i - Len(s)]
OBVIOUS

\* Without the one message that was put there the history is as before.
LEMMA FrontUndoes ==
    ASSUME TypeOK, PushedInv, ~Idle, Len(turn.roles) = 1
    PROVE  Front(history) = turn.before
<1>1. PICK before, roles, n : before = turn.before /\ roles = turn.roles /\ n = turns
  OBVIOUS
<1>2. before \in Seq(Messages) /\ roles \in Seq(Roles) /\ n \in Nat
  BY <1>1 DEF TypeOK, TurnRecord
<1>3. PICK sent : sent = TurnMessages(n, roles)
  OBVIOUS
<1>4. sent \in Seq(Messages) /\ Len(sent) = 1
  BY <1>1, <1>2, <1>3, TurnMessagesAre
<1>5. history = before \o sent
  BY <1>1, <1>3 DEF PushedInv
<1>6. PICK u : u = before \o sent
  OBVIOUS
<1>7. /\ u \in Seq(Messages) /\ Len(u) = Len(before) + Len(sent)
      /\ \A i \in 1..Len(before) : u[i] = before[i]
  BY <1>2, <1>4, <1>6, ConcatIs
<1>8. Front(u) = before
  BY <1>2, <1>4, <1>7, FrontOfOneMore
<1>. QED  BY <1>1, <1>5, <1>6, <1>8

LEMMA CancelUndoesStep ==
    ASSUME TypeOK, TurnInv, PushedInv, CancelUndoes, [Next]_vars
    PROVE  CancelUndoes'
<1>1. ASSUME NEW roles \in Batches, NEW sync \in BOOLEAN, NEW pending \in BOOLEAN,
             NEW stage, NEW rewinds, NEW inputs,
             SendStep(roles, sync, pending, stage, rewinds, inputs)
      PROVE  CancelUndoes'
  <2>1. turn'.fate = "none"
    BY <1>1 DEF SendStep, NoTurn
  <2>. QED  BY <2>1 DEF CancelUndoes
<1>2. ASSUME PrefillStep  PROVE CancelUndoes'
  <2>1. turn.fate = "none" /\ ~Idle
    BY <1>2 DEF PrefillStep, TurnInv, Idle
  <2>. QED  BY <1>2, <2>1, FrontUndoes
       DEF PrefillStep, TurnMoves, TurnEnds, TurnGoes, CancelUndoes
<1>3. ASSUME StartDecodeStep  PROVE CancelUndoes'
  <2>1. turn.fate = "none"
    BY <1>3 DEF StartDecodeStep, TurnInv, Idle
  <2>. QED  BY <1>3, <2>1 DEF StartDecodeStep, TurnMoves, TurnEnds, TurnGoes, CancelUndoes
<1>4. ASSUME DroppedStep  PROVE CancelUndoes'
  <2>1. conf.kind # "basic" /\ conf' = conf
    BY <1>4 DEF DroppedStep, TurnInv
  <2>. QED  BY <2>1 DEF CancelUndoes
<1>5. ASSUME QuietStep  PROVE CancelUndoes'
  BY <1>5 DEF QuietStep, CancelUndoes, Idle
<1>6. ASSUME NEW m, DecodeStep(m)  PROVE CancelUndoes'
  <2>1. turn.fate = "none" /\ ~Idle
    BY <1>6 DEF DecodeStep, TurnInv, Idle
  <2>. QED  BY <1>6, <2>1, FrontUndoes
       DEF DecodeStep, TurnMoves, TurnEnds, TurnAnswers, TurnGoes, CancelUndoes
<1>. QED  BY <1>1, <1>2, <1>3, <1>4, <1>5, <1>6, Steps, Zenon

\* What the turn under way has put into the history.
LEMMA TurnIsPushed ==
    ASSUME TypeOK, PushedInv, ~Idle
    PROVE  /\ turn.before \in Seq(Messages) /\ Len(turn.before) \in Nat
           /\ Len(turn.roles) \in Nat
           /\ <<>> \notin Batches => Len(history) > Len(turn.before)
           /\ Len(history) = Len(turn.before) + Len(turn.roles)
           /\ \A i \in 1..Len(turn.before) : history[i] = turn.before[i]
<1>1. PICK before, roles, n : before = turn.before /\ roles = turn.roles /\ n = turns
  OBVIOUS
<1>2. before \in Seq(Messages) /\ roles \in Seq(Roles) /\ n \in Nat
  BY <1>1 DEF TypeOK, TurnRecord
<1>3. PICK sent : sent = TurnMessages(n, roles)
  OBVIOUS
<1>4. sent \in Seq(Messages) /\ Len(sent) = Len(roles)
  BY <1>2, <1>3, TurnMessagesAre
<1>5. history = before \o sent
  BY <1>1, <1>3 DEF PushedInv
<1>6. /\ Len(history) = Len(before) + Len(sent)
      /\ Len(before) \in Nat /\ Len(sent) \in Nat
      /\ \A i \in 1..Len(before) : history[i] = before[i]
  BY <1>2, <1>4, <1>5, ConcatIs
<1>7. <<>> \notin Batches => Len(roles) > 0
  <2>1. roles \in Batches
    BY <1>1 DEF PushedInv
  <2>. QED  BY <1>2, <2>1
<1>8. PICK h, b, r \in Nat : h = Len(history) /\ b = Len(before) /\ r = Len(roles)
  BY <1>4, <1>6
<1>9. h = b + r /\ (<<>> \notin Batches => h > b)
  BY <1>4, <1>6, <1>7, <1>8
<1>. QED  BY <1>1, <1>2, <1>4, <1>6, <1>8, <1>9

\* The messages of the turn, and none before, are taken out of the history.
LEMMA IndexStep ==
    ASSUME <<>> \notin Batches, TypeOK, PushedInv, CheckpointInv, IndexInv, [Next]_vars
    PROVE  IndexInv'
<1>0. index \in Nat /\ Len(history) \in Nat /\ history \in Seq(Messages)
  BY DEF TypeOK
<1>1. ASSUME NEW roles \in Batches, NEW sync \in BOOLEAN, NEW pending \in BOOLEAN,
             NEW stage, NEW rewinds, NEW inputs,
             SendStep(roles, sync, pending, stage, rewinds, inputs)
      PROVE  IndexInv'
  <2>1. index' <= Len(history)
    BY <1>0, <1>1 DEF SendStep, IndexInv
  <2>2. Len(history) <= Len(history')
    <3>1. TurnMessages(turns + 1, roles) \in Seq(Messages)
      <4>1. turns + 1 \in Nat
        BY DEF TypeOK
      <4>. QED  BY <4>1, BatchIs, TurnMessagesAre
    <3>2. Len(history \o TurnMessages(turns + 1, roles)) >= Len(history)
      BY <1>0, <3>1
    <3>. QED  BY <1>0, <1>1, <3>2 DEF SendStep
  <2>3. Len(history') \in Nat /\ index' \in Nat
    <3>1. TypeOK'
      BY <1>1, SendTyped
    <3>. QED  BY <3>1 DEF TypeOK
  <2>4. turn'.pc = "idle" \/ turn'.before = history
    BY <1>1 DEF SendStep, NoTurn
  <2>. QED  BY <1>0, <2>1, <2>2, <2>3, <2>4 DEF IndexInv, Idle
<1>2. ASSUME ~Idle, history' = history \/ history' = Front(history), index' = index
      PROVE  index' <= Len(history')
  <2>1. Len(history) > Len(turn.before) /\ Len(turn.before) \in Nat
    BY <1>2, TurnIsPushed, Zenon
  <2>2. history # <<>>
    BY <1>0, <2>1
  <2>3. Len(Front(history)) = Len(history) - 1
    BY <1>0, <2>2, FrontIs
  <2>4. index <= Len(turn.before)
    BY <1>2 DEF IndexInv
  <2>. QED  BY <1>0, <1>2, <2>1, <2>3, <2>4
<1>3. ASSUME PrefillStep  PROVE IndexInv'
  <2>1. ~Idle /\ index' = index /\ (history' = history \/ history' = Front(history))
    BY <1>3 DEF PrefillStep, Idle
  <2>2. turn'.before = turn.before
    BY <1>3 DEF PrefillStep, TurnMoves, TurnEnds, TurnGoes
  <2>. QED  BY <1>2, <2>1, <2>2 DEF IndexInv
<1>4. ASSUME StartDecodeStep  PROVE IndexInv'
  BY <1>4 DEF StartDecodeStep, TurnMoves, TurnEnds, TurnGoes, IndexInv, Idle
<1>5. ASSUME DroppedStep  PROVE IndexInv'
  BY <1>5 DEF DroppedStep, TurnEnds, TurnGoes, IndexInv, Idle
<1>6. ASSUME QuietStep  PROVE IndexInv'
  BY <1>0, <1>6 DEF QuietStep, IndexInv, Idle
<1>7. ASSUME NEW m, DecodeStep(m)  PROVE IndexInv'
  <2>1. ~Idle
    BY <1>7 DEF DecodeStep, Idle
  <2>2. CASE index' = index /\ (history' = history \/ history' = Front(history))
    <3>1. turn'.before = turn.before
      BY <1>7 DEF DecodeStep, TurnMoves, TurnEnds, TurnAnswers, TurnGoes
    <3>. QED  BY <1>2, <2>1, <2>2, <3>1 DEF IndexInv
  <2>3. CASE history' = Append(history, Answer) /\ MarkChannels /\ turn'.pc = "idle"
    <3>1. index' <= Len(history) + 1
      BY <1>0, <2>3, MarkChannelsTyped DEF IndexInv
    <3>2. Len(history') = Len(history) + 1
      BY <1>0, <2>3, AnswerIs DEF TypeOK
    <3>. QED  BY <2>3, <3>1, <3>2 DEF IndexInv, Idle
  <2>. QED  BY <1>7, <2>2, <2>3 DEF DecodeStep, TurnMoves, TurnEnds, TurnAnswers, TurnGoes
<1>. QED  BY <1>1, <1>3, <1>4, <1>5, <1>6, <1>7, Steps, Zenon

(***************************************************************************)
(* The context follows the history.                                         *)
(***************************************************************************)
LEMMA SameKeysConcat ==
    ASSUME NEW a \in Seq(Messages), NEW b \in Seq(Messages),
           NEW c \in Seq(Messages), NEW d \in Seq(Messages),
           SameKeys(a, b), SameKeys(c, d)
    PROVE  SameKeys(a \o c, b \o d)
<1>1. /\ Len(a) = Len(b) /\ \A i \in 1..Len(a) : Same(a[i], b[i])
      /\ Len(c) = Len(d) /\ \A i \in 1..Len(c) : Same(c[i], d[i])
      /\ Len(a) \in Nat /\ Len(c) \in Nat
  BY DEF SameKeys
<1>2. PICK u, v : u = a \o c /\ v = b \o d
  OBVIOUS
<1>3. /\ Len(u) = Len(a) + Len(c)
      /\ \A i \in 1..Len(a) : u[i] = a[i]
      /\ \A i \in (Len(a) + 1)..(Len(a) + Len(c)) : u[i] = c[i - Len(a)]
  BY <1>2, ConcatIs
<1>4. /\ Len(v) = Len(a) + Len(c)
      /\ \A i \in 1..Len(a) : v[i] = b[i]
      /\ \A i \in (Len(a) + 1)..(Len(a) + Len(c)) : v[i] = d[i - Len(a)]
  <2>1. /\ Len(v) = Len(b) + Len(d)
        /\ \A i \in 1..Len(b) : v[i] = b[i]
        /\ \A i \in (Len(b) + 1)..(Len(b) + Len(d)) : v[i] = d[i - Len(b)]
    BY <1>2, ConcatIs
  <2>. QED  BY <1>1, <2>1
<1>5. ASSUME NEW i \in 1..(Len(a) + Len(c))  PROVE Same(u[i], v[i])
  <2>1. CASE i <= Len(a)
    BY <1>1, <1>3, <1>4, <2>1
  <2>2. CASE i > Len(a)
    <3>1. i - Len(a) \in 1..Len(c)
      BY <1>1, <2>2
    <3>2. i \in (Len(a) + 1)..(Len(a) + Len(c))
      BY <1>1, <2>2
    <3>3. u[i] = c[i - Len(a)] /\ v[i] = d[i - Len(a)]
      BY <1>3, <1>4, <3>2
    <3>. QED  BY <1>1, <3>1, <3>3
  <2>. QED  BY <1>1, <2>1, <2>2
<1>6. SameKeys(u, v)
  BY <1>3, <1>4, <1>5 DEF SameKeys
<1>. QED  BY <1>2, <1>6

LEMMA SameKeysOfRendered ==
    ASSUME NEW s \in Seq(Messages)
    PROVE  SameKeys(Rendered(s), s)
BY RenderedIs DEF SameKeys

LEMMA SameKeysRefl ==
    ASSUME NEW s \in Seq(Messages)
    PROVE  SameKeys(s, s)
BY DEF SameKeys, Same

LEMMA SameKeysOfPrefix ==
    ASSUME NEW a \in Seq(Messages), NEW b \in Seq(Messages), SameKeys(a, b),
           NEW n \in 0..Len(a)
    PROVE  SameKeys(SubSeq(a, 1, n), SubSeq(b, 1, n))
<1>1. Len(a) = Len(b) /\ Len(a) \in Nat /\ \A i \in 1..Len(a) : Same(a[i], b[i])
  BY DEF SameKeys
<1>2. n \in Nat /\ n <= Len(a) /\ n <= Len(b)
  BY <1>1
<1>3. Len(SubSeq(a, 1, n)) = n /\ \A i \in 1..n : SubSeq(a, 1, n)[i] = a[i]
  BY <1>2
<1>4. Len(SubSeq(b, 1, n)) = n /\ \A i \in 1..n : SubSeq(b, 1, n)[i] = b[i]
  BY <1>2
<1>. QED  BY <1>1, <1>2, <1>3, <1>4 DEF SameKeys

LEMMA SameKeysAreKeys ==
    ASSUME NEW a \in Seq(Messages), NEW b \in Seq(Messages), SameKeys(a, b)
    PROVE  Keys(a) = Keys(b)
<1>1. DOMAIN a = 1..Len(a) /\ DOMAIN b = 1..Len(a)
  BY DEF SameKeys
<1>2. \A i \in 1..Len(a) : a[i].at = b[i].at /\ a[i].role = b[i].role
  BY DEF SameKeys, Same
<1>. QED  BY <1>1, <1>2 DEF Keys

\* The preface and the history up to a message, and from that message on.
LEMMA CutHistory ==
    ASSUME NEW p \in Messages, NEW h \in Seq(Messages), NEW n \in 1..Len(h)
    PROVE  /\ SubSeq(<<p>> \o h, 1, n) \in Seq(Messages)
           /\ SubSeq(h, n, Len(h)) \in Seq(Messages)
           /\ SubSeq(<<p>> \o h, 1, n) \o SubSeq(h, n, Len(h)) = <<p>> \o h
<1>1. PICK k \in Nat : k = Len(h)
  OBVIOUS
<1>2. n \in Nat /\ n >= 1 /\ n <= k
  BY <1>1
<1>3. <<p>> \in Seq(Messages) /\ Len(<<p>>) = 1 /\ <<p>>[1] = p
  OBVIOUS
<1>4. PICK u : u = <<p>> \o h
  OBVIOUS
<1>5. /\ u \in Seq(Messages) /\ Len(u) = k + 1 /\ u[1] = p
      /\ \A i \in 2..(k + 1) : u[i] = h[i - 1]
  BY <1>1, <1>3, <1>4
<1>6. PICK a, b : a = SubSeq(u, 1, n) /\ b = SubSeq(h, n, k)
  OBVIOUS
<1>7. a \in Seq(Messages) /\ Len(a) = n /\ \A i \in 1..n : a[i] = u[i]
  BY <1>2, <1>5, <1>6
<1>8. /\ b \in Seq(Messages) /\ Len(b) = k - n + 1
      /\ \A i \in 1..(k - n + 1) : b[i] = h[n + i - 1]
  BY <1>1, <1>2, <1>6
<1>9. PICK w : w = a \o b
  OBVIOUS
<1>10. /\ w \in Seq(Messages) /\ Len(w) = Len(a) + Len(b)
       /\ \A i \in 1..Len(a) : w[i] = a[i]
       /\ \A i \in (Len(a) + 1)..(Len(a) + Len(b)) : w[i] = b[i - Len(a)]
  BY ZenonT(40), <1>7, <1>8, <1>9, ConcatIs
<1>11. Len(w) = k + 1
  BY <1>1, <1>2, <1>7, <1>8, <1>10
<1>12. ASSUME NEW i \in 1..(k + 1)  PROVE w[i] = u[i]
  <2>1. CASE i <= n
    BY <1>2, <1>7, <1>10, <2>1
  <2>2. CASE i > n
    <3>1. i \in (Len(a) + 1)..(Len(a) + Len(b)) /\ i - n \in 1..(k - n + 1) /\ i \in 2..(k + 1)
      BY <1>1, <1>2, <1>7, <1>8, <2>2
    <3>2. w[i] = b[i - n]
      BY <1>7, <1>10, <3>1
    <3>3. b[i - n] = h[n + (i - n) - 1]
      BY <1>8, <3>1
    <3>4. n + (i - n) - 1 = i - 1
      BY <1>2, <3>1
    <3>. QED  BY <1>5, <3>1, <3>2, <3>3, <3>4
  <2>. QED  BY <1>2, <2>1, <2>2
<1>13. w = u
  BY <1>5, <1>10, <1>11, <1>12, SeqEqual
<1>. QED  BY <1>1, <1>4, <1>6, <1>7, <1>8, <1>9, <1>13

\* Rewinding prefills again what is cut off.
LEMMA RewindFollows ==
    ASSUME NEW p \in Messages, NEW h \in Seq(Messages), NEW c \in Seq(Messages),
           NEW e \in Seq(Messages), NEW n \in 1..Len(h), n <= Len(c),
           SameKeys(c, <<p>> \o h)
    PROVE  SameKeys(SubSeq(c, 1, n) \o (Rendered(SubSeq(h, n, Len(h))) \o (<<>> \o Rendered(e))),
                    <<p>> \o (h \o e))
<1>1. PICK u, a, b : u = <<p>> \o h /\ a = SubSeq(u, 1, n) /\ b = SubSeq(h, n, Len(h))
  OBVIOUS
<1>2. a \in Seq(Messages) /\ b \in Seq(Messages) /\ a \o b = u
  BY <1>1, CutHistory
<1>3. u \in Seq(Messages)
  BY <1>1
<1>4. PICK x : x = SubSeq(c, 1, n)
  OBVIOUS
<1>5. x \in Seq(Messages)
  BY <1>4
<1>6. SameKeys(x, a)
  <2>1. n \in 0..Len(c)
    OBVIOUS
  <2>. QED  BY <1>1, <1>3, <1>4, <2>1, SameKeysOfPrefix
<1>7. PICK y, z : y = Rendered(b) /\ z = Rendered(e)
  OBVIOUS
<1>8. y \in Seq(Messages) /\ z \in Seq(Messages) /\ SameKeys(y, b) /\ SameKeys(z, e)
  BY <1>2, <1>7, RenderedIs, SameKeysOfRendered
<1>9. SameKeys(x \o y, a \o b)
  BY <1>2, <1>5, <1>6, <1>8, SameKeysConcat
<1>10. PICK v : v = x \o y
  OBVIOUS
<1>11. v \in Seq(Messages) /\ SameKeys(v, u)
  BY <1>2, <1>5, <1>8, <1>9, <1>10
<1>12. SameKeys(v \o z, u \o e)
  BY <1>3, <1>8, <1>11, SameKeysConcat
<1>13. x \o (y \o (<<>> \o z)) = v \o z
  BY SMTT(30), <1>5, <1>8, <1>10
<1>14. u \o e = <<p>> \o (h \o e)
  BY <1>1
<1>. QED  BY <1>1, <1>4, <1>7, <1>12, <1>13, <1>14

\* What is prefilled when nothing is rewound.
LEMMA SendFollows ==
    ASSUME NEW p \in Messages, NEW h \in Seq(Messages), NEW c \in Seq(Messages),
           NEW e \in Seq(Messages)
    PROVE  /\ SameKeys(c, <<p>> \o h) =>
                SameKeys(c \o (<<>> \o (<<>> \o Rendered(e))), <<p>> \o (h \o e))
           /\ SameKeys(c, <<>>) =>
                SameKeys(c \o (<<>> \o (<<p>> \o Rendered(e))), <<p>> \o (<<>> \o e))
<1>1. PICK z : z = Rendered(e)
  OBVIOUS
<1>2. z \in Seq(Messages) /\ SameKeys(z, e)
  BY <1>1, RenderedIs, SameKeysOfRendered
<1>3. PICK u, q : u = <<p>> \o h /\ q = <<p>>
  OBVIOUS
<1>4. u \in Seq(Messages) /\ q \in Seq(Messages)
  BY <1>3
<1>5. ASSUME SameKeys(c, u)  PROVE SameKeys(c \o (<<>> \o (<<>> \o z)), q \o (h \o e))
  <2>1. SameKeys(c \o z, u \o e)
    BY <1>2, <1>4, <1>5, SameKeysConcat
  <2>2. c \o (<<>> \o (<<>> \o z)) = c \o z
    BY <1>2
  <2>3. u \o e = q \o (h \o e)
    BY <1>3
  <2>. QED  BY <2>1, <2>2, <2>3
<1>6. ASSUME SameKeys(c, <<>>)  PROVE SameKeys(c \o (<<>> \o (q \o z)), q \o (<<>> \o e))
  <2>1. c = <<>>
    <3>1. Len(c) = 0
      BY <1>6 DEF SameKeys
    <3>. QED  BY <3>1
  <2>2. SameKeys(q \o z, q \o e)
    BY <1>2, <1>4, SameKeysConcat, SameKeysRefl
  <2>3. c \o (<<>> \o (q \o z)) = q \o z /\ q \o (<<>> \o e) = q \o e
    BY <1>2, <1>4, <2>1
  <2>. QED  BY <2>2, <2>3
<1>. QED  BY <1>1, <1>3, <1>5, <1>6

LEMMA ReplyFollows ==
    ASSUME NEW p \in Messages, NEW h \in Seq(Messages), NEW c \in Seq(Messages),
           NEW m \in Messages, NEW a \in Messages, Same(m, a), SameKeys(c, <<p>> \o h)
    PROVE  SameKeys(Append(c, m), <<p>> \o Append(h, a))
<1>1. PICK u, x, y : u = <<p>> \o h /\ x = <<m>> /\ y = <<a>>
  OBVIOUS
<1>2. u \in Seq(Messages) /\ x \in Seq(Messages) /\ y \in Seq(Messages)
  BY <1>1
<1>3. SameKeys(x, y)
  BY <1>1 DEF SameKeys
<1>4. SameKeys(c \o x, u \o y)
  BY <1>1, <1>2, <1>3, SameKeysConcat
<1>5. c \o x = Append(c, m) /\ u \o y = <<p>> \o Append(h, a)
  BY <1>1
<1>. QED  BY <1>4, <1>5

\* While nothing fails, a message is sent after what the session already has.
LEMMA SendFollowsStep ==
    ASSUME <<>> \notin Batches, TypeOK, CheckpointInv, IndexInv, FollowsInv,
           NEW roles \in Batches, NEW sync \in BOOLEAN, NEW pending \in BOOLEAN,
           NEW stage, NEW rewinds, NEW inputs,
           SendStep(roles, sync, pending, stage, rewinds, inputs)
    PROVE  FollowsInv'
<1>. SUFFICES ASSUME faults' = 0, cancels' = 0  PROVE FollowsInv'
  BY DEF FollowsInv
<1>1. PICK h, c, e, p, n : /\ h = history /\ c = context /\ p = Preface /\ n = index
                           /\ e = TurnMessages(turns + 1, roles)
  OBVIOUS
<1>2. h \in Seq(Messages) /\ c \in Seq(Messages) /\ p \in Messages /\ n \in Nat
  BY <1>1, PrefaceIs DEF TypeOK
<1>3. e \in Seq(Messages) /\ Len(e) > 0
  <2>1. turns + 1 \in Nat
    BY DEF TypeOK
  <2>2. roles \in Seq(Roles) /\ roles # <<>>
    BY BatchIs
  <2>3. Len(roles) > 0
    BY <2>2
  <2>4. e \in Seq(Messages) /\ Len(e) = Len(roles)
    BY <1>1, <2>1, <2>2, TurnMessagesAre
  <2>. QED  BY <2>3, <2>4
<1>4. stage = "none" /\ faults = 0 /\ cancels = 0
  BY DEF SendStep, TypeOK
<1>5. /\ Idle /\ flag' = FALSE /\ checkpoint' = checkpoint /\ conf' = conf
      /\ rewinds \in BOOLEAN /\ (rewinds => n > 0)
      /\ context' = IF rewinds THEN SubSeq(c, 1, checkpoint) ELSE c
      /\ index' = IF rewinds THEN 0 ELSE n
      /\ history' = h \o e
      /\ turn'.pc = "prefill" /\ turn'.inputs = inputs
      /\ inputs = (IF rewinds THEN RewoundInputs ELSE <<>>) \o GetSingleTurnText(e)
  BY <1>1, <1>4 DEF SendStep
<1>6. /\ n > 0 => checkpoint = n /\ checkpoint \in 0..Len(c)
      /\ n <= Len(h)
      /\ SameKeys(c, (IF conf.onInit \/ h # <<>> THEN <<p>> ELSE <<>>) \o h)
  <2>1. Given = context
    BY <1>5 DEF Given, Idle
  <2>. QED  BY <1>1, <1>4, <2>1 DEF FollowsInv, CheckpointInv, IndexInv
<1>7. GetSingleTurnText(e) = (IF h = <<>> /\ ~conf.onInit THEN <<p>> ELSE <<>>) \o Rendered(e)
  BY <1>1 DEF GetSingleTurnText
<1>8. RewoundInputs = Rendered(SubSeq(h, n, Len(h)))
  BY <1>1 DEF RewoundInputs
<1>9. SameKeys(context' \o inputs, <<p>> \o (h \o e))
  <2>1. CASE rewinds
    <3>1. n \in 1..Len(h) /\ n <= Len(c) /\ h # <<>>
      BY <1>2, <1>5, <1>6, <2>1
    <3>2. SameKeys(c, <<p>> \o h)
      BY <1>6, <3>1
    <3>3. SameKeys(SubSeq(c, 1, n) \o (Rendered(SubSeq(h, n, Len(h))) \o (<<>> \o Rendered(e))),
                   <<p>> \o (h \o e))
      BY <1>2, <1>3, <3>1, <3>2, RewindFollows
    <3>4. inputs = Rendered(SubSeq(h, n, Len(h))) \o (<<>> \o Rendered(e))
      BY <1>5, <1>7, <1>8, <2>1, <3>1
    <3>5. context' = SubSeq(c, 1, n)
      BY <1>5, <1>6, <2>1
    <3>. QED  BY <3>3, <3>4, <3>5
  <2>2. CASE ~rewinds /\ (h # <<>> \/ conf.onInit)
    <3>1. SameKeys(c, <<p>> \o h)
      BY <1>6, <2>2
    <3>2. SameKeys(c \o (<<>> \o (<<>> \o Rendered(e))), <<p>> \o (h \o e))
      BY <1>2, <1>3, <3>1, SendFollows
    <3>3. inputs = <<>> \o (<<>> \o Rendered(e)) /\ context' = c
      BY <1>5, <1>7, <2>2
    <3>. QED  BY <3>2, <3>3
  <2>3. CASE ~rewinds /\ h = <<>> /\ ~conf.onInit
    <3>1. SameKeys(c, <<>>)
      <4>1. <<>> \o h = <<>>
        BY <2>3
      <4>. QED  BY <1>6, <2>3, <4>1
    <3>2. SameKeys(c \o (<<>> \o (<<p>> \o Rendered(e))), <<p>> \o (<<>> \o e))
      BY <1>2, <1>3, <3>1, SendFollows
    <3>3. inputs = <<>> \o (<<p>> \o Rendered(e)) /\ context' = c
      BY <1>5, <1>7, <2>3
    <3>. QED  BY <2>3, <3>2, <3>3
  <2>. QED  BY <1>5, <2>1, <2>2, <2>3
<1>10. history' # <<>>
  <2>1. h \o e # <<>>
    BY <1>2, <1>3
  <2>. QED  BY <1>5, <2>1
<1>11. Given' = context' \o inputs
  BY <1>5 DEF Given
<1>12. Preface' = p /\ Preface = p
  BY <1>1 DEF Preface, Message
<1>13. SameKeys(Given', <<Preface>> \o history')
  BY <1>5, <1>9, <1>11, <1>12
<1>14. index' > 0 => checkpoint' = index'
  BY <1>2, <1>5, <1>6
<1>. QED  BY <1>5, <1>10, <1>12, <1>13, <1>14 DEF FollowsInv

LEMMA FollowsStep ==
    ASSUME <<>> \notin Batches, TypeOK, CheckpointInv, IndexInv, FollowsInv, [Next]_vars
    PROVE  FollowsInv'
<1>0. faults \in Nat /\ cancels \in Nat /\ flag \in BOOLEAN
  BY DEF TypeOK
<1>1. ASSUME NEW roles \in Batches, NEW sync \in BOOLEAN, NEW pending \in BOOLEAN,
             NEW stage, NEW rewinds, NEW inputs,
             SendStep(roles, sync, pending, stage, rewinds, inputs)
      PROVE  FollowsInv'
  BY <1>1, SendFollowsStep
<1>2. ASSUME faults' = faults, cancels' = cancels, history' = history, Given' = Given,
             conf' = conf, index' = index, index > 0 => checkpoint' = checkpoint,
             flag' => flag, turn'.pc # "dropped", Idle => turn'.pc = "idle"
      PROVE  FollowsInv'
  BY <1>2 DEF FollowsInv, Idle
<1>3. ASSUME PrefillStep  PROVE FollowsInv'
  <2>. SUFFICES ASSUME faults' = 0, cancels' = 0  PROVE FollowsInv'
    BY DEF FollowsInv
  <2>1. faults = 0 /\ cancels = 0 /\ ~flag /\ faults' = faults /\ cancels' = cancels
    BY <1>0, <1>3 DEF PrefillStep, FollowsInv
  <2>2. /\ context' = context \o turn.inputs /\ history' = history
        /\ TurnMoves("prefilled")
    BY <1>0, <1>3, <2>1 DEF PrefillStep
  <2>3. turn'.pc = "prefilled" /\ turn.pc = "prefill"
    BY <1>3, <2>2 DEF PrefillStep, TurnMoves, TurnGoes
  <2>4. Given' = Given
    BY <2>2, <2>3 DEF Given
  <2>5. conf' = conf /\ index' = index /\ checkpoint' = checkpoint /\ flag' = flag
    BY <1>3 DEF PrefillStep
  <2>. QED  BY <1>2, <2>1, <2>2, <2>3, <2>4, <2>5 DEF Idle
<1>4. ASSUME StartDecodeStep  PROVE FollowsInv'
  <2>. SUFFICES ASSUME faults' = 0  PROVE FollowsInv'
    BY DEF FollowsInv
  <2>1. /\ turn.pc = "prefilled" /\ turn'.pc \in {"idle", "decode"}
        /\ UNCHANGED <<conf, history, context, index, faults, cancels>>
    BY <1>0, <1>4 DEF StartDecodeStep, TurnMoves, TurnEnds, TurnGoes
  <2>2. Given' = Given
    BY <2>1 DEF Given
  <2>3. index > 0 => checkpoint' = checkpoint
    BY <1>4 DEF StartDecodeStep, SaveCheckpoint
  <2>4. flag' => flag
    BY <1>4 DEF StartDecodeStep
  <2>. QED  BY <1>2, <2>1, <2>2, <2>3, <2>4 DEF Idle
<1>5. ASSUME DroppedStep  PROVE FollowsInv'
  BY <1>5 DEF DroppedStep, FollowsInv
<1>6. ASSUME QuietStep  PROVE FollowsInv'
  <2>. SUFFICES ASSUME faults' = 0, cancels' = 0  PROVE FollowsInv'
    BY DEF FollowsInv
  <2>1. /\ UNCHANGED <<conf, history, context, turn, faults>> /\ cancels' = cancels
        /\ (flag' => flag)
    BY <1>0, <1>6 DEF QuietStep
  <2>2. Given' = Given
    BY <2>1 DEF Given
  <2>3. CASE UNCHANGED <<checkpoint, supported, index>>
    BY <2>1, <2>2, <2>3 DEF FollowsInv, Idle
  <2>4. CASE index' = 0
    BY <2>1, <2>2, <2>4 DEF FollowsInv, Idle
  <2>. QED  BY <1>6, <2>3, <2>4 DEF QuietStep
<1>7. ASSUME NEW m, DecodeStep(m)  PROVE FollowsInv'
  <2>. SUFFICES ASSUME faults' = 0, cancels' = 0  PROVE FollowsInv'
    BY DEF FollowsInv
  <2>1. faults = 0 /\ cancels = 0 /\ ~flag
    BY <1>0, <1>7 DEF DecodeStep, FollowsInv
  <2>2. /\ history' = Append(history, Answer) /\ MarkChannels /\ m = Spoken
        /\ TurnAnswers("done")
    BY <1>0, <1>7, <2>1 DEF DecodeStep
  <2>3. /\ turn.pc = "decode" /\ conf' = conf /\ checkpoint' = checkpoint /\ flag' = flag
        /\ context' = Append(context, m) /\ m \in Messages
    BY <1>7 DEF DecodeStep
  <2>4. PICK h, c, a, p : h = history /\ c = context /\ a = Answer /\ p = Preface
    OBVIOUS
  <2>5. /\ h \in Seq(Messages) /\ c \in Seq(Messages) /\ p \in Messages
        /\ a \in Messages /\ Same(m, a)
    BY <2>2, <2>4, AnswerIs, PrefaceIs DEF TypeOK, Same
  <2>6. h # <<>> /\ SameKeys(c, <<p>> \o h) /\ (index > 0 => checkpoint = index)
    <3>1. Given = context /\ ~Idle
      BY <2>3 DEF Given, Idle
    <3>. QED  BY <2>1, <2>4, <3>1 DEF FollowsInv
  <2>7. SameKeys(Append(c, m), <<p>> \o Append(h, a))
    BY <2>3, <2>5, <2>6, ReplyFollows
  <2>8. Append(h, a) # <<>>
    BY <2>5
  <2>9. turn'.pc = "idle" /\ Idle'
    BY <2>2 DEF TurnAnswers, TurnGoes, Idle
  <2>10. Given' = Append(c, m) /\ history' = Append(h, a)
    BY <2>2, <2>3, <2>4, <2>9 DEF Given
  <2>11. index' > 0 => checkpoint' = index'
    <3>1. CASE index' = index
      BY <2>3, <2>6, <3>1
    <3>2. CASE conf.filter /\ supported /\ index = 0 /\ index' = Len(history) + 1
      <4>1. checkpoint = Len(c)
        BY <2>3, <2>4, <3>2 DEF CheckpointInv
      <4>2. Len(c) = Len(h) + 1
        <5>1. Len(c) = Len(<<p>> \o h)
          BY <2>6 DEF SameKeys
        <5>. QED  BY <2>5, <5>1
      <4>. QED  BY <2>3, <2>4, <3>2, <4>1, <4>2
    <3>. QED  BY <2>2, <3>1, <3>2 DEF MarkChannels
  <2>12. Preface' = p /\ Preface = p
    BY <2>4 DEF Preface, Message
  <2>. QED  BY <2>1, <2>3, <2>7, <2>8, <2>9, <2>10, <2>11, <2>12 DEF FollowsInv
<1>. QED  BY <1>1, <1>3, <1>4, <1>5, <1>6, <1>7, Steps, Zenon

(***************************************************************************)
(* The order of messages.                                                   *)
(***************************************************************************)
\* b comes after a.
Follow(a, b) ==
    \A p \in 1..Len(a), q \in 1..Len(b) :
        b[q].at = Preface.at \/ Before(a[p].at, b[q].at)

LEMMA AtIs ==
    ASSUME NEW m \in Messages
    PROVE  m.at[1] \in Nat /\ m.at[2] \in Nat
BY DEF Messages

LEMMA InOrderIs ==
    ASSUME NEW s \in Seq(Messages)
    PROVE  InOrder(s) <=> \A p, q \in 1..Len(s) : p < q => s[q].at = Preface.at \/ Before(s[p].at, s[q].at)
BY DEF InOrder

LEMMA InOrderConcat ==
    ASSUME NEW a \in Seq(Messages), NEW b \in Seq(Messages),
           InOrder(a), InOrder(b), Follow(a, b)
    PROVE  InOrder(a \o b)
<1>1. PICK u : u = a \o b
  OBVIOUS
<1>2. PICK n, m \in Nat : n = Len(a) /\ m = Len(b)
  OBVIOUS
<1>3. /\ u \in Seq(Messages) /\ Len(u) = n + m
      /\ \A i \in 1..n : u[i] = a[i]
      /\ \A i \in (n + 1)..(n + m) : u[i] = b[i - n]
  BY <1>1, <1>2, ConcatIs
<1>4. \A p, q \in 1..n : p < q => a[q].at = Preface.at \/ Before(a[p].at, a[q].at)
  BY <1>2, InOrderIs
<1>5. \A p, q \in 1..m : p < q => b[q].at = Preface.at \/ Before(b[p].at, b[q].at)
  BY <1>2, InOrderIs
<1>6. \A p \in 1..n, q \in 1..m : b[q].at = Preface.at \/ Before(a[p].at, b[q].at)
  BY <1>2 DEF Follow
<1>7. ASSUME NEW p \in 1..(n + m), NEW q \in 1..(n + m), p < q
      PROVE  u[q].at = Preface.at \/ Before(u[p].at, u[q].at)
  <2>1. CASE q <= n
    <3>1. p \in 1..n /\ q \in 1..n
      BY <1>7, <2>1
    <3>2. u[p] = a[p] /\ u[q] = a[q]
      BY <1>3, <3>1
    <3>. QED  BY <1>4, <1>7, <3>1, <3>2
  <2>2. CASE p <= n /\ q > n
    <3>1. p \in 1..n /\ q \in (n + 1)..(n + m) /\ q - n \in 1..m
      BY <1>7, <2>2
    <3>2. u[p] = a[p] /\ u[q] = b[q - n]
      BY <1>3, <3>1
    <3>. QED  BY <1>6, <3>1, <3>2
  <2>3. CASE p > n
    <3>1. /\ p \in (n + 1)..(n + m) /\ p - n \in 1..m
          /\ q \in (n + 1)..(n + m) /\ q - n \in 1..m /\ p - n < q - n
      BY <1>7, <2>3
    <3>2. u[p] = b[p - n] /\ u[q] = b[q - n]
      BY <1>3, <3>1
    <3>. QED  BY <1>5, <3>1, <3>2
  <2>. QED  BY <2>1, <2>2, <2>3
<1>8. InOrder(u)
  BY <1>3, <1>7, InOrderIs
<1>. QED  BY <1>1, <1>8

LEMMA InOrderSame ==
    ASSUME NEW a \in Seq(Messages), NEW b \in Seq(Messages), SameKeys(a, b), InOrder(b)
    PROVE  InOrder(a)
<1>1. Len(a) = Len(b) /\ \A i \in 1..Len(a) : a[i].at = b[i].at
  BY DEF SameKeys, Same
<1>2. \A p, q \in 1..Len(b) : p < q => b[q].at = Preface.at \/ Before(b[p].at, b[q].at)
  BY InOrderIs
<1>3. \A p, q \in 1..Len(a) : p < q => a[q].at = Preface.at \/ Before(a[p].at, a[q].at)
  BY <1>1, <1>2
<1>. QED  BY <1>3, InOrderIs

\* A part of a sequence: d places are left out before it.
LEMMA InOrderPart ==
    ASSUME NEW a \in Seq(Messages), NEW b \in Seq(Messages), NEW d \in Nat, InOrder(b),
           d + Len(a) <= Len(b), \A i \in 1..Len(a) : a[i] = b[d + i]
    PROVE  InOrder(a)
<1>1. PICK n, k \in Nat : n = Len(a) /\ k = Len(b)
  OBVIOUS
<1>2. d + n <= k /\ \A i \in 1..n : a[i] = b[d + i]
  BY <1>1
<1>3. \A p, q \in 1..k : p < q => b[q].at = Preface.at \/ Before(b[p].at, b[q].at)
  BY <1>1, InOrderIs
<1>4. ASSUME NEW p \in 1..n, NEW q \in 1..n, p < q
      PROVE  a[q].at = Preface.at \/ Before(a[p].at, a[q].at)
  <2>1. d + p \in 1..k /\ d + q \in 1..k /\ d + p < d + q
    BY <1>2, <1>4
  <2>. QED  BY <1>2, <1>3, <2>1
<1>. QED  BY <1>1, <1>4, InOrderIs

LEMMA SuffixIs ==
    ASSUME NEW h \in Seq(Messages), NEW n \in 1..Len(h)
    PROVE  /\ SubSeq(h, n, Len(h)) \in Seq(Messages)
           /\ Len(SubSeq(h, n, Len(h))) = Len(h) - n + 1
           /\ \A i \in 1..(Len(h) - n + 1) : SubSeq(h, n, Len(h))[i] = h[n + i - 1]
<1>1. PICK k \in Nat : k = Len(h)
  OBVIOUS
<1>2. n \in Nat /\ n >= 1 /\ n <= k
  BY <1>1
<1>3. PICK b : b = SubSeq(h, n, k)
  OBVIOUS
<1>4. /\ b \in Seq(Messages) /\ Len(b) = k - n + 1
      /\ \A i \in 1..(k - n + 1) : b[i] = h[n + i - 1]
  BY <1>1, <1>2, <1>3
<1>. QED  BY <1>1, <1>3, <1>4

LEMMA PrefixIs ==
    ASSUME NEW c \in Seq(Messages), NEW n \in 0..Len(c)
    PROVE  /\ SubSeq(c, 1, n) \in Seq(Messages) /\ Len(SubSeq(c, 1, n)) = n
           /\ \A i \in 1..n : SubSeq(c, 1, n)[i] = c[i]
<1>1. PICK b : b = SubSeq(c, 1, n)
  OBVIOUS
<1>2. n \in Nat /\ n <= Len(c)
  OBVIOUS
<1>3. b \in Seq(Messages) /\ Len(b) = n
  BY <1>1, <1>2
<1>4. \A i \in 1..n : b[i] = c[i]
  BY <1>1, <1>2
<1>. QED  BY <1>1, <1>3, <1>4

\* A message is in a sequence, whether or not its channels are rendered.
Held(m, s) == \E p \in 1..Len(s) : Same(m, s[p])

LEMMA HeldConcat ==
    ASSUME NEW a \in Seq(Messages), NEW b \in Seq(Messages), NEW m, Held(m, a) \/ Held(m, b)
    PROVE  Held(m, a \o b)
<1>1. PICK u : u = a \o b
  OBVIOUS
<1>2. PICK n, k \in Nat : n = Len(a) /\ k = Len(b)
  OBVIOUS
<1>3. /\ Len(u) = n + k
      /\ \A i \in 1..n : u[i] = a[i]
      /\ \A i \in 1..k : u[n + i] = b[i]
  BY <1>1, <1>2, ConcatIs
<1>4. CASE Held(m, a)
  <2>1. PICK p \in 1..n : Same(m, a[p])
    BY <1>2, <1>4 DEF Held
  <2>2. p \in 1..(n + k) /\ u[p] = a[p]
    BY <1>3
  <2>3. Held(m, u)
    BY <1>3, <2>1, <2>2 DEF Held
  <2>. QED  BY <1>1, <2>3
<1>5. CASE Held(m, b)
  <2>1. PICK p \in 1..k : Same(m, b[p])
    BY <1>2, <1>5 DEF Held
  <2>2. n + p \in 1..(n + k) /\ u[n + p] = b[p]
    BY <1>3
  <2>3. Held(m, u)
    BY <1>3, <2>1, <2>2 DEF Held
  <2>. QED  BY <1>1, <2>3
<1>. QED  BY <1>4, <1>5

\* Front, or nothing, is taken away.
LEMMA ShrinksTo ==
    ASSUME NEW h \in Seq(Messages), NEW g \in {h, Front(h)}
    PROVE  /\ g \in Seq(Messages) /\ Len(g) \in Nat /\ Len(g) <= Len(h)
           /\ \A i \in 1..Len(g) : i \in 1..Len(h) /\ g[i] = h[i]
<1>1. PICK j \in Nat : j = Len(h)
  OBVIOUS
<1>2. CASE g = h
  BY <1>2
<1>3. CASE h = <<>>
  <2>1. Front(h) = <<>>
    BY <1>3 DEF Front
  <2>2. g = <<>>
    BY <1>3, <2>1
  <2>. QED  BY <1>3, <2>2
<1>4. CASE h # <<>> /\ g = Front(h)
  <2>1. g \in Seq(Messages) /\ Len(g) = j - 1 /\ \A i \in 1..(j - 1) : g[i] = h[i]
    BY <1>1, <1>4, FrontIs
  <2>2. j > 0
    BY <1>1, <1>4
  <2>3. Len(g) \in Nat /\ Len(g) <= j
    BY <2>1, <2>2
  <2>4. \A i \in 1..Len(g) : i \in 1..j /\ g[i] = h[i]
    BY <2>1, <2>2
  <2>. QED  BY <1>1, <2>1, <2>3, <2>4
<1>. QED  BY <1>2, <1>3, <1>4

\* Front, or nothing, is taken out of the history; the turn may end with it.
LEMMA InStepShrinks ==
    ASSUME NEW h \in Seq(Messages), NEW s \in Seq(Messages), NEW n, NEW d \in BOOLEAN,
           NEW e \in BOOLEAN, d => e, InStep(h, s, n, d), NEW g \in {h, Front(h)}
    PROVE  InStep(g, s, n, e)
<1>0. /\ InOrder(h) /\ InOrder(s)
      /\ \A i \in DOMAIN h : h[i].at[1] > 0 /\ Begun(h[i], n, d)
      /\ \A p \in DOMAIN s : Begun(s[p], n, d)
      /\ \A i \in DOMAIN h : \E p \in DOMAIN s : Same(h[i], s[p])
  BY Zenon DEF InStep
<1>1. /\ InOrder(h) /\ InOrder(s)
      /\ \A i \in 1..Len(h) : h[i].at[1] > 0 /\ Begun(h[i], n, d)
      /\ \A p \in 1..Len(s) : Begun(s[p], n, d)
      /\ \A i \in 1..Len(h) : \E p \in 1..Len(s) : Same(h[i], s[p])
  BY SMTT(30), <1>0
<1>2. /\ g \in Seq(Messages) /\ Len(g) <= Len(h) /\ Len(g) \in Nat /\ Len(h) \in Nat
      /\ \A i \in 1..Len(g) : i \in 1..Len(h) /\ g[i] = h[i]
  BY ShrinksTo
<1>3. InOrder(g)
  <2>1. 0 \in Nat /\ 0 + Len(g) <= Len(h) /\ \A i \in 1..Len(g) : g[i] = h[0 + i]
    BY <1>2
  <2>. QED  BY <1>1, <1>2, <2>1, InOrderPart
<1>4. \A i \in 1..Len(g) : i \in 1..Len(h)
  BY <1>2
<1>5. \A i \in 1..Len(g) : g[i].at[1] > 0 /\ Begun(g[i], n, e)
  BY <1>1, <1>2, <1>4 DEF Begun
<1>6. \A p \in 1..Len(s) : Begun(s[p], n, e)
  BY <1>1 DEF Begun
<1>7. \A i \in 1..Len(g) : \E p \in 1..Len(s) : Same(g[i], s[p])
  BY <1>1, <1>2, <1>4
<1>8. DOMAIN g = 1..Len(g) /\ DOMAIN s = 1..Len(s)
  BY <1>2
<1>. QED  BY <1>1, <1>3, <1>5, <1>6, <1>7, <1>8 DEF InStep

\* The last message of a turn comes after everything.
LEMMA ReplyIsLast ==
    ASSUME NEW s \in Seq(Messages), NEW m \in Messages, NEW n \in Nat, n > 0,
           m.at = <<n, 0>>, InOrder(s), \A p \in DOMAIN s : Begun(s[p], n, FALSE)
    PROVE  /\ InOrder(Append(s, m)) /\ Append(s, m) \in Seq(Messages)
           /\ Len(Append(s, m)) = Len(s) + 1 /\ Append(s, m)[Len(s) + 1] = m
           /\ \A p \in 1..Len(s) : Append(s, m)[p] = s[p] /\ Before(s[p].at, m.at)
           /\ \A p \in DOMAIN Append(s, m) : Begun(Append(s, m)[p], n, TRUE)
<1>0. PICK k \in Nat : k = Len(s)
  OBVIOUS
<1>1. PICK u : k = Len(s) /\ u = Append(s, m)
  BY <1>0
<1>2. /\ u \in Seq(Messages) /\ Len(u) = k + 1 /\ u[k + 1] = m
      /\ \A i \in 1..k : u[i] = s[i]
  BY <1>1
<1>3. \A p \in 1..k : Before(s[p].at, m.at)
  <2>1. \A p \in 1..k : Begun(s[p], n, FALSE)
    <3>1. DOMAIN s = 1..k
      BY <1>1
    <3>. QED  BY <3>1, Zenon
  <2>2. \A p \in 1..k : s[p].at[1] < n \/ (s[p].at[1] = n /\ s[p].at[2] # 0)
    BY <2>1 DEF Begun
  <2>3. m.at[1] = n /\ m.at[2] = 0
    OBVIOUS
  <2>. QED  BY <2>2, <2>3 DEF Before
<1>4. \A p, q \in 1..k : p < q => s[q].at = Preface.at \/ Before(s[p].at, s[q].at)
  BY <1>1, InOrderIs
<1>5. ASSUME NEW p \in 1..(k + 1), NEW q \in 1..(k + 1), p < q
      PROVE  u[q].at = Preface.at \/ Before(u[p].at, u[q].at)
  <2>1. p \in 1..k /\ (q \in 1..k \/ q = k + 1)
    BY <1>5
  <2>2. CASE q \in 1..k
    BY <1>2, <1>4, <1>5, <2>1, <2>2
  <2>3. CASE q = k + 1
    BY <1>2, <1>3, <2>1, <2>3
  <2>. QED  BY <2>1, <2>2, <2>3
<1>6. InOrder(u)
  BY <1>2, <1>5, InOrderIs
<1>7. \A p \in 1..(k + 1) : Begun(u[p], n, TRUE)
  <2>1. \A p \in 1..k : Begun(s[p], n, TRUE)
    <3>1. DOMAIN s = 1..k
      BY <1>1
    <3>2. \A p \in 1..k : Begun(s[p], n, FALSE)
      BY <3>1, Zenon
    <3>. QED  BY <3>2 DEF Begun
  <2>2. Begun(m, n, TRUE)
    <3>1. m.at[1] = n
      OBVIOUS
    <3>. QED  BY <3>1 DEF Begun
  <2>3. \A p \in 1..(k + 1) : p \in 1..k \/ p = k + 1
    OBVIOUS
  <2>. QED  BY <1>2, <2>1, <2>2, <2>3
<1>8. DOMAIN u = 1..(k + 1)
  BY <1>2
<1>9. \A p \in DOMAIN u : Begun(u[p], n, TRUE)
  BY <1>7, <1>8, Zenon
<1>10. /\ \A p \in 1..Len(s) : u[p] = s[p] /\ Before(s[p].at, m.at)
       /\ Len(u) = Len(s) + 1 /\ u[Len(s) + 1] = m
  BY <1>1, <1>2, <1>3
<1>. QED  BY <1>1, <1>2, <1>6, <1>9, <1>10

LEMMA InStepReply ==
    ASSUME NEW h \in Seq(Messages), NEW s \in Seq(Messages), NEW n \in Nat, n > 0,
           NEW m \in Messages, NEW a \in Messages, Same(a, m), m.at = <<n, 0>>,
           InStep(h, s, n, FALSE)
    PROVE  InStep(Append(h, a), Append(s, m), n, TRUE)
<1>0. /\ InOrder(h) /\ InOrder(s)
      /\ \A i \in DOMAIN h : h[i].at[1] > 0 /\ Begun(h[i], n, FALSE)
      /\ \A p \in DOMAIN s : Begun(s[p], n, FALSE)
      /\ \A i \in DOMAIN h : \E p \in DOMAIN s : Same(h[i], s[p])
  BY Zenon DEF InStep
<1>1. /\ InOrder(h) /\ InOrder(s)
      /\ \A i \in DOMAIN h : Begun(h[i], n, FALSE)
      /\ \A i \in 1..Len(h) : h[i].at[1] > 0
      /\ \A p \in DOMAIN s : Begun(s[p], n, FALSE)
      /\ \A i \in 1..Len(h) : \E p \in 1..Len(s) : Same(h[i], s[p])
  <2>1. DOMAIN h = 1..Len(h) /\ DOMAIN s = 1..Len(s)
    OBVIOUS
  <2>. QED  BY <1>0, <2>1, Zenon
<1>2. a.at = <<n, 0>> /\ a.at[1] = n
  BY DEF Same
<1>3. PICK g, u : g = Append(h, a) /\ u = Append(s, m)
  OBVIOUS
<1>4. PICK k, l \in Nat : k = Len(h) /\ l = Len(s)
  OBVIOUS
<1>5. /\ InOrder(g) /\ g \in Seq(Messages) /\ Len(g) = k + 1 /\ g[k + 1] = a
      /\ \A i \in 1..k : g[i] = h[i]
      /\ \A i \in DOMAIN g : Begun(g[i], n, TRUE)
  <2>1. /\ InOrder(Append(h, a)) /\ Append(h, a) \in Seq(Messages)
        /\ \A i \in DOMAIN Append(h, a) : Begun(Append(h, a)[i], n, TRUE)
    BY <1>1, <1>2, ReplyIsLast
  <2>2. Len(g) = k + 1 /\ g[k + 1] = a /\ \A i \in 1..k : g[i] = h[i]
    BY <1>3, <1>4
  <2>. QED  BY <1>3, <2>1, <2>2
<1>6. /\ InOrder(u) /\ u \in Seq(Messages) /\ Len(u) = l + 1 /\ u[l + 1] = m
      /\ \A p \in 1..l : u[p] = s[p]
      /\ \A p \in DOMAIN u : Begun(u[p], n, TRUE)
  BY <1>1, <1>3, <1>4, ReplyIsLast
<1>7. ASSUME NEW i \in 1..(k + 1)
      PROVE  g[i].at[1] > 0 /\ \E p \in 1..(l + 1) : Same(g[i], u[p])
  <2>1. CASE i \in 1..k
    <3>1. PICK p \in 1..l : Same(h[i], s[p])
      BY <1>1, <1>4, <2>1
    <3>2. p \in 1..(l + 1) /\ u[p] = s[p] /\ g[i] = h[i] /\ h[i].at[1] > 0
      BY <1>1, <1>4, <1>5, <1>6, <2>1
    <3>. QED  BY <3>1, <3>2
  <2>2. CASE i = k + 1
    <3>1. l + 1 \in 1..(l + 1) /\ Same(g[i], u[l + 1]) /\ g[i].at[1] > 0
      BY <1>2, <1>5, <1>6, <2>2
    <3>. QED  BY <3>1
  <2>. QED  BY <2>1, <2>2
<1>8. DOMAIN g = 1..(k + 1) /\ DOMAIN u = 1..(l + 1)
  BY <1>5, <1>6
<1>9. InStep(g, u, n, TRUE)
  BY <1>5, <1>6, <1>7, <1>8 DEF InStep
<1>. QED  BY <1>3, <1>9

LEMMA InStepPartial ==
    ASSUME NEW h \in Seq(Messages), NEW s \in Seq(Messages), NEW n \in Nat, n > 0,
           NEW m \in Messages, m.at = <<n, 0>>, InStep(h, s, n, FALSE)
    PROVE  InStep(h, Append(s, m), n, TRUE)
<1>1. /\ InOrder(h) /\ InOrder(s)
      /\ \A i \in DOMAIN h : h[i].at[1] > 0 /\ Begun(h[i], n, FALSE)
      /\ \A p \in DOMAIN s : Begun(s[p], n, FALSE)
      /\ \A i \in DOMAIN h : \E p \in 1..Len(s) : Same(h[i], s[p])
  <2>1. DOMAIN s = 1..Len(s)
    OBVIOUS
  <2>. QED  BY <2>1, Zenon DEF InStep
<1>7. PICK l \in Nat : l = Len(s)
  OBVIOUS
<1>2. PICK u : u = Append(s, m) /\ l = Len(s)
  BY <1>7
<1>3. /\ InOrder(u) /\ u \in Seq(Messages) /\ Len(u) = l + 1
      /\ \A p \in 1..l : u[p] = s[p]
      /\ \A p \in DOMAIN u : Begun(u[p], n, TRUE)
  BY <1>1, <1>2, ReplyIsLast
<1>4. \A i \in DOMAIN h : Begun(h[i], n, TRUE)
  BY <1>1 DEF Begun
<1>5. \A i \in DOMAIN h : \E p \in DOMAIN u : Same(h[i], u[p])
  <2>1. \A p \in 1..l : p \in DOMAIN u /\ u[p] = s[p]
    BY <1>3
  <2>. QED  BY <1>1, <1>2, <2>1
<1>6. InStep(h, u, n, TRUE)
  BY <1>1, <1>3, <1>4, <1>5 DEF InStep
<1>. QED  BY <1>2, <1>6

\* More is added to the context and a message taken out of the history.
LEMMA DividesShrinks ==
    ASSUME NEW h \in Seq(Messages), NEW s \in Seq(Messages), NEW t \in Seq(Messages),
           NEW k \in Nat, NEW c \in 0..Len(s), Divides(h, s, k, c), NEW g \in {h, Front(h)},
           \A p \in 1..Len(s) : t[p] = s[p]
    PROVE  Divides(g, t, k, c)
<1>1. \A i \in 1..Len(h) : IF i < k THEN \E p \in 1..c : Same(h[i], s[p])
                           ELSE \A p \in 1..c : Before(s[p].at, h[i].at)
  <2>1. DOMAIN h = 1..Len(h)
    OBVIOUS
  <2>. QED  BY <2>1, Zenon DEF Divides
<1>2. \A p \in 1..c : t[p] = s[p]
  <2>1. \A p \in 1..c : p \in 1..Len(s)
    OBVIOUS
  <2>. QED  BY <2>1
<1>3. \A i \in DOMAIN g : i \in 1..Len(h) /\ g[i] = h[i]
  <2>1. /\ g \in Seq(Messages)
        /\ \A i \in 1..Len(g) : i \in 1..Len(h) /\ g[i] = h[i]
    BY ShrinksTo
  <2>2. DOMAIN g = 1..Len(g)
    BY <2>1
  <2>. QED  BY <2>1, <2>2
<1>. QED  BY <1>1, <1>2, <1>3 DEF Divides

\* A reply comes after all that is before a checkpoint.
LEMMA DividesReply ==
    ASSUME NEW h \in Seq(Messages), NEW s \in Seq(Messages), NEW n \in Nat, n > 0,
           NEW m \in Messages, NEW a \in Messages, Same(a, m), m.at = <<n, 0>>,
           InStep(h, s, n, FALSE), NEW k \in 0..(Len(h) + 1), NEW c \in 0..Len(s),
           Divides(h, s, k, c) \/ (k = Len(h) + 1 /\ c = Len(s))
    PROVE  Divides(Append(h, a), Append(s, m), k, c)
<1>1. PICK g, u : g = Append(h, a) /\ u = Append(s, m)
  OBVIOUS
<1>2. PICK l, j \in Nat : l = Len(h) /\ j = Len(s)
  OBVIOUS
<1>3. g \in Seq(Messages) /\ Len(g) = l + 1 /\ g[l + 1] = a /\ \A i \in 1..l : g[i] = h[i]
  BY <1>1, <1>2
<1>4. \A p \in 1..j : u[p] = s[p]
  BY <1>1, <1>2
<1>5. \A p \in 1..j : Before(s[p].at, a.at)
  <2>1. InOrder(s) /\ \A p \in DOMAIN s : Begun(s[p], n, FALSE)
    BY DEF InStep
  <2>2. a.at = m.at
    BY DEF Same
  <2>. QED  BY <1>2, <2>1, <2>2, ReplyIsLast
<1>6. \A p \in 1..c : p \in 1..j
  BY <1>2
<1>7. \A i \in 1..l : IF i < k THEN \E p \in 1..c : Same(h[i], s[p])
                      ELSE \A p \in 1..c : Before(s[p].at, h[i].at)
  <2>1. CASE Divides(h, s, k, c)
    BY SMTT(30), <1>2, <2>1 DEF Divides
  <2>2. CASE k = Len(h) + 1 /\ c = Len(s)
    <3>1. \A i \in 1..l : i < k
      BY <1>2, <2>2
    <3>2. \A i \in 1..l : \E p \in 1..c : Same(h[i], s[p])
      BY <1>2, <2>2 DEF InStep
    <3>. QED  BY <3>1, <3>2
  <2>. QED  BY <2>1, <2>2
<1>8. ASSUME NEW i \in 1..(l + 1)
      PROVE  IF i < k THEN \E p \in 1..c : Same(g[i], u[p])
             ELSE \A p \in 1..c : Before(u[p].at, g[i].at)
  <2>1. CASE i \in 1..l
    BY <1>3, <1>4, <1>6, <1>7, <2>1
  <2>2. CASE i = l + 1
    <3>1. ~(i < k)
      BY <1>2, <2>2
    <3>. QED  BY <1>3, <1>4, <1>5, <1>6, <2>2, <3>1
  <2>. QED  BY <2>1, <2>2
<1>9. DOMAIN g = 1..(l + 1)
  BY <1>3
<1>10. Divides(g, u, k, c)
  BY <1>8, <1>9 DEF Divides
<1>. QED  BY <1>1, <1>10

\* Sent in the first n turns, and after them.
Early(s, n) == \A p \in 1..Len(s) : s[p].at[1] <= n
Late(s, n) == \A p \in 1..Len(s) : s[p].at = Preface.at \/ s[p].at[1] > n

LEMMA LateFollows ==
    ASSUME NEW a \in Seq(Messages), NEW b \in Seq(Messages), NEW n \in Nat,
           Early(a, n), Late(b, n)
    PROVE  Follow(a, b)
<1>1. \A p \in 1..Len(a) : a[p].at[1] \in Nat /\ a[p].at[1] <= n
  BY AtIs DEF Early
<1>2. \A q \in 1..Len(b) : b[q].at[1] \in Nat /\ (b[q].at = Preface.at \/ b[q].at[1] > n)
  BY AtIs DEF Late
<1>3. ASSUME NEW p \in 1..Len(a), NEW q \in 1..Len(b), b[q].at # Preface.at
      PROVE  Before(a[p].at, b[q].at)
  BY <1>1, <1>2, <1>3 DEF Before
<1>. QED  BY <1>3 DEF Follow

LEMMA FollowConcat ==
    ASSUME NEW a \in Seq(Messages), NEW b \in Seq(Messages), NEW c \in Seq(Messages),
           Follow(a, b), Follow(a, c)
    PROVE  Follow(a, b \o c)
<1>1. PICK u : u = b \o c
  OBVIOUS
<1>2. PICK n, m \in Nat : n = Len(b) /\ m = Len(c)
  OBVIOUS
<1>3. /\ Len(u) = n + m
      /\ \A i \in 1..n : u[i] = b[i]
      /\ \A i \in (n + 1)..(n + m) : u[i] = c[i - n]
  BY <1>1, <1>2, ConcatIs
<1>4. /\ \A p \in 1..Len(a), q \in 1..n : b[q].at = Preface.at \/ Before(a[p].at, b[q].at)
      /\ \A p \in 1..Len(a), q \in 1..m : c[q].at = Preface.at \/ Before(a[p].at, c[q].at)
  BY <1>2 DEF Follow
<1>5. ASSUME NEW p \in 1..Len(a), NEW q \in 1..(n + m)
      PROVE  u[q].at = Preface.at \/ Before(a[p].at, u[q].at)
  <2>1. CASE q <= n
    <3>1. q \in 1..n
      BY <2>1
    <3>. QED  BY <1>3, <1>4, <3>1
  <2>2. CASE q > n
    <3>1. q \in (n + 1)..(n + m) /\ q - n \in 1..m
      BY <2>2
    <3>. QED  BY <1>3, <1>4, <3>1
  <2>. QED  BY <2>1, <2>2
<1>6. Follow(a, u)
  BY <1>3, <1>5 DEF Follow
<1>. QED  BY <1>1, <1>6

LEMMA LateConcat ==
    ASSUME NEW a \in Seq(Messages), NEW b \in Seq(Messages), NEW n, Late(a, n), Late(b, n)
    PROVE  Late(a \o b, n)
<1>1. PICK u : u = a \o b
  OBVIOUS
<1>2. PICK k, m \in Nat : k = Len(a) /\ m = Len(b)
  OBVIOUS
<1>3. /\ Len(u) = k + m
      /\ \A i \in 1..k : u[i] = a[i]
      /\ \A i \in (k + 1)..(k + m) : u[i] = b[i - k]
  BY <1>1, <1>2, ConcatIs
<1>4. ASSUME NEW q \in 1..(k + m)  PROVE u[q].at = Preface.at \/ u[q].at[1] > n
  <2>1. CASE q <= k
    <3>1. q \in 1..k
      BY <2>1
    <3>. QED  BY <1>2, <1>3, <3>1 DEF Late
  <2>2. CASE q > k
    <3>1. q \in (k + 1)..(k + m) /\ q - k \in 1..m
      BY <2>2
    <3>. QED  BY <1>2, <1>3, <3>1 DEF Late
  <2>. QED  BY <2>1, <2>2
<1>5. Late(u, n)
  BY <1>3, <1>4 DEF Late
<1>. QED  BY <1>1, <1>5

\* Every message of a sequence has begun.
AllBegun(s, n) == \A p \in 1..Len(s) : Begun(s[p], n, FALSE)

LEMMA AllBegunConcat ==
    ASSUME NEW a \in Seq(Messages), NEW b \in Seq(Messages), NEW n,
           AllBegun(a, n), AllBegun(b, n)
    PROVE  AllBegun(a \o b, n)
<1>1. PICK u : u = a \o b
  OBVIOUS
<1>2. PICK k, m \in Nat : k = Len(a) /\ m = Len(b)
  OBVIOUS
<1>3. /\ Len(u) = k + m
      /\ \A i \in 1..k : u[i] = a[i]
      /\ \A i \in (k + 1)..(k + m) : u[i] = b[i - k]
  BY <1>1, <1>2, ConcatIs
<1>4. ASSUME NEW q \in 1..(k + m)  PROVE Begun(u[q], n, FALSE)
  <2>1. CASE q <= k
    <3>1. q \in 1..k
      BY <2>1
    <3>. QED  BY <1>2, <1>3, <3>1 DEF AllBegun
  <2>2. CASE q > k
    <3>1. q \in (k + 1)..(k + m) /\ q - k \in 1..m
      BY <2>2
    <3>. QED  BY <1>2, <1>3, <3>1 DEF AllBegun
  <2>3. q <= k \/ q > k
    BY <1>2
  <2>. QED  BY <2>1, <2>2, <2>3, Zenon
<1>5. AllBegun(u, n)
  BY <1>3, <1>4 DEF AllBegun
<1>. QED  BY <1>1, <1>5

LEMMA EarlyHaveBegun ==
    ASSUME NEW s \in Seq(Messages), NEW n \in Nat, Early(s, n)
    PROVE  AllBegun(s, n + 1)
<1>1. \A p \in 1..Len(s) : s[p].at[1] \in Nat /\ s[p].at[1] <= n
  BY AtIs DEF Early
<1>2. \A p \in 1..Len(s) : s[p].at[1] < n + 1
  BY <1>1
<1>. QED  BY <1>2 DEF AllBegun, Begun

\* The messages that are sent, as they are put into the history and as they
\* are rendered.
LEMMA SentAre ==
    ASSUME NEW e \in Seq(Messages), NEW n \in Nat, NEW z \in Seq(Messages), SameKeys(z, e),
           \A i \in 1..Len(e) : e[i].at = <<n + 1, i>>
    PROVE  InOrder(z) /\ Late(z, n) /\ AllBegun(z, n + 1)
<1>1. \A i \in 1..Len(z) : z[i].at[1] = n + 1 /\ z[i].at[2] = i
  BY DEF SameKeys, Same
<1>2. InOrder(z)
  <2>1. ASSUME NEW p \in 1..Len(z), NEW q \in 1..Len(z), p < q
        PROVE  Before(z[p].at, z[q].at)
    <3>1. z[p].at[1] = z[q].at[1] /\ z[p].at[2] # 0 /\ z[p].at[2] < z[q].at[2]
      BY <1>1, <2>1
    <3>. QED  BY <3>1 DEF Before
  <2>. QED  BY <2>1, InOrderIs
<1>3. Late(z, n)
  BY SMTT(30), <1>1 DEF Late
<1>4. AllBegun(z, n + 1)
  <2>1. ASSUME NEW i \in 1..Len(z)  PROVE Begun(z[i], n + 1, FALSE)
    <3>1. z[i].at[1] = n + 1 /\ z[i].at[2] # 0
      BY <1>1
    <3>. QED  BY <3>1 DEF Begun
  <2>. QED  BY <2>1 DEF AllBegun
<1>. QED  BY <1>2, <1>3, <1>4

\* What the session is given with the messages that are sent: the context x
\* that is left, what is prefilled again of the history, r, the preface or
\* nothing, f, and the messages.
LEMMA SendInStep ==
    ASSUME NEW h \in Seq(Messages), NEW e \in Seq(Messages), NEW n \in Nat,
           NEW x \in Seq(Messages), NEW r \in Seq(Messages), NEW f \in {<<>>, <<Preface>>},
           \A i \in 1..Len(e) : e[i].at = <<n + 1, i>>,
           InOrder(h), Early(h, n), \A i \in 1..Len(h) : h[i].at[1] > 0,
           InOrder(x), Early(x, n), InOrder(r), Early(r, n), Follow(x, r),
           \A i \in 1..Len(h) : Held(h[i], x) \/ Held(h[i], r)
    PROVE  InStep(h \o e, x \o (r \o (f \o Rendered(e))), n + 1, FALSE)
<1>1. PICK z : z = Rendered(e)
  OBVIOUS
<1>2. z \in Seq(Messages) /\ SameKeys(z, e)
  BY <1>1, RenderedIs, SameKeysOfRendered
<1>3. InOrder(z) /\ Late(z, n) /\ AllBegun(z, n + 1)
  BY <1>2, SentAre
<1>4. InOrder(e) /\ Late(e, n) /\ AllBegun(e, n + 1)
  BY SentAre, SameKeysRefl
<1>5. f \in Seq(Messages) /\ InOrder(f) /\ Late(f, n) /\ AllBegun(f, n + 1) /\ Early(f, 0)
  <2>1. Preface \in Messages /\ Preface.at = <<0, 0>>
    BY PrefaceIs
  <2>2. CASE f = <<>>
    <3>1. f \in Seq(Messages)
      BY <2>2
    <3>2. Len(f) = 0
      BY <2>2
    <3>3. \A p \in 1..Len(f) : FALSE
      BY <3>2
    <3>4. InOrder(f)
      BY <3>1, <3>3, InOrderIs
    <3>. QED  BY <3>1, <3>3, <3>4 DEF Late, AllBegun, Early
  <2>3. CASE f = <<Preface>>
    <3>1. f \in Seq(Messages) /\ Len(f) = 1 /\ f[1] = Preface
      BY <2>1, <2>3
    <3>2. \A p \in 1..Len(f) : f[p].at = Preface.at /\ f[p].at[1] = 0
      BY <2>1, <3>1
    <3>3. 0 < n + 1
      OBVIOUS
    <3>4. InOrder(f)
      BY <3>1, <3>2, InOrderIs
    <3>5. Late(f, n) /\ Early(f, 0)
      BY <3>2 DEF Late, Early
    <3>6. AllBegun(f, n + 1)
      BY <3>2, <3>3 DEF AllBegun, Begun
    <3>. QED  BY <3>1, <3>4, <3>5, <3>6
  <2>4. f = <<>> \/ f = <<Preface>>
    OBVIOUS
  <2>. QED  BY <2>2, <2>3, <2>4, Zenon
<1>6. PICK y : y = f \o z
  OBVIOUS
<1>7. y \in Seq(Messages) /\ InOrder(y) /\ Late(y, n) /\ AllBegun(y, n + 1)
  <2>1. Late(z, 0)
    <3>1. \A p \in 1..Len(z) : z[p].at[1] \in Nat
      BY <1>2, AtIs
    <3>. QED  BY <1>3, <3>1 DEF Late
  <2>2. Follow(f, z)
    BY <1>2, <1>5, <2>1, LateFollows
  <2>. QED  BY <1>2, <1>3, <1>5, <1>6, <2>2, InOrderConcat, LateConcat, AllBegunConcat
<1>8. PICK w : w = r \o y
  OBVIOUS
<1>9. w \in Seq(Messages) /\ InOrder(w) /\ AllBegun(w, n + 1) /\ Follow(x, w)
  <2>1. Follow(r, y) /\ Follow(x, y)
    BY <1>7, LateFollows
  <2>2. AllBegun(r, n + 1)
    BY EarlyHaveBegun
  <2>. QED  BY <1>7, <1>8, <2>1, <2>2, InOrderConcat, AllBegunConcat, FollowConcat
<1>10. PICK s : s = x \o w
  OBVIOUS
<1>11. s \in Seq(Messages) /\ InOrder(s) /\ AllBegun(s, n + 1)
  <2>1. AllBegun(x, n + 1)
    BY EarlyHaveBegun
  <2>. QED  BY <1>9, <1>10, <2>1, InOrderConcat, AllBegunConcat
<1>12. PICK g : g = h \o e
  OBVIOUS
<1>13. g \in Seq(Messages) /\ InOrder(g) /\ AllBegun(g, n + 1)
  <2>1. Follow(h, e)
    BY <1>4, LateFollows
  <2>2. AllBegun(h, n + 1)
    BY EarlyHaveBegun
  <2>. QED  BY <1>4, <1>12, <2>1, <2>2, InOrderConcat, AllBegunConcat
<1>14. ASSUME NEW i \in 1..Len(g)  PROVE g[i].at[1] > 0 /\ Held(g[i], s)
  <2>1. PICK k, m \in Nat : k = Len(h) /\ m = Len(e)
    OBVIOUS
  <2>2. /\ Len(g) = k + m
        /\ \A j \in 1..k : g[j] = h[j]
        /\ \A j \in (k + 1)..(k + m) : g[j] = e[j - k]
    BY <1>12, <2>1, ConcatIs
  <2>3. CASE i <= k
    <3>1. i \in 1..k /\ g[i] = h[i]
      BY <2>2, <2>3
    <3>2. h[i].at[1] > 0 /\ (Held(h[i], x) \/ Held(h[i], r))
      BY <2>1, <3>1
    <3>3. Held(h[i], r) => Held(h[i], w)
      BY <1>7, <1>8, HeldConcat
    <3>4. Held(h[i], s)
      BY <1>9, <1>10, <3>2, <3>3, HeldConcat
    <3>. QED  BY <3>1, <3>2, <3>4
  <2>4. CASE i > k
    <3>1. i - k \in 1..m /\ g[i] = e[i - k]
      BY <2>2, <2>4
    <3>2. e[i - k].at[1] > 0
      <4>1. e[i - k].at[1] = n + 1
        BY <2>1, <3>1
      <4>. QED  BY <4>1
    <3>3. Held(e[i - k], z)
      <4>1. Len(z) = m /\ Same(z[i - k], e[i - k])
        BY <1>2, <2>1, <3>1 DEF SameKeys
      <4>. QED  BY <3>1, <4>1 DEF Held, Same
    <3>4. Held(e[i - k], y)
      BY <1>2, <1>5, <1>6, <3>3, HeldConcat
    <3>5. Held(e[i - k], w)
      BY <1>7, <1>8, <3>4, HeldConcat
    <3>6. Held(e[i - k], s)
      BY <1>9, <1>10, <3>5, HeldConcat
    <3>. QED  BY <3>1, <3>2, <3>6
  <2>. QED  BY <2>2, <2>3, <2>4
<1>15. DOMAIN g = 1..Len(g) /\ DOMAIN s = 1..Len(s)
  BY <1>11, <1>13
<1>16. InStep(g, s, n + 1, FALSE)
  <2>1. \A i \in DOMAIN g : g[i].at[1] > 0 /\ Begun(g[i], n + 1, FALSE)
    BY <1>13, <1>14, <1>15 DEF AllBegun
  <2>2. \A p \in DOMAIN s : Begun(s[p], n + 1, FALSE)
    BY <1>11, <1>15 DEF AllBegun
  <2>3. \A i \in DOMAIN g : \E p \in DOMAIN s : Same(g[i], s[p])
    BY <1>14, <1>15 DEF Held
  <2>. QED  BY <1>11, <1>13, <2>1, <2>2, <2>3 DEF InStep
<1>. QED  BY <1>1, <1>6, <1>8, <1>10, <1>12, <1>16

\* The messages that are sent come after what is before a checkpoint.
LEMMA DividesSend ==
    ASSUME NEW h \in Seq(Messages), NEW s \in Seq(Messages), NEW e \in Seq(Messages),
           NEW n \in Nat, NEW k \in 0..Len(h), NEW c \in 0..Len(s), Divides(h, s, k, c),
           Early(s, n), \A i \in 1..Len(e) : e[i].at = <<n + 1, i>>
    PROVE  Divides(h \o e, s, k, c)
<1>1. PICK g : g = h \o e
  OBVIOUS
<1>2. PICK l, m \in Nat : l = Len(h) /\ m = Len(e)
  OBVIOUS
<1>3. /\ g \in Seq(Messages) /\ Len(g) = l + m
      /\ \A j \in 1..l : g[j] = h[j]
      /\ \A j \in (l + 1)..(l + m) : g[j] = e[j - l]
  BY <1>1, <1>2, ConcatIs
<1>4. \A i \in 1..l : IF i < k THEN \E p \in 1..c : Same(h[i], s[p])
                      ELSE \A p \in 1..c : Before(s[p].at, h[i].at)
  <2>1. DOMAIN h = 1..l
    BY <1>2
  <2>. QED  BY <2>1, Zenon DEF Divides
<1>5. \A p \in 1..c : s[p].at[1] \in Nat /\ s[p].at[1] <= n
  <2>1. \A p \in 1..c : p \in 1..Len(s)
    OBVIOUS
  <2>. QED  BY <2>1, AtIs DEF Early
<1>6. ASSUME NEW i \in 1..(l + m)
      PROVE  IF i < k THEN \E p \in 1..c : Same(g[i], s[p])
             ELSE \A p \in 1..c : Before(s[p].at, g[i].at)
  <2>1. CASE i <= l
    <3>1. i \in 1..l
      BY <2>1
    <3>. QED  BY <1>3, <1>4, <3>1
  <2>2. CASE i > l
    <3>1. ~(i < k) /\ i - l \in 1..m /\ i \in (l + 1)..(l + m)
      BY <1>2, <2>2
    <3>2. g[i].at[1] = n + 1
      <4>1. g[i] = e[i - l]
        BY <1>3, <3>1
      <4>2. e[i - l].at = <<n + 1, i - l>>
        BY <1>2, <3>1
      <4>. QED  BY <4>1, <4>2
    <3>3. \A p \in 1..c : Before(s[p].at, g[i].at)
      BY <1>5, <3>2 DEF Before
    <3>. QED  BY <3>1, <3>3
  <2>3. i <= l \/ i > l
    BY <1>2
  <2>. QED  BY <2>1, <2>2, <2>3, Zenon
<1>7. DOMAIN g = 1..(l + m)
  BY <1>3
<1>8. Divides(g, s, k, c)
  BY <1>6, <1>7 DEF Divides
<1>. QED  BY <1>1, <1>8

\* What the index says about rewinding: the context that is left and what is
\* prefilled again hold the history, in order.
LEMMA RewindInStep ==
    ASSUME NEW h \in Seq(Messages), NEW s \in Seq(Messages), NEW n \in Nat,
           NEW k \in 1..Len(h), NEW c \in 0..Len(s), InStep(h, s, n, TRUE), Divides(h, s, k, c),
           NEW x, NEW r, x = SubSeq(s, 1, c), r = Rendered(SubSeq(h, k, Len(h)))
    PROVE  /\ x \in Seq(Messages) /\ InOrder(x) /\ Early(x, n)
           /\ r \in Seq(Messages) /\ InOrder(r) /\ Early(r, n)
           /\ Follow(x, r) /\ \A i \in 1..Len(h) : Held(h[i], x) \/ Held(h[i], r)
<1>1. PICK l \in Nat : l = Len(h)
  OBVIOUS
<1>2. PICK b : b = SubSeq(h, k, l)
  OBVIOUS
<1>3. /\ b \in Seq(Messages) /\ Len(b) = l - k + 1
      /\ \A i \in 1..(l - k + 1) : b[i] = h[k + i - 1]
  BY <1>1, <1>2, SuffixIs
<1>4. x \in Seq(Messages) /\ Len(x) = c /\ \A i \in 1..c : x[i] = s[i]
  BY PrefixIs
<1>5. /\ InOrder(h) /\ InOrder(s)
      /\ \A i \in 1..l : h[i] \in Messages /\ Begun(h[i], n, TRUE)
      /\ \A p \in 1..Len(s) : s[p] \in Messages /\ Begun(s[p], n, TRUE)
  <2>1. DOMAIN h = 1..l /\ DOMAIN s = 1..Len(s)
    BY <1>1
  <2>2. /\ \A i \in 1..l : h[i] \in Messages
        /\ \A p \in 1..Len(s) : s[p] \in Messages
    BY <1>1
  <2>. QED  BY <2>1, <2>2, Zenon DEF InStep
<1>6. /\ \A i \in 1..l : h[i].at[1] <= n
      /\ \A p \in 1..Len(s) : s[p].at[1] <= n
  <2>1. \A i \in 1..l : h[i].at[1] <= n
    <3>1. \A i \in 1..l : h[i].at[1] \in Nat /\ Begun(h[i], n, TRUE)
      BY <1>5, AtIs
    <3>. QED  BY SMTT(30), <3>1 DEF Begun
  <2>2. \A p \in 1..Len(s) : s[p].at[1] <= n
    <3>1. \A p \in 1..Len(s) : s[p].at[1] \in Nat /\ Begun(s[p], n, TRUE)
      BY <1>5, AtIs
    <3>. QED  BY SMTT(30), <3>1 DEF Begun
  <2>. QED  BY <2>1, <2>2
<1>7. c \in Nat /\ c <= Len(s) /\ \A p \in 1..c : p \in 1..Len(s)
  OBVIOUS
<1>8. InOrder(x) /\ Early(x, n)
  <2>1. 0 \in Nat /\ 0 + Len(x) <= Len(s) /\ \A i \in 1..Len(x) : x[i] = s[0 + i]
    BY <1>4, <1>7
  <2>2. InOrder(x)
    BY <1>4, <1>5, <2>1, InOrderPart
  <2>. QED  BY <1>4, <1>6, <1>7, <2>2 DEF Early
<1>9. InOrder(b)
  <2>1. k - 1 \in Nat /\ (k - 1) + Len(b) <= l
    BY <1>1, <1>3
  <2>2. \A i \in 1..Len(b) : b[i] = h[(k - 1) + i]
    <3>1. \A i \in 1..(l - k + 1) : (k - 1) + i = k + i - 1
      OBVIOUS
    <3>. QED  BY <1>3, <3>1
  <2>. QED  BY <1>1, <1>3, <1>5, <2>1, <2>2, InOrderPart
<1>10. r \in Seq(Messages) /\ SameKeys(r, b) /\ InOrder(r)
  BY <1>1, <1>2, <1>3, <1>9, RenderedIs, SameKeysOfRendered, InOrderSame
<1>11. /\ Len(r) = l - k + 1
       /\ \A i \in 1..(l - k + 1) : r[i].at = h[k + i - 1].at /\ r[i].role = h[k + i - 1].role
  BY <1>3, <1>10 DEF SameKeys, Same
<1>12. \A i \in 1..(l - k + 1) : k + i - 1 \in 1..l
  BY <1>1
<1>13. Early(r, n)
  BY <1>6, <1>11, <1>12 DEF Early
<1>14. \A i \in 1..l : IF i < k THEN \E p \in 1..c : Same(h[i], s[p])
                       ELSE \A p \in 1..c : Before(s[p].at, h[i].at)
  <2>1. DOMAIN h = 1..l
    BY <1>1
  <2>. QED  BY <2>1, Zenon DEF Divides
<1>15. Follow(x, r)
  <2>1. ASSUME NEW p \in 1..c, NEW q \in 1..(l - k + 1)  PROVE Before(x[p].at, r[q].at)
    <3>1. k + q - 1 \in 1..l /\ ~(k + q - 1 < k)
      BY <1>1, <1>12
    <3>2. Before(s[p].at, h[k + q - 1].at)
      BY <1>14, <3>1
    <3>. QED  BY <1>4, <1>11, <3>2
  <2>. QED  BY <1>4, <1>11, <2>1 DEF Follow
<1>16. ASSUME NEW i \in 1..l  PROVE Held(h[i], x) \/ Held(h[i], r)
  <2>1. CASE i < k
    <3>1. PICK p \in 1..c : Same(h[i], s[p])
      BY <1>14, <2>1
    <3>2. p \in 1..Len(x) /\ Same(h[i], x[p])
      BY <1>4, <3>1
    <3>. QED  BY <3>2 DEF Held
  <2>2. CASE ~(i < k)
    <3>1. i - k + 1 \in 1..(l - k + 1) /\ k + (i - k + 1) - 1 = i
      BY <1>1, <2>2
    <3>2. r[i - k + 1].at = h[i].at /\ r[i - k + 1].role = h[i].role
      BY <1>11, <3>1
    <3>3. i - k + 1 \in 1..Len(r) /\ Same(h[i], r[i - k + 1])
      BY <1>11, <3>1, <3>2 DEF Same
    <3>. QED  BY <3>3 DEF Held
  <2>. QED  BY <2>1, <2>2
<1>. QED  BY <1>1, <1>4, <1>8, <1>10, <1>13, <1>15, <1>16

LEMMA SendOrdered ==
    ASSUME TypeOK, CheckpointInv, IndexInv, OrderInv,
           NEW roles \in Batches, NEW sync \in BOOLEAN, NEW pending \in BOOLEAN,
           NEW stage, NEW rewinds, NEW inputs,
           SendStep(roles, sync, pending, stage, rewinds, inputs)
    PROVE  OrderInv'
<1>. SUFFICES ASSUME faults' = 0, conf'.kind = "basic"  PROVE OrderInv'
  BY DEF OrderInv
<1>1. PICK h, c, e, n, k, cp : /\ h = history /\ c = context /\ n = turns /\ k = index
                               /\ cp = checkpoint /\ e = TurnMessages(turns + 1, roles)
  OBVIOUS
<1>2. /\ h \in Seq(Messages) /\ c \in Seq(Messages) /\ n \in Nat /\ k \in Nat
      /\ n + 1 \in Nat
  BY <1>1 DEF TypeOK
<1>3. e \in Seq(Messages) /\ \A i \in 1..Len(e) : e[i].at = <<n + 1, i>>
  <2>1. roles \in Seq(Roles)
    BY BatchIs
  <2>2. PICK u : u = TurnMessages(n + 1, roles)
    OBVIOUS
  <2>3. /\ u \in Seq(Messages) /\ Len(u) = Len(roles)
        /\ \A i \in 1..Len(roles) : u[i].at = <<n + 1, i>>
    BY <1>2, <2>1, <2>2, TurnMessagesAre
  <2>4. u = e
    BY <1>1, <2>2
  <2>. QED  BY <2>3, <2>4
<1>4. /\ stage = "none" /\ faults = 0 /\ conf' = conf /\ conf.kind = "basic"
      /\ turns' = n + 1 /\ Idle
  BY <1>1 DEF SendStep, TypeOK
<1>5. /\ checkpoint' = cp /\ rewinds \in BOOLEAN /\ (rewinds => k > 0)
      /\ context' = IF rewinds THEN SubSeq(c, 1, cp) ELSE c
      /\ index' = IF rewinds THEN 0 ELSE k
      /\ history' = h \o e
      /\ turn'.pc = "prefill" /\ turn'.inputs = inputs
      /\ inputs = (IF rewinds THEN RewoundInputs ELSE <<>>) \o GetSingleTurnText(e)
  BY <1>1, <1>4 DEF SendStep
<1>6. /\ InStep(h, c, n, TRUE) /\ k <= Len(h)
      /\ k > 0 => Divides(h, c, k, cp) /\ cp \in 0..Len(c)
  <2>1. Given = context /\ Idle = TRUE
    BY <1>4 DEF Given, Idle
  <2>2. InStep(history, Given, turns, Idle)
    BY <1>4 DEF OrderInv
  <2>3. InStep(h, c, n, TRUE)
    BY <1>1, <2>1, <2>2
  <2>. QED  BY <1>1, <1>4, <2>3 DEF OrderInv, CheckpointInv, IndexInv
<1>7. PICK f, r, x : /\ f = IF h = <<>> /\ ~conf.onInit THEN <<Preface>> ELSE <<>>
                     /\ r = IF rewinds THEN Rendered(SubSeq(h, k, Len(h))) ELSE <<>>
                     /\ x = IF rewinds THEN SubSeq(c, 1, cp) ELSE c
  OBVIOUS
<1>8. inputs = r \o (f \o Rendered(e)) /\ context' = x
  <2>1. GetSingleTurnText(e) = f \o Rendered(e)
    BY <1>1, <1>7 DEF GetSingleTurnText
  <2>2. RewoundInputs = Rendered(SubSeq(h, k, Len(h)))
    BY <1>1 DEF RewoundInputs
  <2>. QED  BY <1>5, <1>7, <2>1, <2>2
<1>9. /\ InOrder(h) /\ InOrder(c) /\ Early(h, n) /\ Early(c, n)
      /\ \A i \in 1..Len(h) : h[i].at[1] > 0 /\ Held(h[i], c)
  <2>1. DOMAIN h = 1..Len(h) /\ DOMAIN c = 1..Len(c)
    BY <1>2
  <2>2. /\ InOrder(h) /\ InOrder(c)
        /\ \A i \in 1..Len(h) : h[i].at[1] > 0 /\ Begun(h[i], n, TRUE)
        /\ \A p \in 1..Len(c) : Begun(c[p], n, TRUE)
        /\ \A i \in 1..Len(h) : \E p \in 1..Len(c) : Same(h[i], c[p])
    BY <1>6, <2>1, Zenon DEF InStep
  <2>3. ASSUME NEW m \in Messages, Begun(m, n, TRUE)  PROVE m.at[1] <= n
    <3>1. m.at[1] \in Nat /\ n \in Nat /\ (m.at[1] < n \/ m.at[1] = n)
      BY <1>2, <2>3, AtIs DEF Begun
    <3>. QED  BY ONLY <3>1
  <2>4. /\ \A i \in 1..Len(h) : h[i] \in Messages
        /\ \A i \in 1..Len(c) : c[i] \in Messages
    BY <1>2
  <2>5. Early(h, n) /\ Early(c, n)
    BY <2>2, <2>3, <2>4, Zenon DEF Early
  <2>. QED  BY <2>2, <2>5 DEF Held
<1>10. f \in {<<>>, <<Preface>>}
  BY <1>7
<1>11. /\ x \in Seq(Messages) /\ InOrder(x) /\ Early(x, n)
       /\ r \in Seq(Messages) /\ InOrder(r) /\ Early(r, n)
       /\ Follow(x, r) /\ \A i \in 1..Len(h) : Held(h[i], x) \/ Held(h[i], r)
  <2>1. CASE rewinds
    <3>1. k \in 1..Len(h) /\ cp \in 0..Len(c) /\ Divides(h, c, k, cp)
      BY <1>2, <1>5, <1>6, <2>1
    <3>2. x = SubSeq(c, 1, cp) /\ r = Rendered(SubSeq(h, k, Len(h)))
      BY <1>7, <2>1
    <3>. QED  BY <1>2, <1>6, <3>1, <3>2, RewindInStep
  <2>2. CASE ~rewinds
    <3>1. x = c /\ r = <<>>
      BY <1>7, <2>2
    <3>2. r \in Seq(Messages) /\ \A p \in 1..Len(r) : FALSE
      BY <3>1
    <3>3. InOrder(r) /\ Early(r, n) /\ Follow(x, r)
      BY <3>2, InOrderIs DEF Early, Follow
    <3>. QED  BY <1>2, <1>9, <3>1, <3>2, <3>3
  <2>. QED  BY <2>1, <2>2
<1>12. InStep(h \o e, x \o (r \o (f \o Rendered(e))), n + 1, FALSE)
  BY <1>2, <1>3, <1>9, <1>10, <1>11, SendInStep
<1>13. InStep(history', Given', turns', Idle')
  <2>1. Given' = x \o (r \o (f \o Rendered(e)))
    BY <1>5, <1>8 DEF Given
  <2>2. Idle' = FALSE
    BY <1>5 DEF Idle
  <2>. QED  BY <1>4, <1>5, <1>12, <2>1, <2>2
<1>14. ASSUME index' > 0  PROVE Divides(history', context', index', checkpoint')
  <2>1. ~rewinds /\ index' = k /\ k > 0 /\ context' = c
    BY <1>5, <1>14
  <2>2. k \in 0..Len(h) /\ cp \in 0..Len(c) /\ Divides(h, c, k, cp)
    BY <1>2, <1>6, <2>1
  <2>3. Divides(h \o e, c, k, cp)
    BY <1>2, <1>3, <1>9, <2>2, DividesSend
  <2>. QED  BY <1>5, <2>1, <2>3
<1>. QED  BY <1>13, <1>14 DEF OrderInv

\* The session goes on with what it has been given; a message may be taken out
\* of the history.
LEMMA OrderKept ==
    ASSUME TypeOK, CheckpointInv, OrderInv, TypeOK',
           faults' = faults, turns' = turns, conf' = conf, index' = index,
           index > 0 => checkpoint' = checkpoint,
           history' \in {history, Front(history)}, Idle => Idle',
           Given' = Given, \A p \in 1..Len(context) : context'[p] = context[p]
    PROVE  OrderInv'
<1>. SUFFICES ASSUME faults' = 0, conf'.kind = "basic"  PROVE OrderInv'
  BY DEF OrderInv
<1>1. PICK h, s, n, g, c, d : /\ h = history /\ s = Given /\ n = turns /\ g = history'
                              /\ c = context /\ d = context'
  OBVIOUS
<1>2. h \in Seq(Messages) /\ c \in Seq(Messages) /\ d \in Seq(Messages) /\ g \in {h, Front(h)}
  BY <1>1 DEF TypeOK
<1>3. s \in Seq(Messages)
  BY <1>1 DEF Given, TypeOK, TurnRecord
<1>4. PICK a, b \in BOOLEAN : a = Idle /\ b = Idle'
  BY Zenon DEF Idle
<1>5. InStep(h, s, n, a) /\ (a => b)
  BY <1>1, <1>4 DEF OrderInv
<1>6. InStep(g, s, n, b)
  BY <1>2, <1>3, <1>5, InStepShrinks
<1>7. ASSUME index' > 0  PROVE Divides(history', context', index', checkpoint')
  <2>1. PICK k, cp : k = index /\ cp = checkpoint
    OBVIOUS
  <2>2. k \in Nat /\ cp \in 0..Len(c) /\ Divides(h, c, k, cp)
    BY <1>1, <1>7, <2>1 DEF TypeOK, CheckpointInv, OrderInv
  <2>3. \A p \in 1..Len(c) : d[p] = c[p]
    BY <1>1
  <2>4. Divides(g, d, k, cp)
    BY <1>2, <2>2, <2>3, DividesShrinks
  <2>. QED  BY <1>1, <1>7, <2>1, <2>4
<1>. QED  BY <1>1, <1>4, <1>6, <1>7 DEF OrderInv

\* The end of a decode.
LEMMA DecodeOrdered ==
    ASSUME TypeOK, PushedInv, CheckpointInv, IndexInv, OrderInv, NEW m, DecodeStep(m)
    PROVE  OrderInv'
<1>. SUFFICES ASSUME faults' = 0, conf'.kind = "basic"  PROVE OrderInv'
  BY DEF OrderInv
<1>1. PICK h, c, n, k, cp, a : /\ h = history /\ c = context /\ n = turns /\ k = index
                               /\ cp = checkpoint /\ a = Answer
  OBVIOUS
<1>2. /\ turn.pc = "decode" /\ conf' = conf /\ conf.kind = "basic" /\ checkpoint' = cp
      /\ turns' = n /\ m \in Messages /\ m.at = <<n, 0>> /\ context' = Append(c, m)
  BY <1>1 DEF DecodeStep
<1>3. /\ h \in Seq(Messages) /\ c \in Seq(Messages) /\ n \in Nat /\ k \in Nat /\ n > 0
      /\ faults \in Nat
  BY <1>1, <1>2 DEF TypeOK, PushedInv, Idle
<1>4. faults = 0 /\ turn'.pc = "idle"
  BY <1>2, <1>3 DEF DecodeStep, TurnEnds, TurnAnswers, TurnMoves, TurnGoes
<1>5. InStep(h, c, n, FALSE) /\ k <= Len(h) /\ (k > 0 => Divides(h, c, k, cp) /\ cp \in 0..Len(c))
  <2>1. Given = context /\ Idle = FALSE
    BY <1>2 DEF Given, Idle
  <2>2. InStep(history, Given, turns, Idle)
    BY <1>2, <1>4 DEF OrderInv
  <2>3. InStep(h, c, n, FALSE)
    BY <1>1, <2>1, <2>2
  <2>. QED  BY <1>1, <1>2, <1>4, <2>3 DEF OrderInv, CheckpointInv, IndexInv
<1>6. Given' = Append(c, m) /\ Idle' = TRUE
  BY <1>2, <1>4 DEF Given, Idle
<1>7. CASE /\ history' = Append(h, a) /\ MarkChannels /\ m = Spoken
  <2>1. a \in Messages /\ Same(a, m)
    BY <1>1, <1>7, AnswerIs DEF TypeOK, Same
  <2>2. InStep(Append(h, a), Append(c, m), n, TRUE)
    BY <1>2, <1>3, <1>5, <2>1, InStepReply
  <2>3. ASSUME index' > 0  PROVE Divides(Append(h, a), Append(c, m), index', cp)
    <3>1. \/ index' = k /\ k \in 0..(Len(h) + 1) /\ cp \in 0..Len(c) /\ Divides(h, c, k, cp)
          \/ index' = Len(h) + 1 /\ cp = Len(c)
      <4>1. CASE index' = index
        <5>1. index' = k /\ k > 0 /\ k \in 0..(Len(h) + 1)
          BY <1>1, <1>3, <1>5, <2>3, <4>1
        <5>. QED  BY <1>5, <5>1
      <4>2. CASE conf.filter /\ supported /\ index = 0 /\ index' = Len(history) + 1
        <5>1. checkpoint = Len(context)
          BY <1>2, <4>2 DEF CheckpointInv
        <5>. QED  BY <1>1, <4>2, <5>1
      <4>. QED  BY <1>7, <4>1, <4>2 DEF MarkChannels
    <3>2. PICK j : j = index'
      OBVIOUS
    <3>3. CASE j = k /\ k \in 0..(Len(h) + 1) /\ cp \in 0..Len(c) /\ Divides(h, c, k, cp)
      <4>1. Divides(Append(h, a), Append(c, m), k, cp)
        BY <1>2, <1>3, <1>5, <2>1, <3>3, DividesReply
      <4>. QED  BY <3>2, <3>3, <4>1
    <3>4. CASE j = Len(h) + 1 /\ cp = Len(c)
      <4>1. j \in 0..(Len(h) + 1) /\ cp \in 0..Len(c)
        BY <1>3, <3>4
      <4>2. Divides(Append(h, a), Append(c, m), j, cp)
        BY <1>2, <1>3, <1>5, <2>1, <3>4, <4>1, DividesReply
      <4>. QED  BY <3>2, <4>2
    <3>. QED  BY <3>1, <3>2, <3>3, <3>4
  <2>. QED  BY <1>2, <1>6, <1>7, <2>2, <2>3 DEF OrderInv
<1>8. CASE index' = k /\ history' \in {h, Front(h)}
  <2>1. InStep(h, Append(c, m), n, TRUE)
    BY <1>2, <1>3, <1>5, InStepPartial
  <2>2. PICK g, s : g = history' /\ s = Append(c, m)
    OBVIOUS
  <2>3. g \in {h, Front(h)} /\ s \in Seq(Messages) /\ \A p \in 1..Len(c) : s[p] = c[p]
    BY <1>2, <1>3, <1>8, <2>2
  <2>4. InStep(g, s, n, TRUE)
    BY <1>3, <2>1, <2>2, <2>3, InStepShrinks
  <2>5. ASSUME k > 0  PROVE Divides(g, s, k, cp)
    BY <1>3, <1>5, <2>3, <2>5, DividesShrinks
  <2>. QED  BY <1>2, <1>6, <1>8, <2>2, <2>4, <2>5 DEF OrderInv
<1>. QED  BY <1>1, <1>2, <1>3, <1>4, <1>7, <1>8 DEF DecodeStep

LEMMA OrderStep ==
    ASSUME TypeOK, PushedInv, CheckpointInv, IndexInv, OrderInv, [Next]_vars, TypeOK'
    PROVE  OrderInv'
<1>1. ASSUME NEW roles \in Batches, NEW sync \in BOOLEAN, NEW pending \in BOOLEAN,
             NEW stage, NEW rewinds, NEW inputs,
             SendStep(roles, sync, pending, stage, rewinds, inputs)
      PROVE  OrderInv'
  BY <1>1, SendOrdered
<1>2. ASSUME PrefillStep  PROVE OrderInv'
  <2>. SUFFICES ASSUME faults' = 0, conf'.kind = "basic"  PROVE OrderInv'
    BY DEF OrderInv
  <2>1. /\ turn.pc = "prefill" /\ faults' = faults /\ conf' = conf /\ index' = index
        /\ checkpoint' = checkpoint /\ turns' = turns /\ conf.kind = "basic"
    BY <1>2 DEF PrefillStep, TypeOK
  <2>2. /\ context' = context \o turn.inputs /\ history' \in {history, Front(history)}
        /\ turn'.pc # "prefill"
    <3>1. faults' # faults + 1
      BY <2>1 DEF TypeOK
    <3>. QED  BY <1>2, <2>1, <3>1 DEF PrefillStep, TurnMoves, TurnEnds, TurnGoes
  <2>3. Given' = Given /\ ~Idle
    BY <2>1, <2>2 DEF Given, Idle
  <2>4. \A p \in 1..Len(context) : context'[p] = context[p]
    <3>1. PICK c, i : c = context /\ i = turn.inputs
      OBVIOUS
    <3>2. c \in Seq(Messages) /\ i \in Seq(Messages)
      BY <3>1 DEF TypeOK, TurnRecord
    <3>3. \A p \in 1..Len(c) : (c \o i)[p] = c[p]
      BY <3>2, ConcatIs
    <3>. QED  BY <2>2, <3>1, <3>3
  <2>. QED  BY <2>1, <2>2, <2>3, <2>4, OrderKept
<1>3. ASSUME StartDecodeStep  PROVE OrderInv'
  <2>. SUFFICES ASSUME faults' = 0  PROVE OrderInv'
    BY DEF OrderInv
  <2>1. /\ turn.pc = "prefilled" /\ turn'.pc \in {"idle", "decode"}
        /\ UNCHANGED <<conf, history, context, index, faults, turns>>
    BY <1>3 DEF StartDecodeStep, TurnMoves, TurnEnds, TurnGoes, TypeOK
  <2>2. Given' = Given /\ ~Idle
    BY <2>1 DEF Given, Idle
  <2>3. index > 0 => checkpoint' = checkpoint
    BY <1>3 DEF StartDecodeStep, SaveCheckpoint
  <2>. QED  BY <2>1, <2>2, <2>3, OrderKept
<1>4. ASSUME DroppedStep  PROVE OrderInv'
  <2>1. /\ turn.pc = "dropped" /\ turn'.pc = "idle"
        /\ UNCHANGED <<conf, history, context, index, checkpoint, faults, turns>>
    BY <1>4 DEF DroppedStep, TurnEnds, TurnGoes
  <2>2. Given' = Given /\ ~Idle
    BY <2>1 DEF Given, Idle
  <2>. QED  BY <2>1, <2>2, OrderKept
<1>5. ASSUME QuietStep  PROVE OrderInv'
  <2>1. UNCHANGED <<conf, history, context, turn, turns, faults>>
    BY <1>5 DEF QuietStep
  <2>2. Given' = Given /\ (Idle => Idle')
    BY <2>1 DEF Given, Idle
  <2>3. CASE UNCHANGED <<checkpoint, supported, index>>
    BY <2>1, <2>2, <2>3, OrderKept
  <2>4. CASE conf.kind = "advanced"
    BY <2>1, <2>4 DEF OrderInv
  <2>. QED  BY <1>5, <2>3, <2>4 DEF QuietStep
<1>6. ASSUME NEW m, DecodeStep(m)  PROVE OrderInv'
  BY <1>6, DecodeOrdered
<1>. QED  BY <1>1, <1>2, <1>3, <1>4, <1>5, <1>6, Steps, Zenon

(***************************************************************************)
(* What was said on channels.                                               *)
(***************************************************************************)
LEMMA PlainConcat ==
    ASSUME NEW s \in Seq(Messages), NEW t \in Seq(Messages),
           \A i \in 1..Len(s) : Plain(s[i]), \A i \in 1..Len(t) : Plain(t[i])
    PROVE  \A i \in 1..Len(s \o t) : Plain((s \o t)[i])
<1>1. PICK u : u = s \o t
  OBVIOUS
<1>2. /\ Len(u) = Len(s) + Len(t) /\ Len(s) \in Nat /\ Len(t) \in Nat
      /\ \A i \in 1..Len(s) : u[i] = s[i]
      /\ \A i \in (Len(s) + 1)..(Len(s) + Len(t)) : u[i] = t[i - Len(s)]
  BY <1>1, ConcatIs
<1>3. ASSUME NEW i \in 1..Len(u)  PROVE Plain(u[i])
  <2>1. CASE i <= Len(s)
    BY <1>2, <2>1
  <2>2. CASE i > Len(s)
    <3>1. i - Len(s) \in 1..Len(t) /\ i \in (Len(s) + 1)..(Len(s) + Len(t))
      BY <1>2, <2>2
    <3>. QED  BY <1>2, <3>1
  <2>. QED  BY <1>2, <2>1, <2>2
<1>. QED  BY <1>1, <1>3

\* Nothing of what is rendered has channels.
LEMMA InputsArePlain ==
    ASSUME TypeOK, NEW s \in Seq(Messages)
    PROVE  /\ \A i \in 1..Len(GetSingleTurnText(s)) : Plain(GetSingleTurnText(s)[i])
           /\ index > 0 => \A i \in 1..Len(RewoundInputs) : Plain(RewoundInputs[i])
<1>1. \A t \in Seq(Messages) : \A i \in 1..Len(Rendered(t)) : Plain(Rendered(t)[i])
  BY RenderedIs DEF Plain
<1>2. PICK r, f, u : /\ r = Rendered(s) /\ u = GetSingleTurnText(s)
                     /\ f = (IF history = <<>> /\ ~conf.onInit THEN <<Preface>> ELSE <<>>)
  OBVIOUS
<1>3. u = f \o r
  BY <1>2 DEF GetSingleTurnText
<1>4. f \in Seq(Messages) /\ r \in Seq(Messages)
  <2>1. <<>> \in Seq(Messages) /\ <<Preface>> \in Seq(Messages)
    BY PrefaceIs
  <2>2. r \in Seq(Messages)
    BY <1>2, RenderedIs
  <2>. QED  BY <1>2, <2>1, <2>2, Zenon
<1>5. \A i \in 1..Len(f) : Plain(f[i])
  BY <1>2, PrefaceIs DEF Plain
<1>6. \A i \in 1..Len(r) : Plain(r[i])
  BY <1>1, <1>2
<1>7. \A i \in 1..Len(u) : Plain(u[i])
  BY <1>3, <1>4, <1>5, <1>6, PlainConcat
<1>8. ASSUME index > 0  PROVE \A i \in 1..Len(RewoundInputs) : Plain(RewoundInputs[i])
  <2>1. PICK t : t = SubSeq(history, index, Len(history))
    OBVIOUS
  <2>2. t \in Seq(Messages)
    BY <1>8, <2>1 DEF TypeOK
  <2>3. RewoundInputs = Rendered(t)
    BY <2>1 DEF RewoundInputs
  <2>. QED  BY <1>1, <2>2, <2>3
<1>. QED  BY <1>2, <1>7, <1>8

LEMMA SendPlain ==
    ASSUME TypeOK, CheckpointInv, ChannelInv, NEW roles \in Batches, NEW sync, NEW pending,
           NEW stage, NEW rewinds, NEW inputs,
           SendStep(roles, sync, pending, stage, rewinds, inputs)
    PROVE  ChannelInv'
<1>. SUFFICES ASSUME faults' = 0, conf'.kind = "basic", conf'.filter  PROVE ChannelInv'
  BY DEF ChannelInv
<1>1. /\ stage = "none" /\ faults = 0 /\ conf' = conf /\ supported' = supported
      /\ checkpoint' = checkpoint
  BY DEF SendStep, TypeOK
<1>2. PICK c, d, cp, k, j : c = context /\ d = context' /\ cp = checkpoint /\ k = index /\ j = index'
  OBVIOUS
<1>3. /\ c \in Seq(Messages) /\ k \in Nat /\ supported
      /\ \A p \in DOMAIN c : k = 0 \/ p <= cp => Plain(c[p])
      /\ k > 0 => cp \in 0..Len(c)
  BY <1>1, <1>2 DEF TypeOK, ChannelInv, CheckpointInv
<1>4. /\ turn'.pc = "prefill" /\ turn'.roles = roles /\ turn'.inputs = inputs
      /\ d = (IF rewinds THEN SubSeq(c, 1, cp) ELSE c)
      /\ j = (IF rewinds THEN 0 ELSE k)
      /\ rewinds \in BOOLEAN /\ (rewinds => k > 0)
      /\ rewinds = Rewinds(roles)
  BY <1>1, <1>2 DEF SendStep
<1>5. ASSUME roles = <<"user">>  PROVE j = 0
  <2>1. CASE k > 0
    <3>1. Rewinds(roles)
      BY <1>1, <1>2, <1>3, <1>5, <2>1, Zenon DEF Rewinds
    <3>. QED  BY <1>4, <3>1
  <2>2. CASE k = 0
    BY <1>4, <2>2
  <2>. QED  BY <1>3, <2>1, <2>2
<1>6. \A i \in 1..Len(inputs) : Plain(inputs[i])
  <2>1. PICK a, b : /\ a = (IF rewinds THEN RewoundInputs ELSE <<>>)
                    /\ b = GetSingleTurnText(TurnMessages(turns + 1, roles))
    OBVIOUS
  <2>2. inputs = a \o b
    BY <2>1 DEF SendStep
  <2>3. TurnMessages(turns + 1, roles) \in Seq(Messages)
    <3>1. turns + 1 \in Nat
      BY DEF TypeOK
    <3>. QED  BY <3>1, BatchIs, TurnMessagesAre
  <2>4. b \in Seq(Messages) /\ \A i \in 1..Len(b) : Plain(b[i])
    BY <2>1, <2>3, InputsAre, InputsArePlain
  <2>5. a \in Seq(Messages) /\ \A i \in 1..Len(a) : Plain(a[i])
    BY <1>2, <1>4, <2>1, <2>3, InputsAre, InputsArePlain
  <2>. QED  BY <2>2, <2>4, <2>5, PlainConcat
<1>7. \A p \in DOMAIN d : j = 0 \/ p <= cp => Plain(d[p])
  <2>1. CASE rewinds
    <3>1. cp \in 0..Len(c) /\ d = SubSeq(c, 1, cp)
      BY <1>3, <1>4, <2>1
    <3>2. DOMAIN d = 1..cp /\ \A p \in 1..cp : d[p] = c[p] /\ p \in DOMAIN c /\ p <= cp
      BY <1>3, <3>1
    <3>. QED  BY <1>3, <3>2
  <2>2. CASE ~rewinds
    BY <1>3, <1>4, <2>2
  <2>. QED  BY <1>4, <2>1, <2>2
<1>8. DOMAIN inputs = 1..Len(inputs)
  BY DEF SendStep
<1>9. ChannelInv'
  <2>1. supported'
    BY <1>1, <1>3
  <2>2. turn'.roles = <<"user">> => index' = 0
    BY <1>2, <1>4, <1>5
  <2>3. \A i \in DOMAIN turn'.inputs : Plain(turn'.inputs[i])
    BY <1>4, <1>6, <1>8
  <2>4. \A p \in DOMAIN context' : index' = 0 \/ p <= checkpoint' => Plain(context'[p])
    BY <1>1, <1>2, <1>7
  <2>. QED  BY <2>1, <2>2, <2>3, <2>4 DEF ChannelInv
<1>. QED  BY <1>9

\* The session goes on with what it has been given.
LEMMA ChannelsKept ==
    ASSUME TypeOK, CheckpointInv, ChannelInv,
           faults' = faults, conf' = conf, index' = index, supported' = supported,
           index > 0 => checkpoint' = checkpoint,
           Idle => Idle', turn'.roles = turn.roles,
           turn'.pc = "prefill" => turn.pc = "prefill" /\ turn'.inputs = turn.inputs,
           context' = context \/ (turn.pc = "prefill" /\ context' = context \o turn.inputs)
    PROVE  ChannelInv'
<1>. SUFFICES ASSUME faults' = 0, conf'.kind = "basic", conf'.filter  PROVE ChannelInv'
  BY DEF ChannelInv
<1>1. PICK c, d, cp, k, i : c = context /\ d = context' /\ cp = checkpoint /\ k = index /\ i = turn.inputs
  OBVIOUS
<1>2. /\ c \in Seq(Messages) /\ i \in Seq(Messages) /\ k \in Nat /\ supported
      /\ \A p \in DOMAIN c : k = 0 \/ p <= cp => Plain(c[p])
      /\ k > 0 => cp \in 0..Len(c)
      /\ turn.pc = "prefill" => \A q \in DOMAIN i : Plain(i[q])
      /\ ~Idle /\ turn.roles = <<"user">> => k = 0
  BY <1>1 DEF TypeOK, TurnRecord, ChannelInv, CheckpointInv
<1>3. \A p \in DOMAIN d : k = 0 \/ p <= cp => Plain(d[p])
  <2>1. CASE d = c
    BY <1>2, <2>1
  <2>2. CASE turn.pc = "prefill" /\ d = c \o i
    <3>1. \A p \in 1..Len(c) : d[p] = c[p]
      BY <1>2, <2>2, ConcatIs
    <3>2. DOMAIN c = 1..Len(c) /\ DOMAIN i = 1..Len(i) /\ DOMAIN d = 1..Len(d)
      BY <1>2, <2>2
    <3>3. CASE k = 0
      <4>1. \A p \in 1..Len(d) : Plain(d[p])
        BY <1>2, <2>2, <3>2, <3>3, PlainConcat
      <4>. QED  BY <3>2, <4>1
    <3>4. CASE k > 0
      <4>1. \A p \in DOMAIN d : p <= cp => p \in 1..Len(c)
        BY <1>2, <3>2, <3>4
      <4>. QED  BY <1>2, <3>1, <3>2, <3>4, <4>1
    <3>. QED  BY <1>2, <3>3, <3>4
  <2>. QED  BY <1>1, <2>1, <2>2
<1>4. \A p \in DOMAIN context' : index' = 0 \/ p <= checkpoint' => Plain(context'[p])
  <2>1. index' = k /\ (k > 0 => checkpoint' = cp)
    BY <1>1
  <2>. QED  BY <1>1, <1>2, <1>3, <2>1
<1>5. turn'.pc = "prefill" => \A q \in DOMAIN turn'.inputs : Plain(turn'.inputs[q])
  BY <1>1, <1>2
<1>. QED  BY <1>1, <1>2, <1>4, <1>5 DEF ChannelInv

LEMMA DecodePlain ==
    ASSUME NamedIsFound(stream.text), TypeOK, CheckpointInv, ChannelInv, NEW m, DecodeStep(m)
    PROVE  ChannelInv'
<1>. SUFFICES ASSUME faults' = 0, conf'.kind = "basic", conf'.filter  PROVE ChannelInv'
  BY DEF ChannelInv
<1>1. PICK c, d, cp, k, j : c = context /\ d = context' /\ cp = checkpoint /\ k = index /\ j = index'
  OBVIOUS
<1>2. /\ turn.pc = "decode" /\ conf' = conf /\ conf.kind = "basic" /\ conf.filter
      /\ supported' = supported /\ checkpoint' = cp
      /\ m \in Messages /\ d = Append(c, m) /\ faults = 0
  BY <1>1 DEF DecodeStep, TypeOK
<1>3. /\ c \in Seq(Messages) /\ k \in Nat /\ supported /\ Len(history) \in Nat
      /\ \A p \in DOMAIN c : k = 0 \/ p <= cp => Plain(c[p])
      /\ k > 0 => cp \in 0..Len(c)
      /\ k = 0 => cp = Len(c)
  BY <1>1, <1>2 DEF TypeOK, ChannelInv, CheckpointInv
<1>4. turn'.pc = "idle"
  BY <1>2 DEF DecodeStep, TurnEnds, TurnAnswers, TurnMoves, TurnGoes, TypeOK
<1>5. (j = k /\ (k = 0 => Plain(m))) \/ (k = 0 /\ j > 0)
  <2>1. CASE MarkChannels /\ m = Spoken
    <3>1. CASE k = 0 /\ Answer.channels
      <4>1. j = Len(history) + 1
        BY <1>1, <1>2, <1>3, <2>1, <3>1 DEF MarkChannels
      <4>. QED  BY <1>3, <3>1, <4>1
    <3>2. CASE ~(k = 0 /\ Answer.channels)
      <4>1. j = k
        BY <1>1, <1>2, <1>3, <2>1, <3>2 DEF MarkChannels
      <4>2. Spoken.channels => Answer.channels
        <5>1. PICK text : text = stream.text
          OBVIOUS
        <5>2. /\ Spoken.channels = (ExtractChannelContent(Named, text).names # {})
              /\ Answer.channels = (ExtractChannelContent(
                    IF turn.sync THEN Named ELSE AllChannels, text).names # {})
          BY <5>1, AnswerIs DEF TypeOK
        <5>3. CASE turn.sync
          BY <5>2, <5>3, Zenon
        <5>4. CASE ~turn.sync
          <6>1. Answer.channels = (ExtractChannelContent(AllChannels, text).names # {})
            BY <5>2, <5>4, Zenon
          <6>. QED  BY <5>1, <5>2, <6>1, Zenon DEF NamedIsFound
        <5>. QED  BY <5>3, <5>4
      <4>. QED  BY <2>1, <3>2, <4>1, <4>2 DEF Plain
    <3>. QED  BY <3>1, <3>2
  <2>2. CASE index' = index /\ m.role = "partial"
    BY <1>1, <2>2 DEF Plain
  <2>. QED  BY <1>2, <2>1, <2>2 DEF DecodeStep
<1>6. \A p \in DOMAIN d : j = 0 \/ p <= cp => Plain(d[p])
  <2>1. /\ DOMAIN d = 1..(Len(c) + 1) /\ DOMAIN c = 1..Len(c) /\ Len(c) \in Nat
        /\ d[Len(c) + 1] = m /\ \A p \in 1..Len(c) : d[p] = c[p]
    BY <1>2, <1>3
  <2>2. ASSUME NEW p \in 1..(Len(c) + 1), j = 0 \/ p <= cp  PROVE Plain(d[p])
    <3>1. CASE p <= Len(c)
      <4>1. k = 0 \/ p <= cp
        BY <1>3, <1>5, <2>2
      <4>2. p \in DOMAIN c /\ d[p] = c[p]
        BY <2>1, <3>1
      <4>. QED  BY <1>3, <4>1, <4>2
    <3>2. CASE p = Len(c) + 1
      <4>1. cp <= Len(c)
        BY <1>3, <2>1
      <4>2. j = 0
        BY <1>3, <2>1, <2>2, <3>2, <4>1
      <4>3. Plain(m)
        BY <1>5, <4>2
      <4>. QED  BY <2>1, <3>2, <4>3
    <3>. QED  BY <2>1, <3>1, <3>2
  <2>. QED  BY <2>1, <2>2
<1>7. \A p \in DOMAIN context' : index' = 0 \/ p <= checkpoint' => Plain(context'[p])
  BY <1>1, <1>2, <1>6
<1>. QED  BY <1>2, <1>3, <1>4, <1>7 DEF ChannelInv, Idle

LEMMA ChannelStep ==
    ASSUME NamedIsFound(stream.text), TypeOK, CheckpointInv, ChannelInv, [Next]_vars
    PROVE  ChannelInv'
<1>1. ASSUME NEW roles \in Batches, NEW sync \in BOOLEAN, NEW pending \in BOOLEAN,
             NEW stage, NEW rewinds, NEW inputs,
             SendStep(roles, sync, pending, stage, rewinds, inputs)
      PROVE  ChannelInv'
  BY <1>1, SendPlain
<1>2. ASSUME PrefillStep  PROVE ChannelInv'
  <2>. SUFFICES ASSUME faults' = 0  PROVE ChannelInv'
    BY DEF ChannelInv
  <2>1. /\ turn.pc = "prefill" /\ faults' = faults /\ conf' = conf /\ index' = index
        /\ checkpoint' = checkpoint /\ supported' = supported
    BY <1>2 DEF PrefillStep, TypeOK
  <2>2. /\ turn'.pc # "prefill" /\ turn'.roles = turn.roles
        /\ context' = context \/ context' = context \o turn.inputs
    BY <1>2, <2>1 DEF PrefillStep, TurnMoves, TurnEnds, TurnGoes
  <2>3. ~Idle
    BY <2>1 DEF Idle
  <2>. QED  BY <2>1, <2>2, <2>3, ChannelsKept
<1>3. ASSUME StartDecodeStep  PROVE ChannelInv'
  <2>. SUFFICES ASSUME faults' = 0, conf'.kind = "basic", conf'.filter  PROVE ChannelInv'
    BY DEF ChannelInv
  <2>1. /\ turn.pc = "prefilled" /\ turn'.pc # "prefill" /\ turn'.roles = turn.roles
        /\ UNCHANGED <<conf, context, index, faults>>
    BY <1>3 DEF StartDecodeStep, TurnMoves, TurnEnds, TurnGoes, TypeOK
  <2>2. (index > 0 => checkpoint' = checkpoint) /\ supported' = supported
    BY <1>3, <2>1 DEF StartDecodeStep, SaveCheckpoint
  <2>3. ~Idle
    BY <2>1 DEF Idle
  <2>. QED  BY <2>1, <2>2, <2>3, ChannelsKept
<1>4. ASSUME DroppedStep  PROVE ChannelInv'
  <2>1. /\ turn'.pc = "idle" /\ turn'.roles = turn.roles
        /\ UNCHANGED <<conf, context, index, faults, supported, checkpoint>>
    BY <1>4 DEF DroppedStep, TurnEnds, TurnGoes
  <2>2. Idle'
    BY <2>1 DEF Idle
  <2>. QED  BY <2>1, <2>2, ChannelsKept
<1>5. ASSUME QuietStep  PROVE ChannelInv'
  <2>1. UNCHANGED <<conf, history, context, turn, turns, faults>>
    BY <1>5 DEF QuietStep
  <2>2. Idle => Idle'
    BY <2>1 DEF Idle
  <2>3. CASE UNCHANGED <<checkpoint, supported, index>>
    BY <2>1, <2>2, <2>3, ChannelsKept
  <2>4. CASE conf.kind = "advanced"
    BY <2>1, <2>4 DEF ChannelInv
  <2>. QED  BY <1>5, <2>3, <2>4 DEF QuietStep
<1>6. ASSUME NEW m, DecodeStep(m)  PROVE ChannelInv'
  BY <1>6, DecodePlain
<1>. QED  BY <1>1, <1>2, <1>3, <1>4, <1>5, <1>6, Steps, Zenon

(***************************************************************************)
(* The invariants together.                                                 *)
(***************************************************************************)
LEMMA InitFollows ==
    ASSUME Init
    PROVE  IndexInv /\ FollowsInv /\ OrderInv /\ ChannelInv
<1>1. /\ history = <<>> /\ context = (IF conf.onInit THEN <<Preface>> ELSE <<>>)
      /\ index = 0 /\ turns = 0 /\ flag = FALSE /\ supported = TRUE
      /\ turn.pc = "idle"
  BY DEF Init, NoTurn
<1>2. Given = context /\ Idle
  BY <1>1 DEF Given, Idle
<1>3. IndexInv
  BY <1>1, <1>2 DEF IndexInv
<1>4. PICK c : c = context
  OBVIOUS
<1>5. c \in {<<Preface>>, <<>>}
  BY <1>1, <1>4
<1>6. /\ c \in Seq(Messages) /\ Len(c) <= 1 /\ Len(c) \in Nat
      /\ \A p \in 1..Len(c) : c[p] = Preface
  <2>1. PICK m \in Messages : m = Preface
    BY PrefaceIs
  <2>2. /\ <<m>> \in Seq(Messages) /\ Len(<<m>>) = 1 /\ \A p \in 1..1 : <<m>>[p] = m
        /\ <<>> \in Seq(Messages) /\ Len(<<>>) = 0 /\ 1..0 = {}
    OBVIOUS
  <2>3. CASE c = <<m>>
    BY <2>1, <2>2, <2>3
  <2>4. CASE c = <<>>
    BY <2>2, <2>4
  <2>. QED  BY <1>5, <2>1, <2>3, <2>4
<1>7. DOMAIN c = 1..Len(c)
  BY <1>6
<1>8. FollowsInv
  <2>1. (IF conf.onInit \/ history # <<>> THEN <<Preface>> ELSE <<>>) \o history = c
    <3>1. <<Preface>> \o <<>> = <<Preface>> /\ <<>> \o <<>> = <<>>
      BY PrefaceIs
    <3>. QED  BY <1>1, <1>4, <3>1
  <2>2. SameKeys(c, c)
    BY <1>6, SameKeysRefl
  <2>. QED  BY <1>1, <1>2, <1>4, <2>1, <2>2 DEF FollowsInv
<1>9. OrderInv
  <2>1. \A p, q \in 1..Len(c) : ~(p < q)
    BY <1>6
  <2>2. InOrder(c)
    BY <1>7, <2>1 DEF InOrder
  <2>3. \A p \in 1..Len(c) : Begun(c[p], 0, TRUE)
    BY <1>6, PrefaceIs DEF Begun
  <2>4. InOrder(<<>>) /\ DOMAIN <<>> = {}
    BY DEF InOrder
  <2>5. InStep(<<>>, c, 0, TRUE)
    BY <1>7, <2>2, <2>3, <2>4 DEF InStep
  <2>6. InStep(history, Given, turns, Idle)
    <3>1. Idle = TRUE
      BY <1>2, Zenon DEF Idle
    <3>. QED  BY <1>1, <1>2, <1>4, <2>5, <3>1
  <2>. QED  BY <1>1, <2>6 DEF OrderInv
<1>10. ChannelInv
  <2>1. \A p \in DOMAIN c : Plain(c[p])
    BY <1>6, <1>7, PrefaceIs DEF Plain
  <2>. QED  BY <1>1, <1>2, <1>4, <2>1 DEF ChannelInv
<1>. QED  BY <1>3, <1>8, <1>9, <1>10

TurnsInv == TypeOK /\ CheckpointInv /\ TurnInv /\ PushedInv

LEMMA TurnsHold ==
    Spec => []TurnsInv
<1>1. Init => TurnsInv
  BY InitHolds DEF TurnsInv
<1>2. TurnsInv /\ [Next]_vars => TurnsInv'
  BY TypeStep, CheckpointStep, TurnStep, PushedStep, Zenon DEF TurnsInv
<1>. QED  BY <1>1, <1>2, PTL DEF Spec

ContextInv == IndexInv /\ FollowsInv /\ OrderInv

LEMMA ContextHolds ==
    ASSUME <<>> \notin Batches
    PROVE  Spec => []ContextInv
<1>1. Init => ContextInv
  BY InitFollows DEF ContextInv
<1>2. TurnsInv /\ TurnsInv' /\ ContextInv /\ [Next]_vars => ContextInv'
  BY IndexStep, FollowsStep, OrderStep, Zenon DEF TurnsInv, ContextInv
<1>. QED  BY <1>1, <1>2, TurnsHold, PTL DEF Spec

LEMMA ChannelsHold == Spec /\ []NamedIsFound(stream.text) => []ChannelInv
<1>1. Init => ChannelInv
  BY InitFollows
<1>2. TurnsInv /\ NamedIsFound(stream.text) /\ ChannelInv /\ [Next]_vars => ChannelInv'
  BY ChannelStep DEF TurnsInv
<1>. QED  BY <1>1, <1>2, TurnsHold, PTL DEF Spec

(***************************************************************************)
(* What the invariants say between turns.                                   *)
(***************************************************************************)
LEMMA FollowedHistory ==
    ASSUME TypeOK, FollowsInv
    PROVE  HistoryIsContext
<1>. SUFFICES ASSUME Idle, faults = 0, cancels = 0  PROVE HistoryIsContext
  BY DEF HistoryIsContext
<1>1. PICK c, h : c = context /\ h = (IF conf.onInit \/ history # <<>> THEN <<Preface>> ELSE <<>>) \o history
  OBVIOUS
<1>2. Given = context
  BY DEF Given, Idle
<1>3. c \in Seq(Messages) /\ h \in Seq(Messages)
  <2>1. /\ <<>> \in Seq(Messages) /\ <<Preface>> \in Seq(Messages)
        /\ history \in Seq(Messages) /\ context \in Seq(Messages)
    BY PrefaceIs DEF TypeOK
  <2>. QED  BY <1>1, <2>1
<1>4. SameKeys(c, h)
  BY <1>1, <1>2 DEF FollowsInv
<1>5. Keys(c) = Keys(h)
  BY <1>3, <1>4, SameKeysAreKeys
<1>. QED  BY <1>1, <1>5 DEF HistoryIsContext

\* No message comes before itself, and of two only one before the other.
LEMMA BeforeIsStrict ==
    ASSUME NEW a \in Nat \X Nat, NEW b \in Nat \X Nat, Before(a, b)
    PROVE  ~Before(b, a) /\ a # b
<1>1. PICK i, j \in Nat : i = a[1] /\ j = a[2]
  OBVIOUS
<1>2. PICK k, l \in Nat : k = b[1] /\ l = b[2]
  OBVIOUS
<1>3. i < k \/ (i = k /\ j # 0 /\ (l = 0 \/ j < l))
  BY <1>1, <1>2 DEF Before
<1>4. ~(k < i \/ (k = i /\ l # 0 /\ (j = 0 \/ l < j)))
  BY <1>1, <1>2, <1>3
<1>5. ~Before(b, a)
  BY <1>1, <1>2, <1>4 DEF Before
<1>. QED  BY <1>1, <1>2, <1>3, <1>5

\* A message of an ordered sequence that is one of the history comes after
\* those before it.
LEMMA OrderedBefore ==
    ASSUME NEW s \in Seq(Messages), InOrder(s), NEW p \in 1..Len(s), NEW q \in 1..Len(s),
           s[q].at[1] > 0
    PROVE  p < q => Before(s[p].at, s[q].at)
<1>1. s[q] \in Messages /\ DOMAIN s = 1..Len(s)
  OBVIOUS
<1>2. s[q].at # Preface.at
  <2>1. Preface.at = <<0, 0>>
    BY PrefaceIs
  <2>2. <<0, 0>>[1] = 0
    OBVIOUS
  <2>. QED  BY <2>1, <2>2
<1>. QED  BY <1>1, <1>2 DEF InOrder

LEMMA OrderedHistory ==
    ASSUME TypeOK, OrderInv
    PROVE  NothingForgotten
<1>. SUFFICES ASSUME Idle, faults = 0, conf.kind = "basic"  PROVE NothingForgotten
  BY DEF NothingForgotten
<1>1. PICK h, c : h = history /\ c = context
  OBVIOUS
<1>2. h \in Seq(Messages) /\ c \in Seq(Messages)
  BY <1>1 DEF TypeOK
<1>3. DOMAIN h = 1..Len(h) /\ DOMAIN c = 1..Len(c) /\ Len(h) \in Nat /\ Len(c) \in Nat
  BY <1>2
<1>4. InStep(h, c, turns, Idle)
  <2>1. Given = context
    BY DEF Given, Idle
  <2>. QED  BY <1>1, <2>1 DEF OrderInv
<1>5. /\ InOrder(h) /\ InOrder(c)
      /\ \A i \in DOMAIN h : h[i].at[1] > 0
      /\ \A i \in DOMAIN h : \E p \in DOMAIN c : Same(h[i], c[p])
  BY <1>4 DEF InStep
<1>6. \A i \in 1..Len(h) : h[i].at \in Nat \X Nat
  <2>1. \A m \in Messages : m.at \in Nat \X Nat
    BY DEF Messages
  <2>2. \A i \in 1..Len(h) : h[i] \in Messages
    BY <1>2
  <2>. QED  BY <2>1, <2>2
<1>7. ASSUME NEW i \in 1..Len(h), NEW p \in 1..Len(c), Same(h[i], c[p]),
             NEW j \in 1..Len(h), NEW q \in 1..Len(c), Same(h[j], c[q])
      PROVE  i < j <=> p < q
  <2>1. /\ c[p].at = h[i].at /\ c[q].at = h[j].at
        /\ h[i].at[1] > 0 /\ h[j].at[1] > 0
    BY <1>3, <1>5, <1>7 DEF Same
  <2>2. i < j => Before(h[i].at, h[j].at)
    BY <1>2, <1>5, <2>1, OrderedBefore
  <2>3. j < i => Before(h[j].at, h[i].at)
    BY <1>2, <1>5, <2>1, OrderedBefore
  <2>4. p < q => Before(h[i].at, h[j].at)
    BY <1>2, <1>5, <2>1, OrderedBefore
  <2>5. q < p => Before(h[j].at, h[i].at)
    BY <1>2, <1>5, <2>1, OrderedBefore
  <2>6. /\ Before(h[i].at, h[j].at) => ~Before(h[j].at, h[i].at) /\ h[i].at # h[j].at
        /\ Before(h[j].at, h[i].at) => ~Before(h[i].at, h[j].at) /\ h[i].at # h[j].at
    BY <1>6, BeforeIsStrict
  <2>7. (i < j \/ j < i \/ i = j) /\ (p < q \/ q < p \/ p = q)
    OBVIOUS
  <2>8. p = q => h[i].at = h[j].at
    BY <2>1
  <2>9. ~(i < j /\ j < i) /\ ~(p < q /\ q < p) /\ ~(i < j /\ i = j) /\ ~(p < q /\ p = q)
    OBVIOUS
  <2>10. i = j => h[i].at = h[j].at
    OBVIOUS
  <2>. QED  BY <2>2, <2>3, <2>4, <2>5, <2>6, <2>7, <2>8, <2>9, <2>10, Zenon
<1>. QED  BY <1>1, <1>3, <1>5, <1>7 DEF NothingForgotten

LEMMA PlainContext ==
    ASSUME TypeOK, ChannelInv
    PROVE  ChannelsForgotten
<1>. SUFFICES ASSUME turn.pc = "decode", turn.roles = <<"user">>, conf.filter,
                     conf.kind = "basic", faults = 0
              PROVE  \A m \in Range(context) : m.role = "model" => ~m.channels
  BY DEF ChannelsForgotten
<1>1. index = 0
  BY DEF ChannelInv, Idle
<1>2. \A p \in DOMAIN context : Plain(context[p])
  BY <1>1 DEF ChannelInv
<1>. QED  BY <1>2 DEF Range, Plain

(***************************************************************************)
(* Theorems.                                                                *)
(***************************************************************************)
\* The variables have their types in every reachable state; in particular a
\* rewind always has a checkpoint to go back to, of no more messages than the
\* session holds.
THEOREM ConversationTyped ==
    Spec => []TypeOK
BY TurnsHold, PTL DEF TurnsInv

\* A checkpoint stands behind every message that is marked as the one to
\* rewind to, and while a turn is under way what it has sent is the end of the
\* history, the messages cancel_callback takes it back from.
THEOREM CheckpointsAndTurns ==
    Spec => [](CheckpointInv /\ PushedInv)
BY TurnsHold, PTL DEF TurnsInv

\* Every turn of SendMessageAsync is told of its end by its last call, and
\* before that only of pieces of the reply that were refused, whatever fails or
\* is cancelled and whenever, except a cancelled one of SessionAdvanced.
THEOREM EndsAreTold ==
    Spec => []EndIsTold
<1>1. Init => EndIsTold
  BY DEF Init, EndIsTold, NoTurn
<1>2. TurnsInv /\ EndIsTold /\ [Next]_vars => EndIsTold'
  BY EndIsToldStep DEF TurnsInv
<1>. QED  BY <1>1, <1>2, TurnsHold, PTL DEF Spec

\* A turn of one message that is cancelled on SessionBasic leaves the history
\* as it was, wherever it is cancelled and whatever has failed before.
THEOREM CancellationUndone ==
    Spec => []CancelUndoes
<1>1. Init => CancelUndoes
  BY DEF Init, CancelUndoes, NoTurn
<1>2. TurnsInv /\ CancelUndoes /\ [Next]_vars => CancelUndoes'
  BY CancelUndoesStep DEF TurnsInv
<1>. QED  BY <1>1, <1>2, TurnsHold, PTL DEF Spec

\* While nothing fails and nothing is cancelled the session has processed the
\* preface and the history, each message once and in order, over any number of
\* turns, rewinds and clones, when every array of messages has a message.
THEOREM HistoryFollowed ==
    ASSUME <<>> \notin Batches
    PROVE  Spec => []HistoryIsContext
<1>1. TurnsInv /\ ContextInv => HistoryIsContext
  BY FollowedHistory DEF TurnsInv, ContextInv
<1>. QED  BY <1>1, TurnsHold, ContextHolds, PTL

\* On SessionBasic nothing of the history is missing from the context, out of
\* order or there twice, whatever was cancelled and rewound, when every array
\* of messages has a message.
THEOREM NothingIsForgotten ==
    ASSUME <<>> \notin Batches
    PROVE  Spec => []NothingForgotten
<1>1. TurnsInv /\ ContextInv => NothingForgotten
  BY OrderedHistory DEF TurnsInv, ContextInv
<1>. QED  BY <1>1, TurnsHold, ContextHolds, PTL

\* What complete earlier replies said on their channels is gone from the context
\* when a message of the user is answered, whatever was sent, rewound or
\* cancelled before, as long as each reply that holds a channel still does when
\* tool calls are searched for too.  Replies that were cut off are excluded.
THEOREM ChannelsAreForgotten ==
    Spec /\ []NamedIsFound(stream.text) => []ChannelsForgotten
<1>1. TurnsInv /\ ChannelInv => ChannelsForgotten
  BY PlainContext DEF TurnsInv
<1>. QED  BY <1>1, TurnsHold, ChannelsHold, PTL
=============================================================================
