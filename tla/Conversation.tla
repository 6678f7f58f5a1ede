----------------------------- MODULE Conversation -----------------------------
(***************************************************************************)
(* Conversation (conversation.cc): the history of messages it keeps and     *)
(* what the session under it holds of them.                                 *)
(*                                                                          *)
(* The session is seen from here: a prefill or a decode adds to its         *)
(* context, it may fail or be cancelled, and it may or may not have         *)
(* checkpoints.  SessionBasic reports a cancelled turn as an error and has  *)
(* checkpoints, SessionAdvanced reports the task state kCancelled and has   *)
(* none.  The caller sends a message after the last turn has ended.         *)
(***************************************************************************)
EXTENDS ChannelParser

CONSTANTS
    Kinds,      \* "basic", "advanced": the sessions, one is chosen
    Filters,    \* values of filter_channel_content_from_kv_cache
    Batches,    \* the roles of the messages sent at once
    Replies,    \* replies, in the pieces they come in
    MaxTurns,   \* bound on messages sent
    MaxCancels, \* bound on cancellations
    MaxFaults   \* bound on steps that fail

ASSUME ConversationBounds ==
    /\ MaxTurns \in Nat /\ MaxCancels \in Nat /\ MaxFaults \in Nat
    /\ Batches \subseteq Seq(STRING)

VARIABLES
    conf,       \* [kind, filter, onInit]
    history,    \* history_
    context,    \* what the session has processed, in order
    checkpoint, \* the length of context at kChannelContentCheckpoint, -1: none
    supported,  \* session_checkpoint_supported_
    index,      \* checkpoint_message_index_, from 1, 0: none
    flag,       \* is the turn cancelled?
    turn,       \* the turn under way
    reply,      \* what of the reply is still to come
    stream,     \* what the internal callback has made of the reply
    told,       \* the errors and ends of this turn the caller has been told
    turns, cancels, faults

vars == <<conf, history, context, checkpoint, supported, index, flag, turn,
          reply, stream, told, turns, cancels, faults>>
counters == <<turns, cancels, faults>>
kept == <<conf, history, checkpoint, supported, index>>

\* The message at a place of a turn: its role, whether it has a field of
\* channels, and whether it has a tool call.
Message(n, place, role, channels, call) ==
    [at |-> <<n, place>>, role |-> role, channels |-> channels, call |-> call]
Preface == Message(0, 0, "preface", FALSE, FALSE)

NoTurn == [pc |-> "idle", sync |-> FALSE, pending |-> FALSE, roles |-> <<>>,
           inputs |-> <<>>, before |-> <<>>, fate |-> "none"]

Idle == turn.pc = "idle"

\* Create: the preface is prefilled at once or with the first message.
Init ==
    /\ conf \in [kind : Kinds, filter : Filters, onInit : BOOLEAN]
    /\ history = <<>>
    /\ context = IF conf.onInit THEN <<Preface>> ELSE <<>>
    /\ checkpoint = -1 /\ supported = TRUE /\ index = 0
    /\ flag = FALSE /\ turn = NoTurn
    /\ reply = <<>> /\ stream = NoReply /\ told = <<>>
    /\ turns = 0 /\ cancels = 0 /\ faults = 0

(***************************************************************************)
(* Sending.                                                                 *)
(***************************************************************************)
\* The templates do not render the channels of a message.
Rendered(messages) == [i \in DOMAIN messages |-> [messages[i] EXCEPT !.channels = FALSE]]

\* Mutant of GetSingleTurnText: the preface is rendered with every message.
SingleTurnWithPreface(messages) ==
    (IF conf.onInit THEN <<>> ELSE <<Preface>>) \o Rendered(messages)

\* GetSingleTurnText: what rendering adds to the history's; the preface is new
\* while the history is empty.
GetSingleTurnText(messages) ==
    (IF history = <<>> /\ ~conf.onInit THEN <<Preface>> ELSE <<>>) \o Rendered(messages)

\* Mutant of RewoundInputs: the message the index stands for is left out.
RewoundInputsFromNext == Rendered(SubSeq(history, index + 1, Len(history)))

\* RewindAndGetInputDataVector: the messages since the checkpoint.
RewoundInputs == Rendered(SubSeq(history, index, Len(history)))

Rewinds(roles) == conf.filter /\ supported /\ roles = <<"user">> /\ index > 0

TurnMessages(n, roles) == [i \in DOMAIN roles |-> Message(n, i, roles[i], FALSE, FALSE)]

\* The stage that fails, if any may still fail: rendering the messages since
\* the checkpoint, rendering the new ones, or what comes after them is put
\* into the history and before the session has them.
Faults(stages) == {"none"} \cup (IF faults < MaxFaults THEN stages ELSE {})

Fails(stage) == faults' = IF stage = "none" THEN faults ELSE faults + 1

\* SendMessage (sync) and SendMessageAsync.  An array of messages never
\* rewinds, its role is not asked for.
Send(roles, sync, pending) ==
    /\ Idle /\ turns < MaxTurns
    /\ turns' = turns + 1
    /\ \E stage \in Faults({"rewound", "render", "inputs"}) :
         LET rewinds  == Rewinds(roles)
             messages == TurnMessages(turns + 1, roles)
             pushed   == history \o messages
             inputs   == (IF rewinds THEN RewoundInputs ELSE <<>>)
                         \o GetSingleTurnText(messages)
         IN /\ stage = "rewound" => rewinds
            /\ Fails(stage)
            /\ context' = IF rewinds THEN SubSeq(context, 1, checkpoint) ELSE context
            /\ index' = IF rewinds /\ stage # "rewound" THEN 0 ELSE index
            /\ history' = IF stage \in {"none", "inputs"} THEN pushed ELSE history
            /\ turn' = IF stage # "none" THEN NoTurn
                       ELSE [pc |-> "prefill", sync |-> sync, pending |-> pending,
                             roles |-> roles, inputs |-> inputs, before |-> history,
                             fate |-> "none"]
    /\ flag' = FALSE /\ stream' = NoReply /\ reply' = <<>> /\ told' = <<>>
    /\ UNCHANGED <<conf, checkpoint, supported, cancels>>

\* CancelProcess, from any thread.  The flag of SessionBasic is set whenever;
\* SessionAdvanced cancels the tasks there are, between prefill and decode none.
CancelProcess ==
    /\ ~Idle /\ cancels < MaxCancels
    /\ cancels' = cancels + 1
    /\ flag' = (flag \/ conf.kind = "basic" \/ turn.pc \in {"prefill", "decode"})
    /\ UNCHANGED <<kept, context, turn, reply, stream, told, turns, faults>>

(***************************************************************************)
(* The turn.                                                                *)
(***************************************************************************)
\* Mutant of Ends: cancel_callback in place of the user callback.
EndsWithoutCancelled(fate, ends) ==
    /\ turn' = [turn EXCEPT !.pc = "idle", !.fate = fate, !.inputs = <<>>]
    /\ told' = told \o (IF turn.sync \/ fate = "cancelled" THEN <<>> ELSE ends)

\* The turn ends; `fate' is what became of it, `ends' what the user callback
\* is given.
Ends(fate, ends) ==
    /\ turn' = [turn EXCEPT !.pc = "idle", !.fate = fate, !.inputs = <<>>]
    /\ told' = told \o (IF turn.sync THEN <<>> ELSE ends)

GoTo(pc) == turn' = [turn EXCEPT !.pc = pc] /\ UNCHANGED told

\* Mutant of CancelCallback: the history is left as it is.
CancelCallbackIdle == UNCHANGED history

\* cancel_callback: the last message is taken out of the history.
CancelCallback == history' = Front(history)

\* The turn ends with an error, for a cancelled one the internal callback
\* calls cancel_callback.  A synchronous turn only returns the error.
EndsCancelled ==
    /\ Ends("cancelled", <<"cancelled">>)
    /\ IF turn.sync THEN UNCHANGED history ELSE CancelCallback

\* The session prefills.  A failure or a cancellation ends an asynchronous
\* turn; a synchronous one does not ask for the flag.
Prefill ==
    /\ turn.pc = "prefill"
    /\ \E fault \in Faults({"prefill"}) :
         /\ Fails(fault)
         /\ \/ /\ context' = IF fault = "none" THEN context \o turn.inputs ELSE context
               /\ IF flag /\ ~turn.sync /\ conf.kind = "basic" THEN EndsCancelled
                  ELSE /\ UNCHANGED history
                       /\ IF fault # "none" THEN Ends("error", <<"error">>)
                          ELSE IF flag /\ ~turn.sync THEN GoTo("dropped")
                          ELSE GoTo("prefilled")
            \* A task that is cancelled before it starts does not run.
            \/ /\ flag /\ conf.kind = "advanced" /\ fault = "none"
               /\ GoTo(IF turn.sync THEN "prefilled" ELSE "dropped")
               /\ UNCHANGED <<context, history>>
    /\ UNCHANGED <<conf, checkpoint, supported, index, flag, reply, stream, turns, cancels>>

\* A response with the state kCancelled is neither an error nor kDone: the
\* callbacks do nothing.
Dropped ==
    /\ turn.pc = "dropped"
    /\ Ends("cancelled", <<>>)
    /\ UNCHANGED <<kept, context, flag, reply, stream, counters>>

\* Mutant of SaveCheckpoint: a checkpoint that is still needed is overwritten.
SaveCheckpointAlways ==
    IF conf.filter /\ supported /\ conf.kind = "basic"
    THEN checkpoint' = Len(context) /\ UNCHANGED supported
    ELSE UNCHANGED <<checkpoint, supported>>

\* Before the decode a checkpoint is saved, unless one is still to be gone
\* back to.
SaveCheckpoint ==
    IF conf.filter /\ supported /\ index = 0
    THEN IF conf.kind = "basic" THEN checkpoint' = Len(context) /\ UNCHANGED supported
         ELSE supported' = FALSE /\ UNCHANGED checkpoint
    ELSE UNCHANGED <<checkpoint, supported>>

\* The prefill callback and the middle of SendMessage.  RunDecode of
\* SessionBasic resets its flag; of SessionAdvanced, a decode behind a
\* cancelled prefill is cancelled with it.  A synchronous decode may have no
\* configuration, an asynchronous one may be refused by the session.
StartDecode ==
    /\ turn.pc = "prefilled"
    /\ \E fault \in Faults(IF turn.pending THEN {} ELSE {"start"}) :
         /\ Fails(fault)
         /\ IF turn.pending THEN UNCHANGED <<checkpoint, supported>> ELSE SaveCheckpoint
         /\ \/ /\ turn.pending
               /\ Ends("done", <<>>) /\ UNCHANGED <<flag, reply>>
            \/ /\ ~turn.pending /\ fault = "none"
               /\ flag' = (flag /\ conf.kind = "advanced")
               /\ reply' \in Replies
               /\ GoTo("decode")
            \/ /\ fault # "none"
               /\ Ends("error", <<"error">>) /\ UNCHANGED <<flag, reply>>
    /\ UNCHANGED <<conf, history, context, index, stream, turns, cancels>>

\* The errors the caller is told while the stream goes on to t, for pieces that
\* could not be made into a message; several of one step are one here.
Refused(t) == IF Refusals(t) # Refusals(stream) THEN <<"refused">> ELSE <<>>

\* A piece of the reply; the internal callback of an asynchronous turn takes
\* it apart.
Decode ==
    /\ turn.pc = "decode" /\ ~flag /\ reply # <<>>
    /\ reply' = Tail(reply)
    /\ stream' = IF turn.sync THEN [stream EXCEPT !.text = @ \o Head(reply)]
                 ELSE Receive(stream, Head(reply))
    /\ told' = told \o Refused(stream')
    /\ UNCHANGED <<kept, context, flag, turn, counters>>

\* The reply without the content of its channels.
Complete == ExtractChannelContent(IF turn.sync THEN Named ELSE AllChannels, stream.text)

Answer == Message(turns, 0, "model", Complete.names # {}, HoldsCall(Complete.text))

\* What the session holds of a reply is all of it.
Spoken ==
    Message(turns, 0, "model", ExtractChannelContent(Named, stream.text).names # {},
            HoldsCall(stream.text))

\* Where the first reply with channels since the last rewind is in the history.
MarkChannels ==
    index' = IF conf.filter /\ supported /\ index = 0 /\ Answer.channels
             THEN Len(history) + 1 ELSE index

\* The reply is complete: complete_message_callback and the end of SendMessage.
\* What was held back is sent first.  If the whole cannot be turned into a
\* message, because of a call in it or for another reason, the caller is told
\* the error.  The loop of SessionBasic does not ask for the flag once it has
\* been left, a task of SessionAdvanced does.
DecodeDone ==
    /\ turn.pc = "decode" /\ reply = <<>> /\ (flag => conf.kind = "basic")
    /\ context' = Append(context, Spoken)
    /\ stream' = IF turn.sync THEN stream ELSE Flush(stream)
    /\ \E fault \in IF ToMessageFails(Complete.text) THEN {"message"}
                   ELSE Faults({"message"}) :
         /\ Fails(fault)
         /\ IF fault = "none"
            THEN /\ history' = Append(history, Answer)
                 /\ MarkChannels
                 /\ Ends("done", Refused(stream') \o <<"done">>)
            ELSE /\ Ends("error", Refused(stream') \o <<"error">>)
                 /\ UNCHANGED <<history, index>>
    /\ UNCHANGED <<conf, checkpoint, supported, flag, reply, turns, cancels>>

\* A failing run of the model: the caller is told the error, what was decoded
\* so far stays in the context.
DecodeFails ==
    /\ turn.pc = "decode" /\ ~flag
    /\ faults < MaxFaults /\ faults' = faults + 1
    /\ context' = Append(context, [Spoken EXCEPT !.role = "partial"])
    /\ Ends("error", <<"error">>)
    /\ UNCHANGED <<kept, flag, reply, stream, turns, cancels>>

\* A cancelled decode.  The synchronous one of SessionAdvanced returns what it
\* has as if it were all.
DecodeCancelled ==
    /\ turn.pc = "decode" /\ flag
    /\ context' = Append(context, [Spoken EXCEPT !.role = "partial"])
    /\ IF conf.kind = "basic" THEN EndsCancelled /\ UNCHANGED <<index, faults>>
       ELSE IF ~turn.sync THEN GoTo("dropped") /\ UNCHANGED <<history, index, faults>>
       ELSE IF ToMessageFails(Complete.text)
            THEN Fails("message") /\ Ends("error", <<>>) /\ UNCHANGED <<history, index>>
            ELSE /\ history' = Append(history, Answer) /\ MarkChannels
                 /\ Ends("cancelled", <<>>) /\ UNCHANGED faults
    /\ UNCHANGED <<conf, checkpoint, supported, flag, reply, stream, turns, cancels>>

\* Clone, of a session that has it: the history is copied, what belongs to
\* checkpoints is not.
Clone ==
    /\ Idle /\ conf.kind = "advanced"
    /\ index' = 0 /\ supported' = TRUE /\ checkpoint' = -1
    /\ UNCHANGED <<conf, history, context, flag, turn, reply, stream, told, counters>>

Session ==
    \/ Prefill \/ Dropped \/ StartDecode
    \/ Decode \/ DecodeDone \/ DecodeFails \/ DecodeCancelled

Next ==
    \/ Session \/ CancelProcess \/ Clone
    \/ \E roles \in Batches, sync, pending \in BOOLEAN : Send(roles, sync, pending)

Spec == Init /\ [][Next]_vars /\ WF_vars(Session)

(***************************************************************************)
(* Properties.                                                              *)
(***************************************************************************)
Keys(messages) == [i \in DOMAIN messages |-> [at   |-> messages[i].at,
                                              role |-> messages[i].role]]

\* The same message, whether or not its channels are rendered.
Same(m, k) == m.at = k.at /\ m.role = k.role

\* "The users' messages will be used as the LLM context through the
\* conversation" (conversation.h): between turns the session has processed the
\* preface and the messages of the history, each once and in their order,
\* whatever was rewound and prefilled again, as long as nothing has failed or
\* been cancelled.
HistoryIsContext ==
    Idle /\ faults = 0 /\ cancels = 0 =>
        Keys(context) =
            Keys((IF conf.onInit \/ history # <<>> THEN <<Preface>> ELSE <<>>) \o history)

\* Also after cancelled turns no message of the history is missing from the
\* context, out of its order or there twice, on sessions that report a
\* cancellation as an error.
NothingForgotten ==
    Idle /\ faults = 0 /\ conf.kind = "basic" =>
        /\ \A i \in DOMAIN history : \E p \in DOMAIN context : Same(history[i], context[p])
        /\ \A i \in DOMAIN history, p \in DOMAIN context :
             Same(history[i], context[p]) =>
                \A j \in DOMAIN history, q \in DOMAIN context :
                    Same(history[j], context[q]) => (i < j <=> p < q)

\* With filter_channel_content_from_kv_cache, what a user message is answered
\* from no longer holds what complete earlier replies said on their channels,
\* with tool messages and cancelled turns in between (SendMessage, "prefill all
\* subsequent messages with channel content removed").  A reply that was cut
\* off, of the role "partial", is excluded: it becomes no message, nothing is
\* marked, and what it has said on a channel stays in the context.
ChannelsForgotten ==
    /\ turn.pc = "decode" /\ turn.roles = <<"user">> /\ stream = NoReply
    /\ conf.filter /\ conf.kind = "basic" /\ faults = 0
    => \A m \in Range(context) : m.role = "model" => ~m.channels

OnlyRefused(calls) == \A i \in DOMAIN calls : calls[i] = "refused"

\* Every turn of SendMessageAsync ends with one last call of the user callback
\* that says what became of it: an empty message, an error or
\* absl::CancelledError, wherever it fails or is cancelled; except what is
\* cancelled on SessionAdvanced.  What the caller is told before that are only
\* errors for pieces of the reply that are no message, behind which the reply
\* goes on (SendMessage of internal_callback_util.cc).
EndIsTold ==
    /\ Idle /\ turn.fate # "none" /\ ~turn.sync
    /\ conf.kind = "basic" \/ turn.fate # "cancelled"
    => IF turn.pending /\ turn.fate = "done" THEN told = <<>>
       ELSE told # <<>> /\ Last(told) = turn.fate /\ OnlyRefused(Front(told))

\* A cancelled turn leaves the history as it was before it: "the history
\* should be empty after cancellation" (conversation_test.cc).
CancelUndoes ==
    /\ Idle /\ turn.fate = "cancelled" /\ ~turn.sync
    /\ conf.kind = "basic" /\ Len(turn.roles) = 1
    => history = turn.before

\* A tool call that is in the context is in the message of the history: tool
\* calls are "a special channel with no target message field"
\* (internal_callback_util.cc), so that they are not taken out of the message.
CallsKept ==
    Idle /\ turn.fate = "done" /\ ~turn.pending =>
        history[Len(history)].call = context[Len(context)].call

(***************************************************************************)
(* What the properties rest on; each part holds after every step.           *)
(***************************************************************************)
Roles == {"preface", "model", "partial"} \cup UNION {Range(roles) : roles \in Batches}
Messages == [at : Nat \X Nat, role : Roles, channels : BOOLEAN, call : BOOLEAN]
Fates == {"done", "error", "cancelled"}
ToBeTold == Fates \cup {"refused"}
TurnRecord == [pc : {"idle", "prefill", "dropped", "prefilled", "decode"},
               sync : BOOLEAN, pending : BOOLEAN, roles : Seq(Roles),
               inputs : Seq(Messages), before : Seq(Messages),
               fate : Fates \cup {"none"}]

TypeOK ==
    /\ conf \in [kind : Kinds, filter : Filters, onInit : BOOLEAN]
    /\ history \in Seq(Messages) /\ context \in Seq(Messages)
    /\ checkpoint \in Nat \cup {-1} /\ index \in Nat
    /\ supported \in BOOLEAN /\ flag \in BOOLEAN
    /\ turn \in TurnRecord
    /\ told \in Seq(ToBeTold)
    /\ turns \in Nat /\ cancels \in Nat /\ faults \in Nat

\* Nothing is told before the end but that a piece was refused, and that only
\* of a reply; a turn with more to come is not answered, and only
\* SessionAdvanced drops one.
TurnInv ==
    /\ ~Idle => turn.fate = "none" /\ OnlyRefused(told)
    /\ turn.pc \in {"prefill", "prefilled"} => told = <<>>
    /\ turn.pc = "decode" => ~turn.pending
    /\ turn.pc = "dropped" => conf.kind # "basic"

\* While a turn is under way its messages are the end of the history.
PushedInv ==
    ~Idle => /\ turns > 0 /\ turn.roles \in Batches
             /\ history = turn.before \o TurnMessages(turns, turn.roles)

\* There is a checkpoint as long as the index of a message stands for it, and
\* before a reply that may become that message.
CheckpointInv ==
    /\ index > 0 => checkpoint \in 0..Len(context)
    /\ turn.pc = "decode" /\ conf.filter /\ supported /\ index = 0 => checkpoint = Len(context)

IndexInv ==
    /\ index <= Len(history)
    /\ ~Idle => index <= Len(turn.before)

\* What the session has once the prefill under way is done.
Given == IF turn.pc = "prefill" THEN context \o turn.inputs ELSE context

SameKeys(s, t) == Len(s) = Len(t) /\ \A i \in 1..Len(s) : Same(s[i], t[i])

\* While nothing fails and nothing is cancelled, the context follows the
\* history message by message; the checkpoint is where the index says, one
\* further because of the preface.
FollowsInv ==
    faults = 0 /\ cancels = 0 =>
        /\ ~flag /\ turn.pc # "dropped"
        /\ index > 0 => checkpoint = index
        /\ ~Idle => history # <<>>
        /\ SameKeys(Given,
                    (IF conf.onInit \/ history # <<>> THEN <<Preface>> ELSE <<>>) \o history)

\* A message is before another: sent in an earlier turn, or earlier in the
\* same one, the reply being the last.
Before(a, b) ==
    \/ a[1] < b[1]
    \/ a[1] = b[1] /\ a[2] # 0 /\ (b[2] = 0 \/ a[2] < b[2])

InOrder(messages) ==
    \A p, q \in DOMAIN messages :
        p < q => messages[q].at = Preface.at \/ Before(messages[p].at, messages[q].at)

\* A message of one of the first n turns; the reply of the last only once that
\* has ended.
Begun(m, n, ended) == m.at[1] < n \/ (m.at[1] = n /\ (ended \/ m.at[2] # 0))

\* A history h and what the session is given, s, after n turns: both are in
\* order and all of h is in s.
InStep(h, s, n, ended) ==
    /\ InOrder(h) /\ InOrder(s)
    /\ \A i \in DOMAIN h : h[i].at[1] > 0 /\ Begun(h[i], n, ended)
    /\ \A p \in DOMAIN s : Begun(s[p], n, ended)
    /\ \A i \in DOMAIN h : \E p \in DOMAIN s : Same(h[i], s[p])

\* What is before a checkpoint at c has all of h before the message k, and
\* nothing that comes after it.
Divides(h, s, k, c) ==
    \A i \in DOMAIN h :
        IF i < k THEN \E p \in 1..c : Same(h[i], s[p])
        ELSE \A p \in 1..c : Before(s[p].at, h[i].at)

OrderInv ==
    faults = 0 /\ conf.kind = "basic" =>
        /\ InStep(history, Given, turns, Idle)
        /\ index > 0 => Divides(history, context, index, checkpoint)

\* No reply of the context has channels before the checkpoint, and none at all
\* when there is no message to go back to.
Plain(m) == m.role = "model" => ~m.channels

\* A text that holds a channel still holds one when tool calls are searched
\* for too: taking out a tool call leaves its own, empty, name.
NamedIsFound(text) ==
    ExtractChannelContent(Named, text).names # {}
        => ExtractChannelContent(AllChannels, text).names # {}

ChannelInv ==
    faults = 0 /\ conf.kind = "basic" /\ conf.filter =>
        /\ supported
        /\ ~Idle /\ turn.roles = <<"user">> => index = 0
        /\ turn.pc = "prefill" => \A i \in DOMAIN turn.inputs : Plain(turn.inputs[i])
        /\ \A p \in DOMAIN context : index = 0 \/ p <= checkpoint => Plain(context[p])
=============================================================================
