------------------------------- MODULE ToolLoop -------------------------------
(***************************************************************************)
(* Automatic tool calling in the Kotlin Conversation, over the JNI bridge:  *)
(* the loop of the blocking sendMessage, and the callback of the streaming  *)
(* one, which runs the tools of a message as it arrives and sends what they *)
(* answered when the turn is done.                                          *)
(*                                                                          *)
(* The native conversation calls back from one thread, in order.  A message *)
(* is what it holds: text, or tool calls.                                   *)
(***************************************************************************)
EXTENDS Naturals, Sequences

CONSTANTS
    RecurringToolCallLimit,
    AutomaticToolCalling,
    MessagesPerTurn  \* the messages of one streamed turn, at most

VARIABLES
    mode,      \* "idle", then "blocking" or "streaming", and "over"
    turn,      \* the messages of the turn the user has not been called with
    pending,   \* the calls answered by pendingToolResponseJSONMessage
    count,     \* tool turns of the loop, or toolCallCount
    executed,  \* the tool calls that have been executed: their number
    returned,  \* those whose answer was sent to the model
    told       \* what the user was last told: "", "done", "stopped" or "error"

vars == <<mode, turn, pending, count, executed, returned, told>>

Init ==
    /\ mode = "idle" /\ turn = <<>> /\ pending = {} /\ count = 0
    /\ executed = 0 /\ returned = {} /\ told = ""

\* What the model may say: each message of a streamed turn is text or calls.
Turns == UNION {[1 .. n -> {"text", "calls"}] : n \in 1 .. MessagesPerTurn}

\* handleToolCalls, the calls of one message counting as one.
HandleToolCalls ==
    /\ executed' = executed + 1
    /\ pending' = {executed'}

SendMessage ==
    /\ mode = "idle"
    /\ mode' = "blocking"
    /\ UNCHANGED <<turn, pending, count, executed, returned, told>>

\* One round of sendMessage: what was pending is sent, and the model replies.
Round ==
    /\ mode = "blocking" /\ told = ""
    /\ IF count = RecurringToolCallLimit
       THEN told' = "error" /\ UNCHANGED <<pending, count, executed, returned>>
       ELSE /\ returned' = returned \cup pending
            /\ count' = count + 1
            /\ \/ told' = "done" /\ pending' = {} /\ UNCHANGED executed
               \/ AutomaticToolCalling /\ HandleToolCalls /\ UNCHANGED told
               \/ told' = "error" /\ pending' = {} /\ UNCHANGED executed
    /\ UNCHANGED <<mode, turn>>

SendMessageAsync ==
    /\ mode = "idle"
    /\ mode' = "streaming"
    /\ turn' \in Turns
    /\ UNCHANGED <<pending, count, executed, returned, told>>

\* onMessage.  Past the limit the user is told of an error, and the turn goes on.
OnMessage ==
    /\ mode = "streaming" /\ turn # <<>>
    /\ turn' = Tail(turn)
    /\ IF Head(turn) = "text" \/ ~AutomaticToolCalling
       THEN UNCHANGED <<pending, count, executed, told>>
       ELSE IF count >= RecurringToolCallLimit
       THEN told' = "error" /\ UNCHANGED <<pending, count, executed>>
       ELSE HandleToolCalls /\ count' = count + 1 /\ UNCHANGED told
    /\ UNCHANGED <<mode, returned>>

\* onDone: the pending answer is sent as the next turn, unless that fails, when
\* the exception thrown in the callback reaches nobody.
OnDone ==
    /\ mode = "streaming" /\ turn = <<>>
    /\ pending' = {}
    /\ IF pending = {}
       THEN told' = "done" /\ mode' = "over" /\ UNCHANGED <<turn, returned>>
       ELSE \/ /\ returned' = returned \cup pending
               /\ turn' \in Turns
               /\ UNCHANGED <<mode, told>>
            \/ /\ mode' = "over"
               /\ UNCHANGED <<turn, returned, told>>
    /\ UNCHANGED <<count, executed>>

\* onError ends the turn; the bridge calls back no more (terminal_reached).
OnError ==
    /\ mode = "streaming"
    /\ told' = "error" /\ mode' = "over" /\ turn' = <<>>
    /\ UNCHANGED <<pending, count, executed, returned>>

Next == SendMessage \/ Round \/ SendMessageAsync \/ OnMessage \/ OnDone \/ OnError

Spec == Init /\ [][Next]_vars

(***************************************************************************)
(* "If a tool call is detected, the corresponding tool is executed, and the *)
(* result is sent back to the model": when the user is told that the reply  *)
(* is complete, every tool call that was executed has had its answer sent.  *)
(***************************************************************************)
AnswersReturned == told = "done" => 1 .. executed \subseteq returned
=============================================================================
