------------------------------- MODULE TurnText -------------------------------
(***************************************************************************)
(* The text a session is given: where turns are opened and closed.          *)
(*                                                                          *)
(* A conversation renders each message with the single-turn template        *)
(* (GetSingleTurnTextFromSingleTurnTemplate of conversation.cc and          *)
(* RenderSingleTurnTemplate of gemma3_data_processor.cc): a message sent    *)
(* with has_pending_message leaves its turn open for the next one.  A       *)
(* session that applies the prompt templates itself opens and closes the    *)
(* turns around the chunks it is given (ApplyPromptTemplates of             *)
(* session_utils.cc).  One of the two is chosen.                            *)
(*                                                                          *)
(* Prefills succeed, and turns are decoded by RunDecode, or by              *)
(* RunDecodeAsync of SessionAdvanced; RunDecodeAsync of SessionBasic        *)
(* applies no template.                                                     *)
(***************************************************************************)
EXTENDS Integers, Sequences, FiniteSets

CONSTANTS
    Roles,      \* of messages: some of "user", "tool", "system"
    MaxSent     \* bound on the messages or chunks sent

VARIABLES
    inSession,  \* apply_prompt_template_in_session
    onInit,     \* prefill_preface_on_init
    history,    \* the roles of the messages in history_
    appending,  \* is_appending_message_
    state,      \* session_state_
    given,      \* what the session was given, and its replies
    sent        \* messages or chunks sent

turnVars == <<inSession, onInit, history, appending, state, given, sent>>

\* What the text is made of.
Open(speaker) == <<"open", speaker>>
Close         == <<"close">>
Fence         == <<"tool_outputs">>
EndFence      == <<"end of outputs">>
Text(n, role) == <<"text", role, n>>
Reply         == <<"reply">>

(***************************************************************************)
(* The single-turn template, here that of Gemma 3n with pending messages    *)
(* (components/testdata): tool and system messages speak as the user.       *)
(***************************************************************************)
TemplateApply(role, text, isFirstPart, isLastPart, generate) ==
    (IF isFirstPart THEN <<Open("user")>> ELSE <<>>)
    \o (IF isFirstPart /\ role = "tool" THEN <<Fence>> ELSE <<>>)
    \o text
    \o (IF isLastPart /\ role = "tool" THEN <<EndFence>> ELSE <<>>)
    \o (IF isLastPart THEN <<Close>> ELSE <<>>)
    \o (IF generate THEN <<Open("model")>> ELSE <<>>)

\* The preface, with the empty user message put behind it: a turn of its own.
PrefaceText == <<Open("user"), Text(0, "system"), Close>>

Last(s) == s[Len(s)]

\* Mutant of ClosingText: a change of role does not close the turn.
ClosingTextNever(role) == <<>>

\* The turn of a pending message of another role is closed; a system message
\* goes on with the next one.
IsRoleChanged(role) ==
    history # <<>> /\ appending /\ Last(history) \notin {role, "system"}

ClosingText(role) ==
    IF IsRoleChanged(role) THEN TemplateApply(Last(history), <<>>, FALSE, TRUE, FALSE)
    ELSE <<>>

\* RenderSingleTurnTemplate: the text, with the preface before the first
\* message unless it has been prefilled.
RenderSingleTurnTemplate(role, text, pending) ==
    (IF history = <<>> /\ ~onInit THEN PrefaceText ELSE <<>>)
    \o ClosingText(role)
    \o TemplateApply(role, text, ~appending \/ IsRoleChanged(role), ~pending, ~pending)

TurnInit ==
    /\ inSession \in BOOLEAN
    /\ onInit \in (IF inSession THEN {FALSE} ELSE BOOLEAN)
    /\ history = <<>> /\ appending = FALSE
    /\ state = IF onInit THEN "prefilled" ELSE "fresh"
    /\ given = IF onInit THEN PrefaceText ELSE <<>>
    /\ sent = 0

\* SendMessage: the message is prefilled and, if none is pending, answered.  An
\* empty message only has the turn answered.  A tool message directly behind
\* a pending system message is left out: the fence of its outputs would not
\* be opened.
SendMessage(role, empty, pending) ==
    /\ ~inSession /\ sent < MaxSent
    /\ appending /\ Last(history) = "system" => role # "tool"
    /\ sent' = sent + 1
    /\ LET text == IF empty THEN <<>> ELSE <<Text(sent + 1, role)>>
       IN given' = given \o RenderSingleTurnTemplate(role, text, pending)
                   \o (IF pending THEN <<>> ELSE <<Reply>>)
    /\ history' = history \o (IF pending THEN <<role>> ELSE <<role, "assistant">>)
    /\ appending' = pending
    /\ state' = IF pending THEN "prefilled" ELSE "decoded"
    /\ UNCHANGED <<inSession, onInit>>

(***************************************************************************)
(* A session that applies the templates.                                    *)
(***************************************************************************)
ContentType == IF state \in {"fresh", "decoded"} THEN "first" ELSE "middle"

\* ApplyPromptTemplates: the user's prefix before the first of the contents,
\* text or not; the user's suffix and the model's prefix behind the last chunk.
ApplyPromptTemplates(contents, type) ==
    (IF type = "first" THEN <<Open("user")>> ELSE <<>>)
    \o contents
    \o (IF type = "last" THEN <<Close, Open("model")>> ELSE <<>>)

\* RunPrefill and RunPrefillAsync, of one or two contents.
RunPrefill(n) ==
    /\ inSession /\ sent + n <= MaxSent
    /\ sent' = sent + n
    /\ given' = given \o ApplyPromptTemplates([i \in 1..n |-> Text(sent + i, "user")],
                                              ContentType)
    /\ state' = "prefilled"
    /\ UNCHANGED <<inSession, onInit, history, appending>>

\* RunDecode, refused by a session that is not prefilled.
RunDecode ==
    /\ inSession /\ state = "prefilled"
    /\ given' = given \o ApplyPromptTemplates(<<>>, "last") \o <<Reply>>
    /\ state' = "decoded"
    /\ UNCHANGED <<inSession, onInit, history, appending, sent>>

TurnNext ==
    \/ \E role \in Roles, empty, pending \in BOOLEAN : SendMessage(role, empty, pending)
    \/ \E n \in 1..2 : RunPrefill(n)
    \/ RunDecode

TurnSpec == TurnInit /\ [][TurnNext]_turnVars

(***************************************************************************)
(* Properties.                                                              *)
(***************************************************************************)
\* The last of the symbols before i that is one of S.
LastBefore(i, S) ==
    LET at == {j \in 1..(i - 1) : given[j] \in S}
    IN IF at = {} THEN <<>> ELSE given[CHOOSE j \in at : \A k \in at : k <= j]

Ends == {Close, Reply}
Turns == {Open("user"), Open("model")} \cup Ends

Messages == {i \in DOMAIN given : given[i][1] = "text"}

\* However messages are split, left pending and mixed, what the model reads is
\* a sequence of whole turns: a turn is opened only where none is open and
\* closed only where one is, each message is inside a user's turn, the outputs
\* of tools and they alone inside a fence, and the model answers where its
\* turn was opened; the texts are there in their order, each once
\* (conversation.h on has_pending_message: "append multiple messages to the
\* conversation, but only want to generate a response once").
TurnsClosed ==
    /\ \A i \in DOMAIN given :
         LET before == LastBefore(i, Turns)
         IN CASE given[i][1] = "open" -> before = <<>> \/ before \in Ends
              [] given[i] = Close     -> before = Open("user")
              [] given[i] = Reply     -> before = Open("model") /\ given[i - 1] = before
              [] given[i][1] = "text" ->
                   /\ before = Open("user")
                   /\ (given[i][2] = "tool") = (LastBefore(i, {Fence, EndFence}) = Fence)
              [] OTHER                -> before = Open("user")
    /\ \A i, j \in Messages : i < j => given[i][3] < given[j][3]
    /\ state = "decoded" => Last(given) = Reply
=============================================================================
