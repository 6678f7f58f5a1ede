---------------------------- MODULE MCConversation ----------------------------
EXTENDS Conversation

\* A channel and a code fence whose delimiters begin alike.
MCNamed == << [name |-> "thought", start |-> <<2, 3>>, end |-> <<4, 2>>] >>
MCCodeFence == << <<2, 5>>, <<4, 5>> >>

\* One message of the user, and the answers of two tools at once.
MCBatches == { <<"user">>, <<"tool", "tool">> }

\* A block of code that is no tool call.
MCUnparsed == { <<3>> }

\* A plain reply, one that thinks first, one with a thought that never ends, one
\* with a call that does not parse and text behind it and, in the run about tool
\* calls, one with a call that does, their delimiters split.
MCReplies == { << <<1>> >>, << <<2>>, <<3, 1, 4>>, <<2, 1>> >>, << <<1, 2>>, <<3, 1, 4>> >>,
               << <<2>>, <<5, 3, 4>>, <<5, 1>> >> }
MCReplyWithCall == { << <<1>> >>, << <<2>>, <<5, 1, 4>>, <<5>> >> }

\* What the theorem about channels asks of them, for short texts.
ASSUME ChannelsOfShortTexts ==
    \A n \in 0..7 : \A text \in [1..n -> 1..5] : NamedIsFound(text)
=============================================================================
