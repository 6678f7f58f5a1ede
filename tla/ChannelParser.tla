----------------------------- MODULE ChannelParser -----------------------------
(***************************************************************************)
(* How the text of an asynchronous reply is taken apart while it arrives    *)
(* (internal_callback_util.cc) and once it is complete (channel_util.cc).   *)
(*                                                                          *)
(* A text is a sequence of symbols, a channel is marked by a start and an   *)
(* end delimiter.  What lies inside a named channel goes to the caller      *)
(* under that name as it arrives; a tool call, the channel with the empty   *)
(* name, is held back until it is whole.                                    *)
(***************************************************************************)
EXTENDS Integers, Sequences, FiniteSets, SequencesExt

CONSTANTS
    Named,      \* the channels of the configuration: [name, start, end]
    CodeFence,  \* <<start, end>> of tool calls, <<>> without tools
    Unparsed    \* blocks of code the parser of tool calls refuses

ToolCall == ""

\* GetChannels: tool calls are searched for like a channel.
AllChannels ==
    (IF CodeFence = <<>> THEN <<>>
     ELSE <<[name |-> ToolCall, start |-> CodeFence[1], end |-> CodeFence[2]]>>) \o Named

From(text, cursor) == SubSeq(text, cursor + 1, Len(text))
Part(text, first, last) == SubSeq(text, first + 1, last)

\* string::find: the first offset, not before cursor, where pattern is found.
Offsets(text, pattern, cursor) ==
    {p \in cursor..(Len(text) - Len(pattern)) : Part(text, p, p + Len(pattern)) = pattern}

Least(S) == CHOOSE x \in S : \A y \in S : x <= y
Most(S)  == CHOOSE x \in S : \A y \in S : y <= x

SuffixPrefixOverlap(a, b) ==
    Most({0} \cup {n \in 1..(IF Len(a) < Len(b) THEN Len(a) ELSE Len(b)) :
                     From(a, Len(a) - n) = SubSeq(b, 1, n)})

\* Mutant of FindMaxOverlap: only the first channel is looked at.
OverlapWithFirst(text) ==
    IF AllChannels = <<>> THEN 0 ELSE SuffixPrefixOverlap(text, AllChannels[1].start)

FindMaxOverlap(text) ==
    Most({0} \cup {SuffixPrefixOverlap(text, AllChannels[c].start) : c \in DOMAIN AllChannels})

\* FindNextChannelStart: the earliest start, of the first channel that has it;
\* 0 for none.
FindNextChannelStart(text, cursor) ==
    LET found == {c \in DOMAIN AllChannels : Offsets(text, AllChannels[c].start, cursor) # {}}
        At(c) == Least(Offsets(text, AllChannels[c].start, cursor))
    IN IF found = {} THEN [channel |-> 0, at |-> 0]
       ELSE LET first == Least({At(c) : c \in found})
            IN [channel |-> Least({c \in found : At(c) = first}), at |-> first]

(***************************************************************************)
(* ParseTextAndToolCalls, as ModelDataProcessor::ToMessage calls it: what   *)
(* lies between a start of a code fence and the next end is a block of      *)
(* code.  An empty one is passed over, one that does not parse makes the    *)
(* whole text no message.  Fences are plain text, as escape_fence_strings   *)
(* has them by default.                                                     *)
(***************************************************************************)
NextBlock(s) ==
    LET starts == Offsets(s.rest, CodeFence[1], 0)
        inside == Least(starts) + Len(CodeFence[1])
        ends   == Offsets(s.rest, CodeFence[2], inside)
    IN IF starts = {} \/ ends = {} THEN s
       ELSE [blocks |-> s.blocks \cup {Part(s.rest, inside, Least(ends))},
             rest   |-> From(s.rest, Least(ends) + Len(CodeFence[2]))]

Blocks(text) ==
    IF CodeFence = <<>> THEN {}
    ELSE FoldLeft(LAMBDA s, i : NextBlock(s), [blocks |-> {}, rest |-> text],
                  [i \in 1..Len(text) |-> i]).blocks \ {<<>>}

HoldsCall(text) == Blocks(text) # {}
ToMessageFails(text) == Blocks(text) \cap Unparsed # {}

(***************************************************************************)
(* The state of the callback; `sent' is what the caller has been given:     *)
(* text, whole tool calls, the text of channels, and an error in place of   *)
(* what cannot be made into a message.  Neighbouring pieces of text of one  *)
(* kind are one piece here.                                                 *)
(***************************************************************************)
NoReply == [text |-> <<>>, cursor |-> 0, channel |-> 0, start |-> 0,
            sent |-> <<>>, waits |-> FALSE]

\* SendMessage for text and tool calls, SendMessageToChannel for the rest,
\* which ToMessage does not see.  After an error the reply goes on.
Give(s, kind, text) ==
    LET n       == Len(s.sent)
        refused == kind \in {"text", "call"} /\ ToMessageFails(text)
    IN IF text = <<>> THEN s
       ELSE IF n > 0 /\ kind # "call" /\ ~refused /\ s.sent[n].kind = kind
            THEN [s EXCEPT !.sent[n].text = @ \o text]
            ELSE [s EXCEPT !.sent = Append(@, [kind |-> IF refused THEN "error" ELSE kind,
                                               text |-> text])]

Refusals(s) == {i \in DOMAIN s.sent : s.sent[i].kind = "error"}

Wait(s) == [s EXCEPT !.waits = TRUE]

\* Outside every channel: up to the start of one, or up to what may become one.
Outside(s) ==
    LET next == FindNextChannelStart(s.text, s.cursor)
        c    == next.channel
        hold == Len(s.text) - FindMaxOverlap(From(s.text, s.cursor))
        Upto(p) == [Give(s, "text", Part(s.text, s.cursor, p)) EXCEPT !.cursor = p]
    IN IF c = 0 THEN (IF hold < Len(s.text) THEN Wait(Upto(hold)) ELSE Upto(hold))
       ELSE [Upto(next.at) EXCEPT
               !.channel = c, !.start = next.at,
               !.cursor = next.at + (IF AllChannels[c].name = ToolCall THEN 0
                                     ELSE Len(AllChannels[c].start))]

\* Inside a channel: up to its end, or up to what may become its end.
Inside(s) ==
    LET ch     == AllChannels[s.channel]
        after  == s.start + Len(ch.start)
        search == IF s.cursor > after THEN s.cursor ELSE after
        ends   == Offsets(s.text, ch.end, search)
        past   == Least(ends) + Len(ch.end)
        safe   == Len(s.text) - SuffixPrefixOverlap(From(s.text, search), ch.end)
    IN IF ends # {}
       THEN [(IF ch.name = ToolCall THEN Give(s, "call", Part(s.text, s.cursor, past))
              ELSE Give(s, ch.name, Part(s.text, s.cursor, Least(ends))))
             EXCEPT !.cursor = past, !.channel = 0]
       ELSE IF ch.name # ToolCall /\ safe > s.cursor
            THEN Wait([Give(s, ch.name, Part(s.text, s.cursor, safe)) EXCEPT !.cursor = safe])
            ELSE Wait(s)

\* One round of the loop of CreateInternalCallback.
Round(s) ==
    IF s.waits \/ s.cursor >= Len(s.text) THEN s
    ELSE LET t == IF s.channel = 0 THEN Outside(s) ELSE s
         IN IF t.channel = 0 THEN t ELSE Inside(t)

\* The callback with one more piece of the reply.
Receive(s, piece) ==
    LET t == [s EXCEPT !.text = @ \o piece, !.waits = FALSE]
    IN [FoldLeft(LAMBDA u, i : Round(u), t, [i \in 1..(Len(t.text) + 1) |-> i])
        EXCEPT !.waits = FALSE]

\* SendCompleteMessage first sends what is still held back.
Flush(s) ==
    LET kind == IF s.channel # 0 /\ AllChannels[s.channel].name # ToolCall
                THEN AllChannels[s.channel].name ELSE "text"
    IN [Give(s, kind, From(s.text, s.cursor)) EXCEPT !.cursor = Len(s.text)]

(***************************************************************************)
(* ExtractChannelContent: channel by channel, what is inside it is taken    *)
(* out of the text; without an end, up to the end of the text.  A channel   *)
(* that holds nothing is left in.                                           *)
(***************************************************************************)
Cut(ch, s) ==
    LET starts == Offsets(s.rest, ch.start, 0)
        inside == Least(starts) + Len(ch.start)
        ends   == Offsets(s.rest, ch.end, inside)
    IN IF starts = {} THEN s
       ELSE [before |-> s.before \o Part(s.rest, 0, Least(starts)),
             inside |-> s.inside \o (IF ends = {} THEN From(s.rest, inside)
                                     ELSE Part(s.rest, inside, Least(ends))),
             rest   |-> IF ends = {} THEN <<>>
                        ELSE From(s.rest, Least(ends) + Len(ch.end))]

Extract(s, ch) ==
    LET cut == FoldLeft(LAMBDA u, i : Cut(ch, u),
                        [before |-> <<>>, inside |-> <<>>, rest |-> s.text],
                        [i \in 1..Len(s.text) |-> i])
    IN IF cut.inside = <<>> THEN s
       ELSE [text |-> cut.before \o cut.rest, names |-> s.names \cup {ch.name}]

ExtractChannelContent(channels, text) ==
    FoldLeft(Extract, [text |-> text, names |-> {}], channels)

(***************************************************************************)
(* Where a reply is divided into pieces does not matter: the caller has     *)
(* been given, and will be given at the end, what it would be given if the  *)
(* whole text came at once (the tests of internal_callback_util_test.cc     *)
(* split some delimiters).                                                  *)
(***************************************************************************)
PiecesDoNotMatter(s) == Flush(s).sent = Flush(Receive(NoReply, s.text)).sent
=============================================================================
