-------------------------------- MODULE MCParts --------------------------------
(***************************************************************************)
(* The small parts of the system, each on an instance of its own.  A        *)
(* behaviour picks one part and runs it; the others stay as they are.  The  *)
(* contexts of the sessions (ResourceManager) are one of them; its handlers *)
(* are interchangeable, and the other parts have none.                      *)
(***************************************************************************)
EXTENDS ResourceManager, FlowAgent, SightCoreWebSocket, AudioWindows, StopTokens,
    EmbeddingLookup, ModelFile, TurnText, TLC

VARIABLES
    part,
    reply  \* ChannelParser

embedVars == <<supports, lookups, prompt, fed, pendingRow, prefills, busy>>
fileVars  == <<sections, onceAdded, system, bytes, header, loader, alignment,
               locations, maps, regions, buffers, wants, handed>>
partVars == <<part, reply, stopVars, embedVars, fileVars, agentVars, turnVars, linkVars, windowVars>>

\* A prompt of two tokens, and one of an embedding.
MCInputs == {<<1, 2>>, <<-1>>}
MCHandlers == Permutations(Handler)

\* Symbol 1 is text; 2, 3 opens a channel and 5, 2 a tool call, so that one
\* start may begin where the other ends, and both ends begin with 4.
Channels == INSTANCE ChannelParser WITH
    Named <- << [name |-> "thought", start |-> <<2, 3>>, end |-> <<4, 2>>] >>,
    CodeFence <- << <<5, 2>>, <<4, 5>> >>,
    Unparsed <- { <<1>>, <<1, 1>> }
MaxText == 6

\* Sequences that begin inside one another, and some that keep apart.
MCStops  == {<<1>>, <<1, 2>>, <<2, 3>>, <<1, 3, 2>>, <<1, 1>>, <<2, 1, 3>>}
MCStream == <<5, 3>>

\* Windows that overlap, that touch and that leave samples out.
SoundShape(frame, hop, semicausal) == [frame |-> frame, hop |-> hop, semicausal |-> semicausal]
MCShapes == {SoundShape(3, 2, s) : s \in BOOLEAN} \cup {SoundShape(4, 1, s) : s \in BOOLEAN}
            \cup {SoundShape(2, 2, TRUE), SoundShape(2, 3, FALSE), SoundShape(1, 4, FALSE)}

PartsInit ==
    /\ part \in {"channels", "stop", "embed", "file", "agent", "text", "link", "sound",
               "contexts"}
    /\ Init
    /\ reply = Channels!NoReply
    /\ StopInit /\ EmbedInit /\ FileInit /\ AgentInit
    /\ TurnInit /\ SocketInit /\ WindowInit
    \* The parts that do not run start one way only.
    /\ part # "stop" => Len(detector) = 1
    /\ part # "embed" => supports
    /\ part # "file" => alignment = 1
    /\ part # "text" => inSession
    /\ part # "sound" => shape = SoundShape(3, 2, FALSE)

\* The next piece of a reply: one symbol, or what the model makes of two.
Arrive == \E n \in 1..2 : \E piece \in [1..n -> 1..5] :
    /\ Len(reply.text) + n <= MaxText
    /\ reply' = Channels!Receive(reply, piece)

PartsNext ==
    \/ /\ part = "channels" /\ Arrive
       /\ UNCHANGED <<part, vars, stopVars, embedVars, fileVars, agentVars, turnVars, linkVars, windowVars>>
    \/ /\ part = "stop" /\ StopNext
       /\ UNCHANGED <<part, vars, reply, embedVars, fileVars, agentVars, turnVars, linkVars, windowVars>>
    \/ /\ part = "embed" /\ EmbedNext
       /\ UNCHANGED <<part, vars, reply, stopVars, fileVars, agentVars, turnVars, linkVars, windowVars>>
    \/ /\ part = "file" /\ FileNext
       /\ UNCHANGED <<part, vars, reply, stopVars, embedVars, agentVars, turnVars, linkVars, windowVars>>
    \/ /\ part = "agent" /\ AgentNext
       /\ UNCHANGED <<part, vars, reply, stopVars, embedVars, fileVars, turnVars, linkVars, windowVars>>
    \/ /\ part = "text" /\ TurnNext
       /\ UNCHANGED <<part, vars, reply, stopVars, embedVars, fileVars, agentVars, linkVars, windowVars>>
    \/ /\ part = "link" /\ SocketNext
       /\ UNCHANGED <<part, vars, reply, stopVars, embedVars, fileVars, agentVars, turnVars, windowVars>>
    \/ /\ part = "sound" /\ WindowNext
       /\ UNCHANGED <<part, vars, reply, stopVars, embedVars, fileVars, agentVars, turnVars, linkVars>>
    \/ /\ part = "contexts" /\ Next /\ UNCHANGED partVars

PartsSpec == PartsInit /\ [][PartsNext]_<<vars, partVars>>

\* A reply is taken apart the same however it is cut into pieces
\* (internal_callback_util.cc).
PiecesDoNotMatter == Channels!PiecesDoNotMatter(reply)
=============================================================================
