---------------------------- MODULE AudioContexts ----------------------------
(***************************************************************************)
(* The state of the streaming audio encoder, as the sessions take turns at *)
(* it.  A context is a set of tensor buffers (here: one memory), the       *)
(* encoder reads its input memory and writes its output memory, and after  *)
(* each chunk the two are swapped.  The resource manager saves the state   *)
(* of the session that leaves and restores that of the session that comes. *)
(* Whether two handles on a memory share it is all that matters here, so   *)
(* the content of a memory is just the chunks that went into it.           *)
(*                                                                         *)
(* The manager is one that has such an executor.  In this repository only  *)
(* a test can give it one: TryLoadingAudioExecutor (resource_manager.cc)   *)
(* refuses every backend.                                                  *)
(***************************************************************************)
EXTENDS Naturals, Sequences, FiniteSets, TLC

CONSTANTS Handler,    \* the context handlers, all with an audio context
          NoHandler,
          Memory,     \* the memories: four more than there are handlers suffice
          Unset,      \* what an uninitialised previous mask holds
          MaxChunks   \* the chunks given to the encoder in a run

VARIABLES sessions,  \* the handlers of the sessions there are
          saved,     \* handler there has been -> the memory of its saved context
          current,   \* current_handler_
          input,     \* the memory of the encoder's state inputs
          output,    \* the memory of the encoder's state outputs
          content,   \* memory -> the chunks its features and its mask stem from
          chunks     \* the number of chunks encoded

vars == <<sessions, saved, current, input, output, content, chunks>>

Cleared == [features |-> <<>>, mask |-> <<>>]

Held == {input, output} \cup {saved[h] : h \in (sessions \cup {current}) \ {NoHandler}}

Free == CHOOSE m \in Memory : m \notin Held

Init ==
  /\ sessions = {} /\ saved = <<>>
  /\ current = NoHandler
  /\ input = CHOOSE m \in Memory : TRUE
  /\ output = CHOOSE m \in Memory : m # input
  /\ content = [m \in Memory |-> Cleared]
  /\ chunks = 0

(***************************************************************************)
(* CreateNewContext makes the buffers of the new context; the mask it sets *)
(* to ones is that of the encoder, not that of the new context.            *)
(***************************************************************************)
CreateContextHandler(h) ==
  /\ h \notin DOMAIN saved
  /\ sessions' = sessions \cup {h}
  /\ saved' = saved @@ (h :> Free)
  /\ content' = [content EXCEPT ![Free] = [features |-> <<>>, mask |-> <<Unset>>],
                                ![input].mask = <<>>]
  /\ UNCHANGED <<current, input, output, chunks>>

(***************************************************************************)
(* The clone gets handles on the memories the saved context of the session *)
(* has, the session being loaded or not.                                   *)
(***************************************************************************)
CloneContextHandler(h, clone) ==
  /\ h \in sessions
  /\ clone \notin DOMAIN saved
  /\ sessions' = sessions \cup {clone}
  /\ saved' = saved @@ (clone :> saved[h])
  /\ UNCHANGED <<current, input, output, content, chunks>>

(***************************************************************************)
(* The switch: a copy of the encoder's state is saved for the handler that *)
(* leaves, and the encoder gets handles on the memories of the saved       *)
(* context of the one that comes.  Nothing is restored for the first one.  *)
(***************************************************************************)
AcquireExecutorWithContextHandler(h) ==
  /\ h \in sessions \ {current}
  /\ current' = h
  /\ IF current = NoHandler
     THEN UNCHANGED <<saved, input, content>>
     ELSE /\ saved' = [saved EXCEPT ![current] = Free]
          /\ content' = [content EXCEPT ![Free] = content[input]]
          /\ input' = saved[h]
  /\ UNCHANGED <<sessions, output, chunks>>

(***************************************************************************)
(* One chunk: the model reads the input state and writes the output state, *)
(* and the buffers are swapped.                                            *)
(***************************************************************************)
Encode ==
  /\ current \in sessions
  /\ chunks < MaxChunks
  /\ chunks' = chunks + 1
  /\ content' = [content EXCEPT ![output] =
                   [features |-> Append(content[input].features, chunks'),
                    mask     |-> Append(content[input].mask, chunks')]]
  /\ input' = output
  /\ output' = input
  /\ UNCHANGED <<sessions, saved, current>>

\* The release of the only session clears the encoder's inputs.
ReleaseSession(h) ==
  /\ h \in sessions
  /\ sessions' = sessions \ {h}
  /\ content' = IF sessions = {h} THEN [content EXCEPT ![input] = Cleared] ELSE content
  /\ UNCHANGED <<saved, current, input, output, chunks>>

Next ==
  \/ \E h \in Handler : \/ CreateContextHandler(h)
                        \/ AcquireExecutorWithContextHandler(h)
                        \/ ReleaseSession(h)
  \/ \E h, clone \in Handler : CloneContextHandler(h, clone)
  \/ Encode

Spec == Init /\ [][Next]_vars

(***************************************************************************)
(* What the declaration of AudioContext::Clone says of it, a deep copy:    *)
(* while another session is loaded, nothing that is done with the encoder  *)
(* changes the saved state of a session.                                   *)
(***************************************************************************)
OthersUntouched ==
  [][\A h \in sessions : h \notin {current, current'} =>
       content'[saved'[h]] = content[saved[h]]]_vars
=============================================================================
