------------------------------- MODULE PartsProofs -------------------------------
(***************************************************************************)
(* Proofs about small parts of the system: the gate of the agent, the       *)
(* socket that is connected again, the windows of a sound, the turns of a   *)
(* text, the embeddings of a prompt, the sections of a model file and the   *)
(* text before a stop sequence.  Each has an invariant of its own; the      *)
(* parts share nothing.                                                     *)
(***************************************************************************)
EXTENDS FlowAgent, SightCoreWebSocket, AudioWindows, TurnText, EmbeddingLookup, ModelFile,
    StopTokens, FiniteSetTheorems, FunctionTheorems, SequenceTheorems, WellFoundedInduction, TLAPS

(***************************************************************************)
(* Induction over the naturals, for a set: the smallest one outside of it.  *)
(***************************************************************************)
LEMMA NatLeast ==
    ASSUME NEW T \in SUBSET Nat, T # {}
    PROVE  \E x \in T : \A y \in T : x <= y
<1>1. IsWellFoundedOn(OpToRel(<, Nat), Nat)
  BY NatLessThanWellFounded
<1>2. PICK R : R = OpToRel(<, Nat)
  OBVIOUS
<1>3. \E x \in T : \A y \in T : ~ (<<y, x>> \in R)
  BY <1>1, <1>2, WFMin
<1>4. PICK x \in T : \A y \in T : ~ (<<y, x>> \in R)
  BY <1>3
<1>5. ASSUME NEW y \in T PROVE x <= y
  <2>1. <<y, x>> \notin OpToRel(<, Nat)
    BY <1>2, <1>4
  <2>2. ~(y < x)
    BY <2>1 DEF OpToRel
  <2>. QED  BY <2>2
<1>. QED  BY <1>5

LEMMA NatAll ==
    ASSUME NEW S, 0 \in S, \A n \in Nat : n \in S => n + 1 \in S
    PROVE  Nat \subseteq S
<1>. SUFFICES ASSUME ~(Nat \subseteq S) PROVE FALSE
  OBVIOUS
<1>1. PICK T : T = Nat \ S
  OBVIOUS
<1>2. T \in SUBSET Nat /\ T # {}
  BY <1>1
<1>3. PICK x \in T : \A y \in T : x <= y
  BY <1>2, NatLeast
<1>4. x \in Nat /\ x # 0
  BY <1>1
<1>5. x - 1 \in Nat /\ ~(x <= x - 1) /\ (x - 1) + 1 = x
  BY <1>4
<1>6. x - 1 \in S
  BY <1>1, <1>3, <1>5
<1>7. x \in S
  BY <1>5, <1>6
<1>. QED  BY <1>1, <1>7

LEMMA NatMost ==
    ASSUME NEW n \in Nat, NEW K \in SUBSET (0..n), K # {}
    PROVE  \E x \in K : \A y \in K : y <= x
<1>1. PICK T : T = {n - i : i \in K}
  OBVIOUS
<1>2. T \in SUBSET Nat /\ T # {}
  <2>1. \A i \in K : n - i \in Nat
    OBVIOUS
  <2>2. \A y \in T : y \in Nat
    BY <1>1, <2>1
  <2>3. T # {}
    BY <1>1
  <2>. QED  BY <2>2, <2>3
<1>3. PICK t \in T : \A y \in T : t <= y
  BY <1>2, NatLeast
<1>4. PICK x \in K : t = n - x
  BY <1>1
<1>5. ASSUME NEW y \in K PROVE y <= x
  <2>1. n - y \in T
    BY <1>1
  <2>2. n - x <= n - y
    BY <1>3, <1>4, <2>1
  <2>. QED  BY <2>2
<1>. QED  BY <1>5

(***************************************************************************)
(* The gate of the agent.                                                   *)
(***************************************************************************)
Places == {"idle", "queued", "admitted", "running", "done"}

\* Waiting in the queue and being in the state "queued" are the same, for each
\* invocation once.
QueueInv ==
    /\ at \in [Call -> Places] /\ inFlight \in Nat
    /\ queue \in Seq(Call) /\ executing \subseteq Call
    /\ \A i, j \in 1..Len(queue) : queue[i] = queue[j] => i = j
    /\ \A c \in Call : at[c] = "queued" <=> \E i \in 1..Len(queue) : queue[i] = c

CountInv ==
    /\ IsFiniteSet(Holding) /\ inFlight = Cardinality(Holding)
    /\ IF MaxConcurrency = 0 THEN queue = <<>>
       ELSE inFlight <= MaxConcurrency /\ (queue # <<>> => inFlight = MaxConcurrency)

AgentInv == QueueInv /\ CountInv

LEMMA HeadTail ==
    ASSUME NEW S, NEW s \in Seq(S), s # <<>>
    PROVE  /\ Head(s) \in S /\ Head(s) = s[1] /\ Len(s) > 0 /\ Len(s) \in Nat
           /\ Tail(s) \in Seq(S) /\ Len(Tail(s)) = Len(s) - 1
           /\ \A i \in 1..(Len(s) - 1) : Tail(s)[i] = s[i + 1]
OBVIOUS

\* What a slot that is given back leaves: nobody waits, or the first one has it.
LEMMA ReleaseKeeps ==
    ASSUME AgentInv, NEW c \in Call, at[c] \in {"admitted", "running"}, Release(c),
           executing' \subseteq Call
    PROVE  AgentInv'
<1>1. /\ at \in [Call -> Places] /\ inFlight \in Nat /\ queue \in Seq(Call)
      /\ IsFiniteSet(Holding) /\ inFlight = Cardinality(Holding) /\ c \in Holding
  BY DEF AgentInv, QueueInv, CountInv, Holding
<1>2. Cardinality(Holding \ {c}) = inFlight - 1 /\ IsFiniteSet(Holding \ {c}) /\ inFlight > 0
  <2>1. Cardinality(Holding \ {c}) = Cardinality(Holding) - 1 /\ IsFiniteSet(Holding \ {c})
    BY <1>1, FS_RemoveElement
  <2>2. Cardinality(Holding \ {c}) \in Nat
    BY <2>1, FS_CardinalityType
  <2>. QED  BY <1>1, <2>1, <2>2
<1>3. Less(inFlight) = inFlight - 1
  BY <1>1, <1>2 DEF Less
<1>4. CASE queue = <<>>
  <2>1. at' = [at EXCEPT ![c] = "done"] /\ inFlight' = inFlight - 1 /\ queue' = queue
    BY <1>3, <1>4 DEF Release
  <2>2. Holding' = Holding \ {c}
    BY <1>1, <2>1 DEF Holding
  <2>3. QueueInv'
    <3>1. at' \in [Call -> Places]
      BY <1>1, <2>1 DEF Places
    <3>2. inFlight' \in Nat
      BY <1>1, <1>2, <2>1
    <3>3. \A d \in Call : at'[d] = "queued" <=> at[d] = "queued"
      BY <1>1, <2>1
    <3>. QED  BY <2>1, <3>1, <3>2, <3>3 DEF AgentInv, QueueInv
  <2>4. CountInv'
    <3>1. MaxConcurrency # 0 => inFlight' <= MaxConcurrency
      BY <1>1, <2>1, ConcurrencyIsNumber DEF AgentInv, CountInv
    <3>. QED  BY <1>2, <1>4, <2>1, <2>2, <3>1 DEF CountInv
  <2>. QED  BY <2>3, <2>4 DEF AgentInv
<1>5. CASE queue # <<>>
  <2>0. PICK q, h, t : q = queue /\ h = Head(queue) /\ t = Tail(queue)
    OBVIOUS
  <2>1. /\ at' = [at EXCEPT ![c] = "done", ![h] = "admitted"]
        /\ inFlight' = inFlight /\ queue' = t
    <3>1. inFlight - 1 + 1 = inFlight
      BY <1>1
    <3>. QED  BY <1>3, <1>5, <2>0, <3>1 DEF Release
  <2>2. /\ h \in Call /\ h = q[1] /\ Len(q) > 0 /\ Len(q) \in Nat /\ q \in Seq(Call)
        /\ t \in Seq(Call) /\ Len(t) = Len(q) - 1
        /\ \A i \in 1..(Len(q) - 1) : t[i] = q[i + 1]
    BY <1>1, <1>5, <2>0, HeadTail
  <2>3. /\ \A i, j \in 1..Len(q) : q[i] = q[j] => i = j
        /\ \A d \in Call : at[d] = "queued" <=> \E i \in 1..Len(q) : q[i] = d
    BY <2>0 DEF AgentInv, QueueInv
  <2>4. at[h] = "queued" /\ h # c /\ h \notin Holding
    <3>1. 1 \in 1..Len(q)
      BY <2>2
    <3>. QED  BY <2>2, <2>3, <3>1 DEF Holding
  <2>5. Holding' = (Holding \ {c}) \cup {h}
    BY <1>1, <2>1, <2>2, <2>4 DEF Holding
  <2>6. IsFiniteSet(Holding') /\ Cardinality(Holding') = inFlight
    <3>1. /\ IsFiniteSet((Holding \ {c}) \cup {h})
          /\ Cardinality((Holding \ {c}) \cup {h}) = Cardinality(Holding \ {c}) + 1
      BY <1>2, <2>4, FS_AddElement
    <3>. QED  BY <1>1, <1>2, <2>5, <3>1
  <2>7. QueueInv'
    <3>1. at' \in [Call -> Places]
      BY <1>1, <2>1 DEF Places
    <3>2. \A i, j \in 1..Len(t) : t[i] = t[j] => i = j
      <4>1. \A i \in 1..Len(t) : i + 1 \in 1..Len(q) /\ t[i] = q[i + 1]
        BY <2>2
      <4>2. \A i, j \in 1..Len(t) : i + 1 = j + 1 => i = j
        OBVIOUS
      <4>. QED  BY <2>3, <4>1, <4>2
    <3>3. ASSUME NEW d \in Call
          PROVE  at'[d] = "queued" <=> \E i \in 1..Len(t) : t[i] = d
      <4>1. at'[d] = "queued" <=> at[d] = "queued" /\ d # h
        BY <1>1, <2>1, <2>2, <2>4
      <4>2. ASSUME NEW i \in 1..Len(q), q[i] = d, d # h
            PROVE  \E k \in 1..Len(t) : t[k] = d
        <5>1. i # 1 /\ i - 1 \in 1..Len(t) /\ i - 1 + 1 = i
          BY <2>2, <4>2
        <5>2. t[i - 1] = q[i]
          BY <2>2, <5>1
        <5>. QED  BY <4>2, <5>1, <5>2
      <4>3. ASSUME NEW i \in 1..Len(t), t[i] = d
            PROVE  d # h /\ \E k \in 1..Len(q) : q[k] = d
        <5>1. i + 1 \in 1..Len(q) /\ q[i + 1] = d /\ 1 \in 1..Len(q) /\ i + 1 # 1
          BY <2>2, <4>3
        <5>. QED  BY <2>2, <2>3, <5>1
      <4>. QED  BY <2>3, <4>1, <4>2, <4>3
    <3>4. /\ \A i, j \in 1..Len(queue') : queue'[i] = queue'[j] => i = j
          /\ \A d \in Call : at'[d] = "queued" <=> \E i \in 1..Len(queue') : queue'[i] = d
      <4>1. queue' = t
        BY <2>1
      <4>2. \A d \in Call : at'[d] = "queued" <=> \E i \in 1..Len(t) : t[i] = d
        BY <3>3, Zenon
      <4>. QED  BY <3>2, <4>1, <4>2
    <3>5. queue' \in Seq(Call) /\ inFlight' \in Nat
      BY <1>1, <2>1, <2>2
    <3>. QED  BY <3>1, <3>4, <3>5 DEF QueueInv
  <2>8. CountInv'
    BY <1>1, <1>5, <2>1, <2>6, ConcurrencyIsNumber DEF AgentInv, CountInv
  <2>. QED  BY <2>7, <2>8 DEF AgentInv
<1>. QED  BY <1>4, <1>5

LEMMA InvokeKeeps ==
    ASSUME AgentInv, NEW c \in Call, Invoke(c)
    PROVE  AgentInv'
<1>1. /\ at \in [Call -> Places] /\ inFlight \in Nat /\ queue \in Seq(Call) /\ at[c] = "idle"
      /\ IsFiniteSet(Holding) /\ inFlight = Cardinality(Holding) /\ c \notin Holding
      /\ executing' = executing
  BY DEF AgentInv, QueueInv, CountInv, Holding, Invoke
<1>2. CASE ~registered
  <2>1. at' = [at EXCEPT ![c] = "done"] /\ inFlight' = inFlight /\ queue' = queue
    BY <1>2 DEF Invoke
  <2>2. Holding' = Holding
    BY <1>1, <2>1 DEF Holding
  <2>3. at' \in [Call -> Places] /\ \A d \in Call : at'[d] = "queued" <=> at[d] = "queued"
    BY <1>1, <2>1 DEF Places
  <2>. QED  BY <1>1, <2>1, <2>2, <2>3 DEF AgentInv, QueueInv, CountInv
<1>3. CASE registered /\ Free(inFlight)
  <2>1. at' = [at EXCEPT ![c] = "admitted"] /\ inFlight' = inFlight + 1 /\ queue' = queue
    BY <1>3 DEF Invoke
  <2>2. Holding' = Holding \cup {c}
    BY <1>1, <2>1 DEF Holding
  <2>3. IsFiniteSet(Holding') /\ Cardinality(Holding') = inFlight + 1
    BY <1>1, <2>2, FS_AddElement
  <2>4. at' \in [Call -> Places] /\ \A d \in Call : at'[d] = "queued" <=> at[d] = "queued"
    BY <1>1, <2>1 DEF Places
  <2>5. MaxConcurrency # 0 => queue = <<>> /\ inFlight + 1 <= MaxConcurrency
    BY <1>1, <1>3, ConcurrencyIsNumber DEF AgentInv, CountInv, Free
  <2>6. QueueInv'
    <3>1. /\ \A i, j \in 1..Len(queue) : queue[i] = queue[j] => i = j
          /\ \A d \in Call : at[d] = "queued" <=> \E i \in 1..Len(queue) : queue[i] = d
          /\ executing \subseteq Call
      BY DEF AgentInv, QueueInv
    <3>2. \A d \in Call : at'[d] = "queued" <=> \E i \in 1..Len(queue) : queue[i] = d
      BY <2>4, <3>1, Zenon
    <3>3. inFlight' \in Nat
      BY <1>1, <2>1
    <3>. QED  BY <1>1, <2>1, <2>4, <3>1, <3>2, <3>3 DEF QueueInv
  <2>7. CountInv'
    BY <2>1, <2>3, <2>5 DEF AgentInv, CountInv
  <2>. QED  BY <2>6, <2>7 DEF AgentInv
<1>4. CASE registered /\ ~Free(inFlight)
  <2>0. PICK q : q = queue
    OBVIOUS
  <2>1. at' = [at EXCEPT ![c] = "queued"] /\ inFlight' = inFlight /\ queue' = Append(q, c)
    BY <1>4, <2>0 DEF Invoke
  <2>2. Holding' = Holding
    BY <1>1, <2>1 DEF Holding
  <2>3. /\ q \in Seq(Call) /\ Len(q) \in Nat /\ Append(q, c) \in Seq(Call)
        /\ Len(Append(q, c)) = Len(q) + 1 /\ Append(q, c)[Len(q) + 1] = c
        /\ \A i \in 1..Len(q) : Append(q, c)[i] = q[i]
    BY <1>1, <2>0
  <2>4. /\ \A i, j \in 1..Len(q) : q[i] = q[j] => i = j
        /\ \A d \in Call : at[d] = "queued" <=> \E i \in 1..Len(q) : q[i] = d
    BY <2>0 DEF AgentInv, QueueInv
  <2>5. PICK u : u = Append(q, c)
    OBVIOUS
  <2>6. \A i \in 1..Len(q) : q[i] # c /\ u[i] = q[i]
    BY <1>1, <2>3, <2>4, <2>5
  <2>7. \A i \in 1..(Len(q) + 1) : i \in 1..Len(q) \/ i = Len(q) + 1
    BY <2>3
  <2>8. QueueInv'
    <3>1. at' \in [Call -> Places]
      BY <1>1, <2>1 DEF Places
    <3>2. \A i, j \in 1..Len(u) : u[i] = u[j] => i = j
      BY <2>3, <2>4, <2>5, <2>6, <2>7
    <3>3. ASSUME NEW d \in Call
          PROVE  at'[d] = "queued" <=> \E i \in 1..Len(u) : u[i] = d
      <4>1. CASE d = c
        <5>1. at'[d] = "queued" /\ Len(q) + 1 \in 1..Len(u) /\ u[Len(q) + 1] = c
          BY <1>1, <2>1, <2>3, <2>5, <4>1
        <5>. QED  BY <4>1, <5>1
      <4>2. CASE d # c
        <5>1. at'[d] = at[d]
          BY <1>1, <2>1, <4>2
        <5>2. \A i \in 1..Len(q) : i \in 1..Len(u)
          BY <2>3, <2>5
        <5>3. u[Len(q) + 1] = c /\ Len(u) = Len(q) + 1
          BY <2>3, <2>5
        <5>. QED  BY <2>4, <2>6, <2>7, <4>2, <5>1, <5>2, <5>3
      <4>. QED  BY <4>1, <4>2
    <3>. QED  BY <1>1, <2>1, <2>3, <2>5, <3>1, <3>2, <3>3 DEF AgentInv, QueueInv
  <2>9. CountInv'
    <3>1. MaxConcurrency # 0 /\ inFlight = MaxConcurrency
      BY <1>1, <1>4, ConcurrencyIsNumber DEF AgentInv, CountInv, Free
    <3>. QED  BY <1>1, <2>1, <2>2, <3>1 DEF CountInv
  <2>. QED  BY <2>8, <2>9 DEF AgentInv
<1>. QED  BY <1>2, <1>3, <1>4

LEMMA AgentStep ==
    ASSUME AgentInv, [AgentNext]_agentVars
    PROVE  AgentInv'
<1>0. at \in [Call -> Places] /\ executing \subseteq Call
  BY DEF AgentInv, QueueInv
<1>1. ASSUME UNCHANGED <<at, inFlight, queue>>, executing' \subseteq Call
      PROVE  AgentInv'
  BY <1>1 DEF AgentInv, QueueInv, CountInv, Holding
<1>2. ASSUME Register \/ Unregister \/ UNCHANGED agentVars  PROVE AgentInv'
  BY <1>0, <1>1, <1>2 DEF Register, Unregister, agentVars
<1>3. ASSUME NEW c \in Call, Start(c)  PROVE AgentInv'
  <2>1. CASE Release(c) /\ UNCHANGED executing
    BY <1>0, <1>3, <2>1, ReleaseKeeps DEF Start
  <2>2. CASE /\ at' = [at EXCEPT ![c] = "running"] /\ executing' = executing \cup {c}
             /\ UNCHANGED <<inFlight, queue>>
    <3>1. at[c] = "admitted"
      BY <1>3 DEF Start
    <3>2. Holding' = Holding
      BY <1>0, <2>2, <3>1 DEF Holding
    <3>3. at' \in [Call -> Places] /\ \A d \in Call : at'[d] = "queued" <=> at[d] = "queued"
      BY <1>0, <2>2, <3>1 DEF Places
    <3>. QED  BY <1>0, <2>2, <3>2, <3>3 DEF AgentInv, QueueInv, CountInv
  <2>. QED  BY <1>3, <2>1, <2>2 DEF Start
<1>4. ASSUME NEW c \in Call, Finish(c)  PROVE AgentInv'
  <2>1. executing' \subseteq Call
    BY <1>0, <1>4 DEF Finish
  <2>2. CASE at[c] = "running"
    BY <1>4, <2>1, <2>2, ReleaseKeeps DEF Finish
  <2>3. CASE at[c] # "running"
    BY <1>1, <1>4, <2>1, <2>3 DEF Finish
  <2>. QED  BY <2>2, <2>3
<1>5. ASSUME NEW c \in Call, Timeout(c)  PROVE AgentInv'
  BY <1>0, <1>5, ReleaseKeeps DEF Timeout
<1>. QED  BY <1>2, <1>3, <1>4, <1>5, InvokeKeeps DEF AgentNext

\* However many invocations come, in whatever order they start, finish and time
\* out, and whatever limit is set: the gate's count is that of the invocations
\* past it, the limit holds, and none waits for a slot that is free.
THEOREM NoneIsForgotten ==
    AgentSpec => []NoneForgotten
<1>1. AgentInit => AgentInv
  <2>. SUFFICES ASSUME AgentInit  PROVE AgentInv
    OBVIOUS
  <2>1. Holding = {}
    BY DEF AgentInit, Holding
  <2>2. IsFiniteSet(Holding) /\ Cardinality(Holding) = 0
    BY <2>1, FS_EmptySet
  <2>. QED  BY <2>2, ConcurrencyIsNumber
            DEF AgentInit, AgentInv, QueueInv, CountInv, Places
<1>2. AgentInv /\ [AgentNext]_agentVars => AgentInv'
  BY AgentStep
<1>3. AgentInv => NoneForgotten
  <2>. SUFFICES ASSUME AgentInv  PROVE NoneForgotten
    OBVIOUS
  <2>1. DOMAIN queue = 1..Len(queue)
    BY DEF AgentInv, QueueInv
  <2>. QED  BY <2>1 DEF AgentInv, QueueInv, CountInv, NoneForgotten
<1>. QED  BY <1>1, <1>2, <1>3, PTL DEF AgentSpec

(***************************************************************************)
(* The connection.                                                          *)
(***************************************************************************)
States == {"none", "connecting", "open", "closing", "closed"}

\* A socket that is not closed is the last one made, and then no reconnection
\* is due; without one, one reconnection is due or all attempts are used up.
LinkInv ==
    /\ made \in 0..MaxSockets /\ attempts \in 0..MaxReconnectAttempts
    /\ timers \in 0..1 /\ heartbeat \in BOOLEAN
    /\ ready \in [1..MaxSockets -> States]
    /\ \A s \in 1..MaxSockets : s > made => ready[s] = "none"
    /\ \A s \in 1..made : s < made => ready[s] = "closed"
    /\ made = 0 => timers = 0
    /\ made > 0 => /\ ready[made] # "none"
                   /\ ready[made] # "closed" => timers = 0
                   /\ ready[made] = "closed" => timers = 1 \/ attempts = MaxReconnectAttempts
    /\ heartbeat => made > 0 /\ ready[made] \in {"open", "closing"}

LEMMA LinkStep ==
    ASSUME LinkInv, [SocketNext]_linkVars
    PROVE  LinkInv'
<1>0. /\ MaxReconnectAttempts \in Nat /\ MaxSockets \in Nat
      /\ made \in 0..MaxSockets /\ ready \in [1..MaxSockets -> States]
  BY SocketBounds DEF LinkInv
<1>1. ASSUME Connect \/ Reconnect  PROVE LinkInv'
  <2>1. made < MaxSockets /\ made' = made + 1 /\ ready' = [ready EXCEPT ![made + 1] = "connecting"]
    BY <1>1 DEF Connect, Reconnect, MakeSocket
  <2>2. attempts' = attempts /\ heartbeat' = heartbeat
    BY <1>1 DEF Connect, Reconnect
  <2>3. timers' = 0 /\ (made > 0 => ready[made] = "closed")
    BY <1>0, <1>1 DEF Connect, Reconnect, LinkInv
  <2>4. made + 1 \in 1..MaxSockets /\ "connecting" \in States
    BY <1>0, <2>1 DEF States
  <2>5. ready' \in [1..MaxSockets -> States]
    BY <1>0, <2>1, <2>4
  <2>6. \A s \in 1..MaxSockets : ready'[s] = IF s = made + 1 THEN "connecting" ELSE ready[s]
    BY <1>0, <2>1
  <2>7. ~heartbeat
    BY <2>3 DEF LinkInv
  <2>8. \A s \in 1..made' : s < made' => ready'[s] = "closed"
    <3>1. ASSUME NEW s \in 1..made', s < made'  PROVE ready'[s] = "closed"
      <4>1. s \in 1..made /\ s \in 1..MaxSockets /\ s # made + 1
        BY <1>0, <2>1, <3>1
      <4>2. ready[s] = "closed"
        <5>1. s < made \/ s = made
          BY <1>0, <4>1
        <5>. QED  BY <2>3, <4>1, <5>1 DEF LinkInv
      <4>. QED  BY <2>6, <4>1, <4>2
    <3>. QED  BY <3>1
  <2>. QED  BY <1>0, <2>1, <2>2, <2>3, <2>4, <2>5, <2>6, <2>7, <2>8 DEF LinkInv
<1>2. ASSUME NEW s \in 1..made, OnOpen(s)  PROVE LinkInv'
  <2>1. s = made
    BY <1>0, <1>2 DEF OnOpen, LinkInv
  <2>2. "open" \in States /\ 0 \in 0..MaxReconnectAttempts /\ TRUE \in BOOLEAN
    BY <1>0 DEF States
  <2>. QED  BY <1>0, <1>2, <2>1, <2>2 DEF OnOpen, LinkInv
<1>3. ASSUME CloseCurrent, UNCHANGED <<made, attempts, timers>>,
             heartbeat' \in BOOLEAN, heartbeat' => heartbeat
      PROVE  LinkInv'
  <2>1. CASE made > 0 /\ ready[made] \in {"connecting", "open"}
    <3>1. ready' = [ready EXCEPT ![made] = "closing"] /\ "closing" \in States
      BY <1>3, <2>1 DEF CloseCurrent, States
    <3>2. /\ ready' \in [1..MaxSockets -> States] /\ ready'[made] = "closing"
          /\ \A t \in 1..MaxSockets : t # made => ready'[t] = ready[t]
      BY <1>0, <2>1, <3>1
    <3>. QED  BY <1>0, <1>3, <2>1, <3>2 DEF LinkInv
  <2>2. CASE ~(made > 0 /\ ready[made] \in {"connecting", "open"})
    BY <1>3, <2>2 DEF CloseCurrent, LinkInv
  <2>. QED  BY <2>1, <2>2
<1>4. ASSUME NEW s \in 1..made, OnError(s)  PROVE LinkInv'
  BY <1>3, <1>4 DEF OnError, LinkInv
<1>5. ASSUME Disconnect  PROVE LinkInv'
  <2>1. heartbeat' \in BOOLEAN /\ ~heartbeat'
    <3>1. heartbeat' = FALSE
      BY <1>5 DEF Disconnect
    <3>. QED  BY <3>1, Zenon
  <2>. QED  BY <1>3, <1>5, <2>1 DEF Disconnect
<1>6. ASSUME NEW s \in 1..made, OnClose(s)  PROVE LinkInv'
  <2>1. s = made /\ made > 0 /\ timers = 0
    BY <1>0, <1>6 DEF OnClose, LinkInv
  <2>2. ready' = [ready EXCEPT ![made] = "closed"] /\ "closed" \in States /\ made' = made
    BY <1>6, <2>1 DEF OnClose, States
  <2>3. /\ ready' \in [1..MaxSockets -> States] /\ ready'[made] = "closed"
        /\ \A t \in 1..MaxSockets : t # made => ready'[t] = ready[t]
    BY <1>0, <2>1, <2>2
  <2>4. heartbeat' = FALSE
    BY <1>6 DEF OnClose
  <2>5. heartbeat' \in BOOLEAN /\ ~heartbeat'
    BY <2>4, Zenon
  <2>6. /\ attempts' \in 0..MaxReconnectAttempts /\ timers' \in 0..1
        /\ timers' = 1 \/ attempts' = MaxReconnectAttempts
    BY <1>0, <1>6, <2>1 DEF OnClose, LinkInv
  <2>. QED  BY <1>0, <2>1, <2>2, <2>3, <2>5, <2>6 DEF LinkInv
<1>7. ASSUME UNCHANGED linkVars  PROVE LinkInv'
  BY <1>7 DEF linkVars, LinkInv
<1>. QED  BY <1>1, <1>2, <1>4, <1>5, <1>6, <1>7 DEF SocketNext

LEMMA LivingIs ==
    ASSUME LinkInv
    PROVE  Living = IF made > 0 /\ ready[made] # "closed" THEN {made} ELSE {}
<1>1. made \in Nat /\ \A s \in 1..made : s < made => ready[s] = "closed"
  BY SocketBounds DEF LinkInv
<1>2. made > 0 => made \in 1..made /\ ready[made] \in States /\ ready[made] # "none"
  BY SocketBounds DEF LinkInv
<1>3. \A s \in 1..made : s < made \/ s = made
  BY <1>1
<1>4. made = 0 => 1..made = {}
  BY <1>1
<1>. QED  BY <1>1, <1>2, <1>3, <1>4 DEF Living, States

\* Whatever closes, fails and is disconnected in between: there is at most one
\* connection, made or due, and the heartbeat is its own; it is given up only
\* when all attempts have failed, for every number of them.
THEOREM OneConnectionOnly ==
    SocketSpec => []OneConnection
<1>1. SocketInit => LinkInv
  <2>. SUFFICES ASSUME SocketInit  PROVE LinkInv
    OBVIOUS
  <2>1. heartbeat \in BOOLEAN /\ ~heartbeat
    BY Zenon DEF SocketInit
  <2>. QED  BY <2>1, SocketBounds DEF SocketInit, LinkInv, States
<1>2. LinkInv /\ [SocketNext]_linkVars => LinkInv'
  BY LinkStep
<1>3. LinkInv => OneConnection
  <2>. SUFFICES ASSUME LinkInv  PROVE OneConnection
    OBVIOUS
  <2>1. Living = IF made > 0 /\ ready[made] # "closed" THEN {made} ELSE {}
    BY LivingIs
  <2>2. /\ Cardinality({}) = 0 /\ Cardinality({made}) = 1
    BY FS_EmptySet, FS_Singleton
  <2>3. Cardinality(Living) + timers <= 1
    BY <2>1, <2>2, SocketBounds DEF LinkInv
  <2>4. Living = {} /\ made > 0 => ready[made] = "closed"
    BY <2>1
  <2>. QED  BY <2>1, <2>3, <2>4, SocketBounds DEF LinkInv, OneConnection
<1>. QED  BY <1>1, <1>2, <1>3, PTL DEF SocketSpec

(***************************************************************************)
(* The windows of a sound.                                                  *)
(***************************************************************************)
\* What is missing of the next window, counted in the padded stream.
StepInv ==
    /\ shape \in Shapes /\ heard \in Nat /\ unread \in 0..heard /\ reading \in BOOLEAN
    /\ samplesToNext \in Nat /\ inputQueue \in Seq(Nat) /\ windows \in Seq(Seq(Nat))
    /\ samplesToNext = shape.frame + Len(windows) * shape.hop - (Padding + heard - unread)
    /\ Len(windows) > 0 => samplesToNext <= shape.hop
    /\ ~reading => unread = 0 /\ (heard > 0 => samplesToNext > 0)

\* The queue ends with the next window's samples so far.
KeptInv ==
    /\ Len(inputQueue) >= shape.frame - samplesToNext
    /\ \A j \in 1..(shape.frame - samplesToNext) :
         inputQueue[Len(inputQueue) - (shape.frame - samplesToNext) + j] =
         SampleAt(Len(windows) * shape.hop + j, Padding)

WindowInv ==
    /\ StepInv /\ KeptInv
    /\ \A i \in 1..Len(windows) :
         windows[i] = [j \in 1..shape.frame |-> SampleAt((i - 1) * shape.hop + j, Padding)]

LEMMA ShapeIs ==
    ASSUME shape \in Shapes
    PROVE  /\ shape.frame \in Nat \ {0} /\ shape.hop \in Nat \ {0}
           /\ Padding \in 0..shape.hop /\ Padding <= shape.frame
           /\ shape.semicausal \in BOOLEAN
           /\ Padding = IF shape.semicausal THEN shape.hop ELSE 0
BY ShapesAreWindows DEF Padding

LEMMA SuffixIs ==
    ASSUME NEW s \in Seq(Nat), NEW k \in 0..Len(s)
    PROVE  /\ Suffix(s, k) \in Seq(Nat) /\ Len(Suffix(s, k)) = k
           /\ \A j \in 1..k : Suffix(s, k)[j] = s[Len(s) - k + j]
BY DEF Suffix

LEMMA SamplesIs ==
    ASSUME heard \in Nat, unread \in 0..heard, NEW n \in Nat
    PROVE  /\ Samples(n) \in Seq(Nat) /\ Len(Samples(n)) = n
           /\ \A i \in 1..n : Samples(n)[i] = heard - unread + i
BY DEF Samples

LEMMA ConcatIs ==
    ASSUME NEW s \in Seq(Nat), NEW t \in Seq(Nat)
    PROVE  /\ s \o t \in Seq(Nat) /\ Len(s \o t) = Len(s) + Len(t)
           /\ \A i \in 1..Len(s) : (s \o t)[i] = s[i]
           /\ \A i \in 1..Len(t) : (s \o t)[Len(s) + i] = t[i]
OBVIOUS

LEMMA SampleIs ==
    ASSUME NEW padding \in Nat, NEW p \in Int
    PROVE  /\ p <= padding => SampleAt(p, padding) = 0
           /\ p > padding => SampleAt(p, padding) = p - padding
BY DEF SampleAt

LEMMA NextProduct ==
    ASSUME NEW k \in Nat, NEW h \in Nat
    PROVE  k * h \in Nat /\ (k + 1) * h = k * h + h /\ (k + 1 - 1) * h = k * h
OBVIOUS

LEMMA QuotientIs ==
    ASSUME NEW x \in Nat, NEW h \in Nat \ {0}, NEW k \in Nat,
           k * h <= x, x < k * h + h
    PROVE  x \div h = k
OBVIOUS

\* The queue after Reset, and at the beginning.
LEMMA InitialIs ==
    ASSUME shape \in Shapes
    PROVE  /\ Initial(shape).queue \in Seq(Nat) /\ Len(Initial(shape).queue) = Padding
           /\ \A j \in 1..Padding : Initial(shape).queue[j] = 0
           /\ Initial(shape).toNext = shape.frame - Padding
<1>1. /\ Initial(shape).queue = IF shape.semicausal THEN [i \in 1..shape.hop |-> 0] ELSE <<>>
      /\ Initial(shape).toNext = shape.frame - (IF shape.semicausal THEN shape.hop ELSE 0)
  BY DEF Initial
<1>2. CASE shape.semicausal
  <2>1. [i \in 1..shape.hop |-> 0] \in Seq(Nat) /\ Len([i \in 1..shape.hop |-> 0]) = shape.hop
    BY ShapeIs
  <2>. QED  BY <1>1, <1>2, <2>1, ShapeIs
<1>3. CASE ~shape.semicausal
  BY <1>1, <1>3, ShapeIs
<1>. QED  BY <1>2, <1>3

LEMMA WindowInitHolds ==
    ASSUME WindowInit
    PROVE  WindowInv
<1>1. /\ shape \in Shapes /\ inputQueue = Initial(shape).queue
      /\ samplesToNext = Initial(shape).toNext
      /\ heard = 0 /\ unread = 0 /\ reading = FALSE /\ windows = <<>>
  BY DEF WindowInit
<1>2. reading \in BOOLEAN
  BY <1>1, Zenon
<1>3. /\ shape.frame \in Nat /\ shape.hop \in Nat /\ Padding \in Nat /\ Padding <= shape.frame
  BY <1>1, ShapeIs
<1>4. /\ inputQueue \in Seq(Nat) /\ Len(inputQueue) = Padding
      /\ \A j \in 1..Padding : inputQueue[j] = 0
      /\ samplesToNext = shape.frame - Padding
  BY <1>1, InitialIs
<1>5. Len(windows) = 0 /\ windows \in Seq(Seq(Nat)) /\ 0 * shape.hop = 0
  BY <1>1, <1>3
<1>6. StepInv
  BY <1>1, <1>2, <1>3, <1>4, <1>5 DEF StepInv
<1>7. KeptInv
  <2>1. shape.frame - samplesToNext = Padding
    BY <1>3, <1>4
  <2>2. ASSUME NEW j \in 1..Padding
        PROVE  inputQueue[Len(inputQueue) - Padding + j] = SampleAt(Len(windows) * shape.hop + j, Padding)
    <3>1. Len(inputQueue) - Padding + j = j /\ Len(windows) * shape.hop + j = j
      BY <1>3, <1>4, <1>5
    <3>2. SampleAt(j, Padding) = 0 /\ inputQueue[j] = 0
      <4>1. j \in Int /\ j <= Padding /\ Padding \in Nat
        BY <1>3
      <4>. QED  BY <1>4, <4>1, SampleIs
    <3>. QED  BY <3>1, <3>2
  <2>3. Len(inputQueue) >= Padding
    BY <1>3, <1>4
  <2>. QED  BY <2>1, <2>2, <2>3 DEF KeptInv
<1>. QED  BY <1>5, <1>6, <1>7 DEF WindowInv

\* The input is used up: what is left of it is kept.
LEMMA NoNextWindowKeeps ==
    ASSUME WindowInv, NoNextWindow
    PROVE  WindowInv'
<1>0. PICK q, u, n, F, b : /\ q = inputQueue /\ u = Samples(unread) /\ n = unread
                           /\ F = shape.frame - samplesToNext /\ b = Len(windows) * shape.hop
  OBVIOUS
<1>1. /\ shape \in Shapes /\ heard \in Nat /\ unread \in Nat /\ unread <= heard
      /\ samplesToNext \in Nat /\ q \in Seq(Nat) /\ Len(q) \in Nat
      /\ shape.frame \in Nat /\ shape.hop \in Nat /\ Padding \in Nat /\ F \in Int
      /\ n \in Nat /\ n <= heard /\ windows \in Seq(Seq(Nat)) /\ Len(windows) \in Nat
  <2>1. /\ shape \in Shapes /\ heard \in Nat /\ unread \in 0..heard /\ samplesToNext \in Nat
        /\ q \in Seq(Nat) /\ windows \in Seq(Seq(Nat))
    BY <1>0 DEF WindowInv, StepInv
  <2>2. shape.frame \in Nat /\ shape.hop \in Nat /\ Padding \in Nat
    BY <2>1, ShapeIs
  <2>3. F = shape.frame - samplesToNext /\ n = unread
    BY <1>0
  <2>. QED  BY <2>1, <2>2, <2>3
<1>2. /\ samplesToNext > unread /\ inputQueue' = q \o u /\ samplesToNext' = samplesToNext - n
      /\ unread' = 0 /\ reading' = FALSE /\ shape' = shape /\ heard' = heard
      /\ windows' = windows /\ Padding' = Padding
  BY <1>0 DEF NoNextWindow, Padding
<1>3. /\ u \in Seq(Nat) /\ Len(u) = n /\ \A i \in 1..n : u[i] = heard - n + i
  <2>1. unread \in 0..heard
    BY <1>1
  <2>. QED  BY <1>0, <1>1, <2>1, SamplesIs
<1>4. PICK v : v = q \o u
  OBVIOUS
<1>5. /\ v \in Seq(Nat) /\ Len(v) = Len(q) + n
      /\ \A i \in 1..Len(q) : v[i] = q[i]
      /\ \A i \in 1..n : v[Len(q) + i] = u[i]
  BY <1>1, <1>3, <1>4, ConcatIs
<1>6. b \in Nat
  BY <1>0, <1>1, NextProduct
<1>7. samplesToNext = shape.frame + b - (Padding + heard - n)
  BY <1>0 DEF WindowInv, StepInv
<1>a. F = shape.frame - samplesToNext
  BY <1>0
<1>b. F = Padding + heard - n - b
  BY <1>1, <1>6, <1>7, <1>a
<1>8. StepInv'
  <2>1. samplesToNext' \in Nat /\ samplesToNext' > 0 /\ 0 \in 0..heard
    BY <1>0, <1>1, <1>2
  <2>2. samplesToNext' = shape.frame + b - (Padding + heard - 0)
    BY <1>1, <1>2, <1>6, <1>7
  <2>3. Len(windows) > 0 => samplesToNext' <= shape.hop
    BY <1>1, <1>2 DEF WindowInv, StepInv
  <2>4. reading' \in BOOLEAN
    BY <1>2, Zenon
  <2>. QED  BY <1>0, <1>1, <1>2, <1>4, <1>5, <2>1, <2>2, <2>3, <2>4 DEF StepInv
<1>9. KeptInv'
  <2>1. /\ Len(q) >= F
        /\ \A j \in 1..F : q[Len(q) - F + j] = SampleAt(b + j, Padding)
    BY <1>0, Zenon DEF WindowInv, KeptInv
  <2>2. shape.frame - samplesToNext' = F + n
    BY <1>0, <1>1, <1>2
  <2>3. ASSUME NEW j \in 1..(F + n)
        PROVE  v[Len(v) - (F + n) + j] = SampleAt(b + j, Padding)
    <3>1. Len(v) - (F + n) + j = Len(q) + (j - F) /\ Len(v) - (F + n) + j = Len(q) - F + j
      BY <1>1, <1>5
    <3>2. CASE j <= F
      <4>1. j \in 1..F /\ Len(q) - F + j \in 1..Len(q)
        BY <1>1, <2>1, <3>2
      <4>. QED  BY <1>5, <2>1, <3>1, <4>1
    <3>3. CASE j > F
      <4>1. j - F \in 1..n
        BY <1>1, <3>3
      <4>2. v[Len(v) - (F + n) + j] = heard - n + (j - F)
        BY <1>3, <1>5, <3>1, <4>1
      <4>3. heard - n + (j - F) = b + j - Padding /\ b + j > Padding
        BY <1>1, <1>6, <1>b, <4>1
      <4>4. SampleAt(b + j, Padding) = b + j - Padding
        BY <1>1, <1>6, <4>3, SampleIs
      <4>. QED  BY <4>2, <4>3, <4>4
    <3>. QED  BY <1>1, <3>2, <3>3
  <2>4. Len(v) >= F + n
    BY <1>1, <1>5, <2>1
  <2>6. /\ b = Len(windows') * shape'.hop /\ v = inputQueue'
        /\ shape'.frame - samplesToNext' = F + n
    BY <1>0, <1>2, <1>4, <2>2
  <2>. QED  BY <1>2, <2>3, <2>4, <2>6 DEF KeptInv
<1>. QED  BY <1>2, <1>8, <1>9 DEF WindowInv

\* The next window is made of what is kept and of new samples.
LEMMA NextWindowKeeps ==
    ASSUME WindowInv, NextWindow
    PROVE  WindowInv'
<1>0. PICK q, n, F, H, b, w :
        /\ q = inputQueue /\ n = samplesToNext /\ F = shape.frame /\ H = shape.hop
        /\ b = Len(windows) * shape.hop /\ w = windows
  OBVIOUS
<1>1. /\ shape \in Shapes /\ heard \in Nat /\ unread \in Nat /\ unread <= heard
      /\ n \in Nat /\ q \in Seq(Nat) /\ Len(q) \in Nat
      /\ F \in Nat \ {0} /\ H \in Nat \ {0} /\ Padding \in Nat /\ Padding <= F
      /\ w \in Seq(Seq(Nat)) /\ Len(w) \in Nat /\ reading \in BOOLEAN
  BY <1>0, ShapeIs DEF WindowInv, StepInv
<1>2. /\ reading /\ n <= unread /\ windows' = Append(w, inputQueue') /\ unread' = unread - n
      /\ samplesToNext' = H /\ shape' = shape /\ heard' = heard /\ reading' = reading
      /\ Padding' = Padding
      /\ inputQueue' = IF n < F THEN Suffix(q, F - n) \o Samples(n)
                       ELSE Suffix(Samples(n), F)
  BY <1>0 DEF NextWindow, Padding, Kept
<1>3. b \in Nat /\ b = Len(w) * H /\ (Len(w) + 1) * H = b + H /\ (Len(w) + 1 - 1) * H = b
  BY <1>0, <1>1, NextProduct
<1>4. n = F + b - (Padding + heard - unread)
  BY <1>0 DEF WindowInv, StepInv
<1>5. PICK u : u = Samples(n)
  OBVIOUS
<1>6. u \in Seq(Nat) /\ Len(u) = n /\ \A i \in 1..n : u[i] = heard - unread + i
  <2>1. unread \in 0..heard
    BY <1>1
  <2>. QED  BY <1>1, <1>5, <2>1, SamplesIs
<1>7. PICK v : v = inputQueue'
  OBVIOUS
<1>8. /\ v \in Seq(Nat) /\ Len(v) = F
      /\ \A j \in 1..F : v[j] = SampleAt(b + j, Padding)
  <2>1. CASE n < F
    <3>0. PICK k : k = Suffix(q, F - n)
      OBVIOUS
    <3>1. /\ Len(q) >= F - n
          /\ \A j \in 1..(F - n) : q[Len(q) - (F - n) + j] = SampleAt(b + j, Padding)
      BY <1>0, Zenon DEF WindowInv, KeptInv
    <3>2. /\ k \in Seq(Nat) /\ Len(k) = F - n
          /\ \A j \in 1..(F - n) : k[j] = q[Len(q) - (F - n) + j]
      <4>1. F - n \in 0..Len(q)
        BY <1>1, <2>1, <3>1
      <4>. QED  BY <1>1, <3>0, <4>1, SuffixIs
    <3>3. v = k \o u
      BY <1>2, <1>5, <1>7, <2>1, <3>0
    <3>4. /\ v \in Seq(Nat) /\ Len(v) = Len(k) + Len(u)
          /\ \A i \in 1..Len(k) : v[i] = k[i]
          /\ \A i \in 1..Len(u) : v[Len(k) + i] = u[i]
      BY <1>6, <3>2, <3>3, ConcatIs
    <3>5. ASSUME NEW j \in 1..F
          PROVE  v[j] = SampleAt(b + j, Padding)
      <4>1. CASE j <= F - n
        <5>1. j \in 1..(F - n)
          BY <1>1, <4>1
        <5>. QED  BY <3>1, <3>2, <3>4, <5>1
      <4>2. CASE j > F - n
        <5>1. j - (F - n) \in 1..n /\ F - n + (j - (F - n)) = j
          BY <1>1, <4>2
        <5>a. u[j - (F - n)] = heard - unread + (j - (F - n))
          BY <1>6, <5>1
        <5>b. v[F - n + (j - (F - n))] = u[j - (F - n)]
          BY <1>6, <3>2, <3>4, <5>1
        <5>2. v[j] = heard - unread + (j - (F - n))
          BY <5>1, <5>a, <5>b
        <5>3. heard - unread + (j - (F - n)) = b + j - Padding /\ b + j > Padding
          BY <1>1, <1>3, <1>4, <5>1
        <5>4. SampleAt(b + j, Padding) = b + j - Padding
          BY <1>1, <1>3, <5>3, SampleIs
        <5>. QED  BY <5>2, <5>3, <5>4
      <4>. QED  BY <1>1, <4>1, <4>2
    <3>. QED  BY <1>1, <1>6, <2>1, <3>2, <3>4, <3>5
  <2>2. CASE n >= F
    <3>1. /\ v \in Seq(Nat) /\ Len(v) = F
          /\ \A j \in 1..F : v[j] = u[Len(u) - F + j]
      <4>1. v = Suffix(u, F)
        BY <1>1, <1>2, <1>5, <1>7, <2>2
      <4>2. F \in 0..Len(u)
        BY <1>1, <1>6, <2>2
      <4>. QED  BY <1>6, <4>1, <4>2, SuffixIs
    <3>2. ASSUME NEW j \in 1..F
          PROVE  v[j] = SampleAt(b + j, Padding)
      <4>1. n - F + j \in 1..n
        BY <1>1, <2>2
      <4>2. v[j] = heard - unread + (n - F + j)
        BY <1>6, <3>1, <4>1
      <4>3. heard - unread + (n - F + j) = b + j - Padding /\ b + j > Padding
        BY <1>1, <1>3, <1>4, <4>1
      <4>4. SampleAt(b + j, Padding) = b + j - Padding
        BY <1>1, <1>3, <4>3, SampleIs
      <4>. QED  BY <4>2, <4>3, <4>4
    <3>. QED  BY <3>1, <3>2
  <2>. QED  BY <1>1, <2>1, <2>2
<1>9. PICK x : x = Append(w, v)
  OBVIOUS
<1>10. /\ x \in Seq(Seq(Nat)) /\ Len(x) = Len(w) + 1 /\ x[Len(w) + 1] = v
       /\ \A i \in 1..Len(w) : x[i] = w[i]
  BY <1>1, <1>8, <1>9
<1>11. StepInv'
  <2>1. H = F + (b + H) - (Padding + heard - (unread - n))
    BY <1>1, <1>3, <1>4
  <2>2. unread - n \in 0..heard
    BY <1>1, <1>2
  <2>. QED  BY <1>0, <1>1, <1>2, <1>3, <1>7, <1>8, <1>9, <1>10, <2>1, <2>2 DEF StepInv
<1>12. KeptInv'
  <2>1. Len(v) >= F - H
    BY <1>1, <1>8
  <2>2. ASSUME NEW j \in 1..(F - H)
        PROVE  v[Len(v) - (F - H) + j] =
               SampleAt((b + H) + j, Padding)
    <3>1. H + j \in 1..F /\ Len(v) - (F - H) + j = H + j /\ b + (H + j) = (b + H) + j
      BY <1>1, <1>3, <1>8
    <3>2. v[H + j] = SampleAt(b + (H + j), Padding)
      BY <1>8, <3>1
    <3>. QED  BY <3>1, <3>2
  <2>4. /\ b + H = Len(windows') * shape'.hop /\ v = inputQueue'
        /\ shape'.frame - samplesToNext' = F - H
    BY <1>0, <1>2, <1>3, <1>7, <1>9, <1>10
  <2>. QED  BY <1>2, <2>1, <2>2, <2>4 DEF KeptInv
<1>13. ASSUME NEW i \in 1..Len(x)
       PROVE  x[i] = [j \in 1..shape.frame |-> SampleAt((i - 1) * shape.hop + j, Padding)]
  <2>1. CASE i \in 1..Len(w)
    <3>1. w[i] = [j \in 1..shape.frame |-> SampleAt((i - 1) * shape.hop + j, Padding)]
      BY <1>0, <2>1 DEF WindowInv
    <3>. QED  BY <1>10, <2>1, <3>1
  <2>2. CASE i = Len(w) + 1
    <3>1. v = [j \in 1..F |-> SampleAt(b + j, Padding)]
      BY <1>1, <1>8
    <3>2. x[i] = v /\ (i - 1) * shape.hop = b /\ F = shape.frame
      BY <1>0, <1>3, <1>10, <2>2
    <3>. QED  BY <3>1, <3>2
  <2>3. i \in 1..Len(w) \/ i = Len(w) + 1
    BY <1>1, <1>10
  <2>. QED  BY <2>1, <2>2, <2>3
<1>14. ASSUME NEW i \in 1..Len(windows')
       PROVE  windows'[i] = [j \in 1..shape'.frame |-> SampleAt((i - 1) * shape'.hop + j, Padding')]
  <2>1. windows' = x /\ shape' = shape /\ Padding' = Padding
    BY <1>2, <1>7, <1>9
  <2>2. i \in 1..Len(x)
    BY <2>1
  <2>. QED  BY <1>13, <2>1, <2>2
<1>. QED  BY <1>11, <1>12, <1>14 DEF WindowInv

LEMMA WindowStep ==
    ASSUME WindowInv, [WindowNext]_windowVars
    PROVE  WindowInv'
<1>1. /\ shape \in Shapes /\ heard \in Nat /\ unread \in 0..heard
      /\ ~reading => unread = 0
  BY DEF WindowInv, StepInv
<1>2. ASSUME NEW n \in 0..MaxChunk, Preprocess(n)  PROVE WindowInv'
  <2>1. /\ ~reading /\ heard' = heard + n /\ unread' = n /\ reading' = TRUE
        /\ UNCHANGED <<shape, inputQueue, samplesToNext, windows, Padding>>
    BY <1>2 DEF Preprocess, Padding
  <2>2. n \in Nat /\ unread = 0 /\ Padding \in Nat
    BY <1>1, <2>1, ShapeIs
  <2>3. heard' \in Nat /\ unread' \in 0..heard'
    BY <1>1, <2>1, <2>2
  <2>4. Padding + heard' - unread' = Padding + heard - unread
    BY <1>1, <2>1, <2>2
  <2>5. reading' \in BOOLEAN /\ reading'
    BY <2>1, Zenon
  <2>6. StepInv'
    BY <2>1, <2>3, <2>4, <2>5 DEF WindowInv, StepInv
  <2>. QED  BY <2>1, <2>6 DEF WindowInv, KeptInv
<1>3. ASSUME Reset  PROVE WindowInv'
  <2>1. WindowInit'
    BY <1>1, <1>3 DEF Reset, WindowInit
  <2>. QED  BY <2>1, WindowInitHolds, PTL
<1>4. ASSUME UNCHANGED windowVars  PROVE WindowInv'
  BY <1>4 DEF windowVars, WindowInv, StepInv, KeptInv, Padding
<1>. QED  BY <1>2, <1>3, <1>4, NoNextWindowKeeps, NextWindowKeeps DEF WindowNext

\* However a sound is cut into inputs, and whatever the windows' length and
\* distance: the windows are those of the whole sound, and none is missing when
\* an input has been used up.
THEOREM WindowsAreOfStream ==
    WindowSpec => []WindowsOfStream
<1>1. WindowInit => WindowInv
  BY WindowInitHolds
<1>2. WindowInv /\ [WindowNext]_windowVars => WindowInv'
  BY WindowStep
<1>3. WindowInv => WindowsOfStream
  <2>. SUFFICES ASSUME WindowInv  PROVE WindowsOfStream
    OBVIOUS
  <2>1. DOMAIN windows = 1..Len(windows)
    BY DEF WindowInv, StepInv
  <2>2. ASSUME ~reading, heard > 0
        PROVE  Len(windows) = WindowsIn(Padding + heard, shape.frame, shape.hop)
    <3>0. PICK W, F, H, P : /\ W = Len(windows) /\ F = shape.frame /\ H = shape.hop
                            /\ P = Padding + heard
      OBVIOUS
    <3>1. /\ W \in Nat /\ F \in Nat \ {0} /\ H \in Nat \ {0} /\ P \in Nat /\ samplesToNext \in Nat
          /\ heard \in Nat /\ Padding \in Nat
          /\ unread = 0 /\ samplesToNext > 0 /\ (W > 0 => samplesToNext <= H)
      <4>1. /\ shape \in Shapes /\ heard \in Nat /\ windows \in Seq(Seq(Nat))
            /\ samplesToNext \in Nat
            /\ unread = 0 /\ samplesToNext > 0 /\ (Len(windows) > 0 => samplesToNext <= shape.hop)
        BY <2>2 DEF WindowInv, StepInv
      <4>2. shape.frame \in Nat \ {0} /\ shape.hop \in Nat \ {0} /\ Padding \in Nat
        BY <4>1, ShapeIs
      <4>. QED  BY <3>0, <4>1, <4>2
    <3>2. samplesToNext = F + W * H - P
      <4>1. samplesToNext = shape.frame + Len(windows) * shape.hop - (Padding + heard - unread)
        BY DEF WindowInv, StepInv
      <4>2. Padding + heard - unread = P
        <5>1. Padding + heard \in Nat
          BY <3>1
        <5>. QED  BY <3>0, <3>1, <5>1
      <4>. QED  BY <3>0, <4>1, <4>2
    <3>3. CASE W = 0
      <4>1. P < F
        BY <3>1, <3>2, <3>3
      <4>. QED  BY <3>0, <3>3, <4>1 DEF WindowsIn
    <3>4. CASE W > 0
      <4>0. PICK k : k = W - 1
        OBVIOUS
      <4>1. k \in Nat /\ W = k + 1 /\ W * H = k * H + H /\ k * H \in Nat
        BY <3>1, <3>4, <4>0, NextProduct
      <4>2. P - F \in Nat /\ k * H <= P - F /\ P - F < k * H + H
        BY <3>1, <3>2, <3>4, <4>1
      <4>3. (P - F) \div H = k /\ ~(P < F)
        BY <3>1, <4>1, <4>2, QuotientIs
      <4>4. W = WindowsIn(P, F, H)
        BY <3>1, <4>1, <4>3 DEF WindowsIn
      <4>. QED  BY <3>0, <4>4
    <3>5. W = 0 \/ W > 0
      BY <3>1
    <3>. QED  BY <3>3, <3>4, <3>5
  <2>3. \A i \in DOMAIN windows :
          windows[i] = [j \in 1..shape.frame |-> SampleAt((i - 1) * shape.hop + j, Padding)]
    BY <2>1, Zenon DEF WindowInv
  <2>4. Len(inputQueue) >= shape.frame - samplesToNext
    BY DEF WindowInv, KeptInv
  <2>. QED  BY <2>2, <2>3, <2>4 DEF WindowsOfStream
<1>. QED  BY <1>1, <1>2, <1>3, PTL DEF WindowSpec

(***************************************************************************)
(* The turns of a text.                                                     *)
(***************************************************************************)
Fences == {Fence, EndFence}

Word == {Open("user"), Open("model"), Close, Fence, EndFence, Reply}
        \cup {Text(n, role) : n \in Nat, role \in Roles \cup {"user", "system"}}

LEMMA WordsDiffer ==
    /\ Open("user")[1] = "open" /\ Open("model")[1] = "open" /\ Close[1] = "close"
    /\ Fence[1] = "tool_outputs" /\ EndFence[1] = "end of outputs" /\ Reply[1] = "reply"
    /\ Open("user")[2] = "user" /\ Open("model")[2] = "model"
    /\ \A n, role : Text(n, role)[1] = "text" /\ Text(n, role)[2] = role /\ Text(n, role)[3] = n
  BY DEF Open, Close, Fence, EndFence, Reply, Text

LEMMA NotEmpty ==
    /\ <<>> # Open("user") /\ <<>> # Open("model") /\ <<>> # Close /\ <<>> # Reply
    /\ <<>> # Fence /\ <<>> # EndFence
  BY DEF Open, Close, Fence, EndFence, Reply

\* The last word of S among the first n.
LatestIn(g, n, S, x) ==
    \/ x = <<>> /\ \A j \in 1..n : g[j] \notin S
    \/ \E p \in 1..n : g[p] = x /\ x \in S /\ \A j \in 1..n : g[j] \in S => j <= p

LEMMA LatestInIs ==
    ASSUME NEW i \in Nat, NEW n, n = i - 1, NEW S, NEW x, LatestIn(given, n, S, x)
    PROVE  LastBefore(i, S) = x
<1>1. PICK found : found = {j \in 1..n : given[j] \in S}
  OBVIOUS
<1>2. LastBefore(i, S) = IF found = {} THEN <<>> ELSE given[CHOOSE j \in found : \A k \in found : k <= j]
  BY <1>1 DEF LastBefore
<1>3. CASE x = <<>> /\ \A j \in 1..n : given[j] \notin S
  BY <1>1, <1>2, <1>3
<1>4. CASE \E p \in 1..n : given[p] = x /\ x \in S /\ \A j \in 1..n : given[j] \in S => j <= p
  <2>1. PICK p \in 1..n : given[p] = x /\ x \in S /\ \A j \in 1..n : given[j] \in S => j <= p
    BY <1>4
  <2>2. p \in found /\ \A k \in found : k <= p
    BY <1>1, <2>1
  <2>3. PICK q : q = CHOOSE j \in found : \A k \in found : k <= j
    OBVIOUS
  <2>4. q \in found /\ \A k \in found : k <= q
    BY <2>2, <2>3
  <2>5. q \in Int /\ p \in Int /\ q <= p /\ p <= q
    BY <1>1, <2>2, <2>4
  <2>6. q = p
    BY <2>5
  <2>. QED  BY <1>2, <2>1, <2>2, <2>3, <2>6
<1>. QED  BY <1>3, <1>4 DEF LatestIn

LEMMA LatestInKept ==
    ASSUME NEW g \in Seq(Word), NEW w, NEW u, u = Append(g, w),
           NEW n \in Nat, n <= Len(g), NEW S, NEW x, LatestIn(g, n, S, x)
    PROVE  LatestIn(u, n, S, x)
<1>1. \A j \in 1..n : u[j] = g[j]
  OBVIOUS
<1>. QED  BY <1>1 DEF LatestIn

LEMMA LatestInNext ==
    ASSUME NEW g \in Seq(Word), NEW w, NEW u, u = Append(g, w), NEW m, m = Len(g) + 1,
           NEW S, NEW x, LatestIn(g, Len(g), S, x), NEW y, y = IF w \in S THEN w ELSE x
    PROVE  LatestIn(u, m, S, y)
<1>1. PICK n \in Nat : n = Len(g) /\ m = n + 1
  OBVIOUS
<1>2. u[m] = w /\ \A j \in 1..n : u[j] = g[j]
  BY <1>1
<1>3. \A j \in 1..m : j \in 1..n \/ j = m
  BY <1>1
<1>4. CASE w \in S
  <2>1. m \in 1..m /\ \A j \in 1..m : j <= m
    BY <1>1
  <2>. QED  BY <1>2, <1>4, <2>1 DEF LatestIn
<1>5. CASE w \notin S
  <2>1. y = x
    BY <1>5
  <2>2. CASE x = <<>> /\ \A j \in 1..n : g[j] \notin S
    BY <1>2, <1>3, <1>5, <2>1, <2>2 DEF LatestIn
  <2>3. CASE \E p \in 1..n : g[p] = x /\ x \in S /\ \A j \in 1..n : g[j] \in S => j <= p
    <3>1. PICK p \in 1..n : g[p] = x /\ x \in S /\ \A j \in 1..n : g[j] \in S => j <= p
      BY <2>3
    <3>2. p \in 1..m /\ u[p] = x
      BY <1>1, <1>2, <3>1
    <3>3. \A j \in 1..m : u[j] \in S => j <= p
      BY <1>2, <1>3, <1>5, <3>1
    <3>. QED  BY <2>1, <3>1, <3>2, <3>3 DEF LatestIn
  <2>. QED  BY <1>1, <2>2, <2>3 DEF LatestIn
<1>. QED  BY <1>4, <1>5

\* Where a word may come: who speaks, whether a fence is open, and what comes
\* right before it.
Suits(w, speaker, fence, previous) ==
    CASE w[1] = "open" -> speaker = <<>> \/ speaker \in Ends
      [] w = Close     -> speaker = Open("user")
      [] w = Reply     -> speaker = Open("model") /\ previous = speaker
      [] w[1] = "text" -> speaker = Open("user") /\ ((w[2] = "tool") = (fence = Fence))
      [] OTHER         -> speaker = Open("user")

Placed(g, i) ==
    \E speaker, fence :
        /\ LatestIn(g, i - 1, Turns, speaker) /\ LatestIn(g, i - 1, Fences, fence)
        /\ Suits(g[i], speaker, fence, g[i - 1])

IsText(w) == w[1] = "text"

\* A text that is right so far, who speaks at its end, and the number of its
\* last message.
Reads(g, speaker, fence, n) ==
    /\ g \in Seq(Word)
    /\ LatestIn(g, Len(g), Turns, speaker) /\ LatestIn(g, Len(g), Fences, fence)
    /\ \A i \in 1..Len(g) : Placed(g, i)
    /\ \A i \in 1..Len(g) : IsText(g[i]) => g[i][3] \in Nat /\ g[i][3] <= n
    /\ \A i, j \in 1..Len(g) : IsText(g[i]) /\ IsText(g[j]) /\ i < j => g[i][3] < g[j][3]

LEMMA ReadsNothing == Reads(<<>>, <<>>, <<>>, -1)
  BY DEF Reads, LatestIn

\* The next word.
LEMMA ReadsOn ==
    ASSUME NEW g, NEW speaker, NEW fence, NEW n \in Int, Reads(g, speaker, fence, n),
           NEW w \in Word, Suits(w, speaker, fence, g[Len(g)]),
           NEW m \in Int, n <= m, IsText(w) => w[3] \in Nat /\ n < w[3] /\ w[3] <= m,
           NEW u, u = Append(g, w),
           NEW speaker2, speaker2 = IF w \in Turns THEN w ELSE speaker,
           NEW fence2, fence2 = IF w \in Fences THEN w ELSE fence
    PROVE  Reads(u, speaker2, fence2, m)
<1>1. PICK k \in Nat : k = Len(g)
  BY DEF Reads
<1>2. /\ g \in Seq(Word) /\ u \in Seq(Word) /\ Len(u) = k + 1 /\ u[k + 1] = w
      /\ \A i \in 1..k : u[i] = g[i]
  BY <1>1 DEF Reads
<1>3. \A i \in 1..(k + 1) : i \in 1..k \/ i = k + 1
  BY <1>1
<1>4. PICK h : h = k + 1
  OBVIOUS
<1>5. LatestIn(u, h, Turns, speaker2) /\ LatestIn(u, h, Fences, fence2)
  <2>1. LatestIn(g, Len(g), Turns, speaker) /\ LatestIn(g, Len(g), Fences, fence)
    BY DEF Reads
  <2>2. h = Len(g) + 1
    BY <1>1, <1>4
  <2>3. LatestIn(u, h, Turns, speaker2)
    <3>1. PICK S : S = Turns
      OBVIOUS
    <3>2. LatestIn(g, Len(g), S, speaker) /\ speaker2 = IF w \in S THEN w ELSE speaker
      BY <2>1, <3>1
    <3>3. LatestIn(u, h, S, speaker2)
      BY ZenonT(40), <1>2, <2>2, <3>2, LatestInNext
    <3>. QED  BY <3>1, <3>3
  <2>4. LatestIn(u, h, Fences, fence2)
    <3>1. PICK S : S = Fences
      OBVIOUS
    <3>2. LatestIn(g, Len(g), S, fence) /\ fence2 = IF w \in S THEN w ELSE fence
      BY <2>1, <3>1
    <3>3. LatestIn(u, h, S, fence2)
      BY ZenonT(40), <1>2, <2>2, <3>2, LatestInNext
    <3>. QED  BY <3>1, <3>3
  <2>. QED  BY <2>3, <2>4
<1>6. \A i \in 1..h : Placed(u, i)
  <2>. SUFFICES ASSUME NEW i \in 1..h PROVE Placed(u, i)
    OBVIOUS
  <2>1. CASE i \in 1..k
    <3>1. PICK a, b : /\ LatestIn(g, i - 1, Turns, a) /\ LatestIn(g, i - 1, Fences, b)
                      /\ Suits(g[i], a, b, g[i - 1])
      BY <1>1, <2>1 DEF Reads, Placed
    <3>2. PICK o : o = i - 1 /\ o \in Nat /\ o <= Len(g)
      BY <1>1, <2>1
    <3>3. LatestIn(u, o, Turns, a) /\ LatestIn(u, o, Fences, b)
      BY <1>2, <3>1, <3>2, LatestInKept
    <3>4. Suits(u[i], a, b, u[i - 1])
      <4>1. u[i] = g[i]
        BY <1>2, <2>1
      <4>2. CASE i = 1
        <5>1. ~(LatestIn(g, 0, Turns, Open("model")))
          BY NotEmpty DEF LatestIn
        <5>2. a # Open("model")
          BY <3>1, <4>2, <5>1
        <5>. QED  BY <3>1, <4>1, <5>2 DEF Suits
      <4>3. CASE i # 1
        <5>1. i - 1 \in 1..k
          BY <2>1, <4>3
        <5>. QED  BY <1>2, <3>1, <4>1, <5>1
      <4>. QED  BY <4>2, <4>3
    <3>. QED  BY <3>2, <3>3, <3>4 DEF Placed
  <2>2. CASE i = h
    <3>1. LatestIn(u, k, Turns, speaker) /\ LatestIn(u, k, Fences, fence)
      <4>1. LatestIn(g, k, Turns, speaker) /\ LatestIn(g, k, Fences, fence) /\ k <= Len(g)
        BY <1>1 DEF Reads
      <4>. QED  BY <1>2, <4>1, LatestInKept
    <3>2. Suits(w, speaker, fence, u[k])
      <4>1. CASE k = 0
        <5>1. ~(LatestIn(g, 0, Turns, Open("model")))
          BY NotEmpty DEF LatestIn
        <5>2. speaker # Open("model")
          BY <1>1, <4>1, <5>1 DEF Reads
        <5>. QED  BY <5>2 DEF Suits
      <4>2. CASE k # 0
        <5>1. k \in 1..k
          BY <4>2
        <5>. QED  BY <1>1, <1>2, <5>1
      <4>. QED  BY <4>1, <4>2
    <3>3. i - 1 = k /\ u[i] = w
      BY <1>2, <1>4, <2>2
    <3>. QED  BY <3>1, <3>2, <3>3 DEF Placed
  <2>. QED  BY <1>3, <1>4, <2>1, <2>2
<1>7. \A i \in 1..h : IsText(u[i]) => u[i][3] \in Nat /\ u[i][3] <= m
  <2>. SUFFICES ASSUME NEW i \in 1..h, IsText(u[i]) PROVE u[i][3] \in Nat /\ u[i][3] <= m
    OBVIOUS
  <2>1. CASE i \in 1..k
    <3>1. u[i] = g[i] /\ g[i][3] \in Nat /\ g[i][3] <= n
      BY <1>1, <1>2, <2>1 DEF Reads
    <3>. QED  BY <3>1
  <2>2. CASE i = h
    BY <1>2, <1>4, <2>2
  <2>. QED  BY <1>3, <1>4, <2>1, <2>2
<1>8. \A i, j \in 1..h : IsText(u[i]) /\ IsText(u[j]) /\ i < j => u[i][3] < u[j][3]
  <2>. SUFFICES ASSUME NEW i \in 1..h, NEW j \in 1..h, IsText(u[i]), IsText(u[j]), i < j
                PROVE  u[i][3] < u[j][3]
    OBVIOUS
  <2>1. i \in 1..k /\ u[i] = g[i]
    BY <1>2, <1>3, <1>4
  <2>2. g[i][3] \in Nat /\ g[i][3] <= n
    BY <1>1, <2>1 DEF Reads
  <2>3. CASE j \in 1..k
    <3>1. u[j] = g[j]
      BY <1>2, <2>3
    <3>. QED  BY <1>1, <2>1, <2>3, <3>1 DEF Reads
  <2>4. CASE j = h
    <3>1. u[j] = w
      BY <1>2, <1>4, <2>4
    <3>. QED  BY <2>1, <2>2, <3>1
  <2>. QED  BY <1>3, <1>4, <2>3, <2>4
<1>. QED  BY <1>2, <1>4, <1>5, <1>6, <1>7, <1>8 DEF Reads

LEMMA KindsApart ==
    ASSUME NEW u, NEW m, NEW c, NEW f, NEW e, NEW r,
           u[1] = "open", m[1] = "open", c[1] = "close", f[1] = "tool_outputs",
           e[1] = "end of outputs", r[1] = "reply", u[2] = "user", m[2] = "model"
    PROVE  /\ u # m /\ u # c /\ u # f /\ u # e /\ u # r /\ m # c /\ m # f /\ m # e /\ m # r
           /\ c # f /\ c # e /\ c # r /\ f # e /\ f # r /\ e # r
           /\ \A x : x[1] = "text" => x \notin {u, m, c, r} \cup {f, e}
  OBVIOUS

\* The words by name: who opens, and what closes, fences and answers.
Words6(u, m, c, f, e, r) ==
    /\ u = Open("user") /\ m = Open("model") /\ c = Close
    /\ f = Fence /\ e = EndFence /\ r = Reply
    /\ u[1] = "open" /\ m[1] = "open" /\ c[1] = "close" /\ f[1] = "tool_outputs"
    /\ e[1] = "end of outputs" /\ r[1] = "reply"
    /\ u # m /\ u # c /\ u # f /\ u # e /\ u # r /\ m # c /\ m # f /\ m # e /\ m # r
    /\ c # f /\ c # e /\ c # r /\ f # e /\ f # r /\ e # r
    /\ Turns = {u, m} \cup {c, r} /\ Ends = {c, r} /\ Fences = {f, e}
    /\ {u, m, c, f, e, r} \subseteq Word
    /\ \A x : x[1] = "text" => x \notin {u, m, c, r} \cup {f, e}

LEMMA WordsAre == \E u, m, c, f, e, r : Words6(u, m, c, f, e, r)
<1>1. PICK u, m, c, f, e, r : /\ u = Open("user") /\ m = Open("model") /\ c = Close
                              /\ f = Fence /\ e = EndFence /\ r = Reply
  OBVIOUS
<1>2. /\ u[1] = "open" /\ m[1] = "open" /\ c[1] = "close" /\ f[1] = "tool_outputs"
      /\ e[1] = "end of outputs" /\ r[1] = "reply" /\ u[2] = "user" /\ m[2] = "model"
  BY <1>1, WordsDiffer
<1>3. Turns = {u, m} \cup {c, r} /\ Ends = {c, r} /\ Fences = {f, e}
  BY <1>1 DEF Turns, Ends, Fences
<1>4. {u, m, c, f, e, r} \subseteq Word
  BY <1>1 DEF Word
<1>5. /\ u # m /\ u # c /\ u # f /\ u # e /\ u # r /\ m # c /\ m # f /\ m # e /\ m # r
      /\ c # f /\ c # e /\ c # r /\ f # e /\ f # r /\ e # r
      /\ \A x : x[1] = "text" => x \notin {u, m, c, r} \cup {f, e}
  BY <1>2, KindsApart
<1>6. Words6(u, m, c, f, e, r)
  BY <1>1, <1>2, <1>3, <1>4, <1>5 DEF Words6
<1>. QED  BY <1>6

\* What a word that is no message does to who speaks and to the fence.
Goes(u, w, speaker, fence, n) ==
    /\ w \in Turns \ Fences => Reads(u, w, fence, n)
    /\ w \in Fences \ Turns => Reads(u, speaker, w, n)

LEMMA WordGoes ==
    ASSUME NEW g, NEW speaker, NEW fence, NEW n \in Int, Reads(g, speaker, fence, n),
           NEW w \in Word, Suits(w, speaker, fence, g[Len(g)]), ~IsText(w),
           NEW u, u = Append(g, w)
    PROVE  Goes(u, w, speaker, fence, n)
<1>1. PICK s, f : /\ s = IF w \in Turns THEN w ELSE speaker
                  /\ f = IF w \in Fences THEN w ELSE fence
  OBVIOUS
<1>2. n <= n /\ (IsText(w) => w[3] \in Nat /\ n < w[3] /\ w[3] <= n)
  OBVIOUS
<1>3. Reads(u, s, f, n)
  BY <1>1, <1>2, ReadsOn
<1>. QED  BY <1>1, <1>3 DEF Goes

NoneOpen(speaker) == speaker = <<>> \/ speaker \in Ends

LEMMA Opens ==
    ASSUME NEW g, NEW speaker, NEW fence, NEW n \in Int, Reads(g, speaker, fence, n),
           NoneOpen(speaker), NEW who \in {"user", "model"}, NEW u, u = Append(g, Open(who))
    PROVE  Reads(u, Open(who), fence, n) /\ u # <<>> /\ u[Len(u)] = Open(who)
<1>0. PICK us, mo, cl, fe, en, re : Words6(us, mo, cl, fe, en, re)
  BY WordsAre
<1>1. PICK w : w = Open(who)
  OBVIOUS
<1>2. /\ w \in Word /\ w \in Turns /\ w \notin Fences /\ w[1] = "open"
      /\ w # Close /\ w # Reply
  BY <1>0, <1>1 DEF Words6
<1>3. Suits(w, speaker, fence, g[Len(g)])
  BY <1>2 DEF Suits, NoneOpen
<1>4. ~IsText(w) /\ u = Append(g, w)
  BY <1>1, <1>2 DEF IsText
<1>5. Goes(u, w, speaker, fence, n)
  BY <1>2, <1>3, <1>4, WordGoes
<1>6. Reads(u, w, fence, n)
  BY <1>2, <1>5 DEF Goes
<1>7. u # <<>> /\ u[Len(u)] = w
  <2>1. g \in Seq(Word)
    BY DEF Reads
  <2>. QED  BY <1>2, <1>4, <2>1
<1>. QED  BY <1>1, <1>6, <1>7

LEMMA Closes ==
    ASSUME NEW g, NEW fence, NEW n \in Int, Reads(g, Open("user"), fence, n),
           NEW u, u = Append(g, Close)
    PROVE  Reads(u, Close, fence, n)
<1>0. PICK us, mo, cl, fe, en, re : Words6(us, mo, cl, fe, en, re)
  BY WordsAre
<1>1. PICK w, speaker : w = Close /\ speaker = Open("user")
  OBVIOUS
<1>2. w \in Word /\ w \in Turns /\ w \notin Fences /\ w[1] = "close" /\ w # Reply
  BY <1>0, <1>1 DEF Words6
<1>3. Suits(w, speaker, fence, g[Len(g)])
  BY <1>1, <1>2 DEF Suits
<1>4. ~IsText(w) /\ u = Append(g, w) /\ Reads(g, speaker, fence, n)
  BY <1>1, <1>2 DEF IsText
<1>5. Goes(u, w, speaker, fence, n)
  BY <1>2, <1>3, <1>4, WordGoes
<1>6. Reads(u, w, fence, n)
  BY <1>2, <1>5 DEF Goes
<1>. QED  BY <1>1, <1>6

LEMMA Bounds ==
    ASSUME NEW g, NEW fence, NEW n \in Int, Reads(g, Open("user"), fence, n),
           NEW w \in Fences, NEW u, u = Append(g, w)
    PROVE  Reads(u, Open("user"), w, n)
<1>0. PICK us, mo, cl, fe, en, re : Words6(us, mo, cl, fe, en, re)
  BY WordsAre
<1>1. PICK speaker : speaker = Open("user")
  OBVIOUS
<1>2. /\ w \in Word /\ w \notin Turns /\ w[1] \notin {"open", "text"}
      /\ w # Close /\ w # Reply
  BY <1>0 DEF Words6
<1>3. Suits(w, speaker, fence, g[Len(g)])
  BY <1>1, <1>2 DEF Suits
<1>4. ~IsText(w) /\ Reads(g, speaker, fence, n)
  BY <1>1, <1>2 DEF IsText
<1>5. Goes(u, w, speaker, fence, n)
  BY <1>2, <1>3, <1>4, WordGoes
<1>6. Reads(u, speaker, w, n)
  BY <1>2, <1>5 DEF Goes
<1>. QED  BY <1>1, <1>6

LEMMA Says ==
    ASSUME NEW g, NEW fence, NEW n \in Int, Reads(g, Open("user"), fence, n),
           NEW role \in Roles \cup {"user", "system"}, (role = "tool") = (fence = Fence),
           NEW m \in Nat, n < m, NEW u, u = Append(g, Text(m, role))
    PROVE  Reads(u, Open("user"), fence, m)
<1>0. PICK us, mo, cl, fe, en, re : Words6(us, mo, cl, fe, en, re)
  BY WordsAre
<1>1. PICK w, speaker : w = Text(m, role) /\ speaker = Open("user")
  OBVIOUS
<1>2. /\ w \in Word /\ w \notin Turns /\ w \notin Fences
      /\ w[1] = "text" /\ w[2] = role /\ w[3] = m /\ w # Close /\ w # Reply
  <2>1. w \in Word
    BY <1>1 DEF Word
  <2>2. w[1] = "text" /\ w[2] = role /\ w[3] = m
    BY <1>1 DEF Text
  <2>3. w \notin Turns /\ w \notin Fences /\ w # Close /\ w # Reply
    BY <1>0, <2>2 DEF Words6
  <2>. QED  BY <2>1, <2>2, <2>3
<1>3. Suits(w, speaker, fence, g[Len(g)])
  <2>1. (w[2] = "tool") = (fence = Fence)
    BY <1>2
  <2>. QED  BY <1>1, <1>2, <2>1 DEF Suits
<1>4. /\ u = Append(g, w) /\ Reads(g, speaker, fence, n)
      /\ n <= m /\ m \in Int /\ (IsText(w) => w[3] \in Nat /\ n < w[3] /\ w[3] <= m)
  BY <1>1, <1>2
<1>5. speaker = (IF w \in Turns THEN w ELSE speaker) /\ fence = (IF w \in Fences THEN w ELSE fence)
  BY <1>2
<1>6. Reads(u, speaker, fence, m)
  BY <1>2, <1>3, <1>4, <1>5, ReadsOn
<1>. QED  BY <1>1, <1>6

LEMMA Answers ==
    ASSUME NEW g, NEW fence, NEW n \in Int, Reads(g, Open("model"), fence, n),
           g[Len(g)] = Open("model"), NEW u, u = Append(g, Reply)
    PROVE  Reads(u, Reply, fence, n) /\ u # <<>> /\ u[Len(u)] = Reply
<1>0. PICK us, mo, cl, fe, en, re : Words6(us, mo, cl, fe, en, re)
  BY WordsAre
<1>1. PICK w, speaker : w = Reply /\ speaker = Open("model")
  OBVIOUS
<1>2. w \in Word /\ w \in Turns /\ w \notin Fences /\ w[1] = "reply" /\ w # Close
  BY <1>0, <1>1 DEF Words6
<1>3. Suits(w, speaker, fence, g[Len(g)])
  BY <1>1, <1>2 DEF Suits
<1>4. ~IsText(w) /\ u = Append(g, w) /\ Reads(g, speaker, fence, n)
  BY <1>1, <1>2 DEF IsText
<1>5. Goes(u, w, speaker, fence, n)
  BY <1>2, <1>3, <1>4, WordGoes
<1>6. Reads(u, w, fence, n)
  BY <1>2, <1>5 DEF Goes
<1>7. u # <<>> /\ u[Len(u)] = w
  <2>1. g \in Seq(Word)
    BY DEF Reads
  <2>. QED  BY <1>2, <1>4, <2>1
<1>. QED  BY <1>1, <1>6, <1>7

\* No turn is open; a turn of a user is, of this role; the model is asked.
Between(g, n) == \E speaker, fence : Reads(g, speaker, fence, n) /\ NoneOpen(speaker) /\ fence # Fence
Inside(g, role, n) == \E fence : Reads(g, Open("user"), fence, n) /\ (role = "tool") = (fence = Fence)
Asked(g, n) ==
    /\ g[Len(g)] = Open("model")
    /\ \E fence : Reads(g, Open("model"), fence, n) /\ fence # Fence

LEMMA Pieces ==
    ASSUME NEW g \in Seq(Word)
    PROVE  /\ g \o <<>> = g /\ <<>> \in Seq(Word)
           /\ \A w \in Word : g \o <<w>> = Append(g, w) /\ <<w>> \in Seq(Word)
                              /\ Append(g, w) \in Seq(Word)
  OBVIOUS

LEMMA TwoWords ==
    ASSUME NEW g \in Seq(Word), NEW v \in Word, NEW w \in Word
    PROVE  <<v, w>> \in Seq(Word) /\ g \o <<v, w>> = Append(Append(g, v), w)
  OBVIOUS

LEMMA AreWords ==
    /\ Open("user") \in Word /\ Open("model") \in Word /\ Close \in Word
    /\ Fence \in Word /\ EndFence \in Word /\ Reply \in Word
    /\ \A n \in Nat, role \in Roles \cup {"user", "system"} : Text(n, role) \in Word
  BY DEF Word

LEMMA Later ==
    ASSUME NEW g, NEW n \in Int, NEW m \in Int, n <= m
    PROVE  (Between(g, n) => Between(g, m)) /\ \A role : Inside(g, role, n) => Inside(g, role, m)
<1>1. ASSUME NEW speaker, NEW fence, Reads(g, speaker, fence, n) PROVE Reads(g, speaker, fence, m)
  <2>1. \A i \in 1..Len(g) : IsText(g[i]) => g[i][3] \in Nat /\ g[i][3] <= m
    <3>1. \A i \in 1..Len(g) : IsText(g[i]) => g[i][3] \in Nat /\ g[i][3] <= n
      BY <1>1 DEF Reads
    <3>. QED  BY <3>1
  <2>. QED  BY <1>1, <2>1 DEF Reads
<1>. QED  BY <1>1 DEF Between, Inside

Opened(g, role, n, first, p, q, u) ==
    Inside(u, role, n) /\ g \in Seq(Word) /\ p \in Seq(Word) /\ q \in Seq(Word)

LEMMA OpensFor ==
    ASSUME NEW g, NEW role, NEW n \in Int, NEW first \in BOOLEAN,
           first => Between(g, n), ~first => Inside(g, role, n),
           NEW p, p = IF first THEN <<Open("user")>> ELSE <<>>,
           NEW q, q = IF first /\ role = "tool" THEN <<Fence>> ELSE <<>>,
           NEW u, u = (g \o p) \o q
    PROVE  Opened(g, role, n, first, p, q, u)
<1>1. CASE first
  <2>1. PICK speaker, fence : Reads(g, speaker, fence, n) /\ NoneOpen(speaker) /\ fence # Fence
    BY <1>1 DEF Between
  <2>2. PICK h : h = Append(g, Open("user"))
    OBVIOUS
  <2>3. Reads(h, Open("user"), fence, n)
    BY <2>1, <2>2, Opens
  <2>4. g \in Seq(Word) /\ h \in Seq(Word)
    BY <2>1, <2>3 DEF Reads
  <2>5. p = <<Open("user")>> /\ p \in Seq(Word) /\ g \o p = h
    BY <1>1, <2>2, <2>4, Pieces, AreWords
  <2>6. CASE role = "tool"
    <3>1. q = <<Fence>> /\ q \in Seq(Word) /\ u = Append(h, Fence)
      BY <1>1, <2>4, <2>5, <2>6, Pieces, AreWords
    <3>2. Fence \in Fences
      BY DEF Fences
    <3>3. Reads(u, Open("user"), Fence, n)
      BY <2>3, <3>1, <3>2, Bounds
    <3>. QED  BY <2>4, <2>5, <2>6, <3>1, <3>3 DEF Inside, Opened
  <2>7. CASE role # "tool"
    <3>1. q = <<>> /\ q \in Seq(Word) /\ u = h
      BY <1>1, <2>4, <2>5, <2>7, Pieces
    <3>. QED  BY <2>1, <2>3, <2>4, <2>5, <2>7, <3>1 DEF Inside, Opened
  <2>. QED  BY <2>6, <2>7
<1>2. CASE ~first
  <2>1. g \in Seq(Word)
    BY <1>2 DEF Inside, Reads
  <2>2. p = <<>> /\ q = <<>> /\ p \in Seq(Word) /\ u = g
    BY <1>2, <2>1, Pieces
  <2>. QED  BY <1>2, <2>1, <2>2 DEF Opened
<1>. QED  BY <1>1, <1>2

Said(g, role, n, m, text, u) == Inside(u, role, m) /\ text \in Seq(Word)

LEMMA SaysFor ==
    ASSUME NEW g, NEW role \in Roles \cup {"user", "system"}, NEW n \in Int,
           Inside(g, role, n), NEW m \in Nat, n <= m,
           NEW text, text = <<>> \/ (n < m /\ text = <<Text(m, role)>>), NEW u, u = g \o text
    PROVE  Said(g, role, n, m, text, u)
<1>1. PICK fence : Reads(g, Open("user"), fence, n) /\ (role = "tool") = (fence = Fence)
  BY DEF Inside
<1>2. g \in Seq(Word)
  BY <1>1 DEF Reads
<1>3. CASE text = <<>>
  <2>1. u = g /\ text \in Seq(Word) /\ n <= m
    BY <1>2, <1>3, Pieces
  <2>2. Inside(u, role, m)
    BY <2>1, Later
  <2>. QED  BY <2>1, <2>2 DEF Said
<1>4. CASE n < m /\ text = <<Text(m, role)>>
  <2>1. u = Append(g, Text(m, role)) /\ text \in Seq(Word)
    BY <1>2, <1>4, Pieces, AreWords
  <2>2. Reads(u, Open("user"), fence, m)
    BY <1>1, <1>4, <2>1, Says
  <2>. QED  BY <1>1, <2>1, <2>2 DEF Inside, Said
<1>. QED  BY <1>3, <1>4

Closed(g, role, n, last, p, q, u) ==
    /\ last => Between(u, n)
    /\ ~last => u = g
    /\ g \in Seq(Word) /\ p \in Seq(Word) /\ q \in Seq(Word)

LEMMA ClosesFor ==
    ASSUME NEW g, NEW role, NEW n \in Int, NEW last \in BOOLEAN, Inside(g, role, n),
           NEW p, p = IF last /\ role = "tool" THEN <<EndFence>> ELSE <<>>,
           NEW q, q = IF last THEN <<Close>> ELSE <<>>,
           NEW u, u = (g \o p) \o q
    PROVE  Closed(g, role, n, last, p, q, u)
<1>0. PICK us, mo, cl, fe, en, re : Words6(us, mo, cl, fe, en, re)
  BY WordsAre
<1>1. PICK fence : Reads(g, Open("user"), fence, n) /\ (role = "tool") = (fence = Fence)
  BY DEF Inside
<1>2. g \in Seq(Word)
  BY <1>1 DEF Reads
<1>3. CASE last
  <2>1. PICK h, ended : h = g \o p /\ p \in Seq(Word) /\ ended # Fence
                        /\ Reads(h, Open("user"), ended, n)
    <3>1. CASE role = "tool"
      <4>1. p = <<EndFence>> /\ p \in Seq(Word) /\ g \o p = Append(g, EndFence)
        BY <1>2, <1>3, <3>1, Pieces, AreWords
      <4>2. EndFence \in Fences /\ EndFence # Fence
        BY <1>0 DEF Words6
      <4>3. Reads(g \o p, Open("user"), EndFence, n)
        BY <1>1, <4>1, <4>2, Bounds
      <4>. QED  BY <4>1, <4>2, <4>3
    <3>2. CASE role # "tool"
      <4>1. p = <<>> /\ p \in Seq(Word) /\ g \o p = g
        BY <1>2, <3>2, Pieces
      <4>. QED  BY <1>1, <3>2, <4>1
    <3>. QED  BY <3>1, <3>2
  <2>2. h \in Seq(Word)
    BY <2>1 DEF Reads
  <2>3. q = <<Close>> /\ q \in Seq(Word) /\ u = Append(h, Close)
    BY <1>3, <2>1, <2>2, Pieces, AreWords
  <2>4. Reads(u, Close, ended, n)
    BY <2>1, <2>3, Closes
  <2>5. NoneOpen(Close)
    BY DEF NoneOpen, Ends
  <2>. QED  BY <1>2, <1>3, <2>1, <2>3, <2>4, <2>5 DEF Between, Closed
<1>4. CASE ~last
  <2>1. p = <<>> /\ q = <<>> /\ p \in Seq(Word) /\ u = g
    BY <1>2, <1>4, Pieces
  <2>. QED  BY <1>2, <1>4, <2>1 DEF Closed
<1>. QED  BY <1>3, <1>4

LEMMA Asks ==
    ASSUME NEW g, NEW n \in Int, Between(g, n), NEW u, u = Append(g, Open("model"))
    PROVE  Asked(u, n)
<1>1. PICK speaker, fence : Reads(g, speaker, fence, n) /\ NoneOpen(speaker) /\ fence # Fence
  BY DEF Between
<1>2. Reads(u, Open("model"), fence, n) /\ u[Len(u)] = Open("model")
  BY <1>1, Opens
<1>. QED  BY <1>1, <1>2 DEF Asked

LEMMA IsAnswered ==
    ASSUME NEW g, NEW n \in Int, Asked(g, n), NEW u, u = Append(g, Reply)
    PROVE  Between(u, n) /\ u # <<>> /\ u[Len(u)] = Reply
<1>1. PICK fence : Reads(g, Open("model"), fence, n) /\ fence # Fence
  BY DEF Asked
<1>2. Reads(u, Reply, fence, n) /\ u # <<>> /\ u[Len(u)] = Reply
  BY <1>1, Answers DEF Asked
<1>3. NoneOpen(Reply)
  BY DEF NoneOpen, Ends
<1>. QED  BY <1>1, <1>2, <1>3 DEF Between

Chained3(g, a, b, c, t) == g \o t = ((g \o a) \o b) \o c /\ t \in Seq(Word)

Joins(a, b, c) == a \o (b \o c) = (a \o b) \o c

LEMMA AnyJoins ==
    ASSUME NEW a \in Seq(Word), NEW b \in Seq(Word), NEW c \in Seq(Word)
    PROVE  Joins(a, b, c)
  BY DEF Joins

LEMMA JoinedIn ==
    ASSUME NEW a \in Seq(Word), NEW b \in Seq(Word)
    PROVE  a \o b \in Seq(Word)
  OBVIOUS

LEMMA Chain3 ==
    ASSUME NEW g \in Seq(Word), NEW a \in Seq(Word), NEW b \in Seq(Word), NEW c \in Seq(Word),
           NEW t, t = (a \o b) \o c
    PROVE  Chained3(g, a, b, c, t)
<1>1. PICK d : d = a \o b
  OBVIOUS
<1>2. d \in Seq(Word) /\ g \o d = (g \o a) \o b
  <2>1. Joins(g, a, b) /\ d \in Seq(Word)
    BY <1>1, AnyJoins, JoinedIn
  <2>. QED  BY <1>1, <2>1 DEF Joins
<1>3. t = d \o c
  BY <1>1
<1>4. g \o t = (g \o d) \o c /\ t \in Seq(Word)
  <2>1. g \o (d \o c) = (g \o d) \o c
    <3>1. Joins(g, d, c)
      BY <1>2, AnyJoins
    <3>. QED  BY <3>1 DEF Joins
  <2>2. d \o c \in Seq(Word)
    BY <1>2, JoinedIn
  <2>. QED  BY <1>3, <2>1, <2>2
<1>. QED  BY <1>2, <1>4 DEF Chained3

Chained6(g, a, b, c, d, e, f, t) ==
    g \o t = (((((g \o a) \o b) \o c) \o d) \o e) \o f /\ t \in Seq(Word)

LEMMA Chain6 ==
    ASSUME NEW g \in Seq(Word), NEW a \in Seq(Word), NEW b \in Seq(Word), NEW c \in Seq(Word),
           NEW d \in Seq(Word), NEW e \in Seq(Word), NEW f \in Seq(Word),
           NEW t, t = ((((a \o b) \o c) \o d) \o e) \o f
    PROVE  Chained6(g, a, b, c, d, e, f, t)
<1>1. PICK s : s = (a \o b) \o c
  OBVIOUS
<1>2. Chained3(g, a, b, c, s)
  BY <1>1, Chain3
<1>3. s \in Seq(Word) /\ g \o s = ((g \o a) \o b) \o c
  BY <1>2 DEF Chained3
<1>4. PICK v : v = (s \o d) \o e
  OBVIOUS
<1>5. Chained3(g, s, d, e, v)
  BY <1>3, <1>4, Chain3
<1>6. v \in Seq(Word) /\ g \o v = ((g \o s) \o d) \o e
  BY <1>5 DEF Chained3
<1>7. t = v \o f
  BY <1>1, <1>4
<1>8. g \o t = (g \o v) \o f /\ t \in Seq(Word)
  <2>1. g \o (v \o f) = (g \o v) \o f
    <3>1. Joins(g, v, f)
      BY <1>6, AnyJoins
    <3>. QED  BY <3>1 DEF Joins
  <2>2. v \o f \in Seq(Word)
    BY <1>6, JoinedIn
  <2>. QED  BY <1>7, <2>1, <2>2
<1>9. g \o t = (((((g \o a) \o b) \o c) \o d) \o e) \o f
  BY <1>3, <1>6, <1>8
<1>. QED  BY <1>8, <1>9 DEF Chained6

\* Where a role's message may come, and how its template is applied to it.
Fits(g, role, n, first, last, generate, m, text) ==
    /\ role \in Roles \cup {"user", "system"} /\ n \in Int /\ m \in Nat /\ n <= m
    /\ first \in BOOLEAN /\ last \in BOOLEAN /\ generate \in BOOLEAN
    /\ generate => last
    /\ first => Between(g, n)
    /\ ~first => Inside(g, role, n)
    /\ text = <<>> \/ (n < m /\ text = <<Text(m, role)>>)

\* What a message's template leaves: its turn open, closed, or the model asked.
Leaves(g, role, n, first, last, generate, m, text, t, u) ==
    /\ g \in Seq(Word) /\ t \in Seq(Word)
    /\ ~last => Inside(u, role, m)
    /\ last /\ ~generate => Between(u, m)
    /\ generate => Asked(u, m)

LEMMA TemplateLeaves ==
    ASSUME NEW g, NEW role, NEW n, NEW first, NEW last, NEW generate, NEW m, NEW text,
           Fits(g, role, n, first, last, generate, m, text),
           NEW t, t = TemplateApply(role, text, first, last, generate), NEW u, u = g \o t
    PROVE  Leaves(g, role, n, first, last, generate, m, text, t, u)
<1>0. /\ role \in Roles \cup {"user", "system"} /\ n \in Int /\ m \in Nat /\ n <= m
      /\ first \in BOOLEAN /\ last \in BOOLEAN /\ generate \in BOOLEAN
      /\ (generate => last) /\ (first => Between(g, n)) /\ (~first => Inside(g, role, n))
      /\ (text = <<>> \/ (n < m /\ text = <<Text(m, role)>>))
  BY DEF Fits
<1>1. PICK a, b : /\ a = IF first THEN <<Open("user")>> ELSE <<>>
                  /\ b = IF first /\ role = "tool" THEN <<Fence>> ELSE <<>>
  OBVIOUS
<1>2. PICK d, e : /\ d = IF last /\ role = "tool" THEN <<EndFence>> ELSE <<>>
                  /\ e = IF last THEN <<Close>> ELSE <<>>
  OBVIOUS
<1>3. PICK f : f = IF generate THEN <<Open("model")>> ELSE <<>>
  OBVIOUS
<1>4. t = ((((a \o b) \o text) \o d) \o e) \o f
  BY <1>1, <1>2, <1>3 DEF TemplateApply
<1>5. PICK x : x = (g \o a) \o b
  OBVIOUS
<1>6. Inside(x, role, n) /\ g \in Seq(Word) /\ a \in Seq(Word) /\ b \in Seq(Word)
  <2>1. Opened(g, role, n, first, a, b, x)
    BY <1>0, <1>1, <1>5, OpensFor
  <2>. QED  BY <2>1 DEF Opened
<1>7. PICK y : y = x \o text
  OBVIOUS
<1>8. Inside(y, role, m) /\ text \in Seq(Word)
  <2>1. Said(x, role, n, m, text, y)
    BY <1>0, <1>6, <1>7, SaysFor
  <2>. QED  BY <2>1 DEF Said
<1>9. PICK z : z = (y \o d) \o e
  OBVIOUS
<1>10. /\ (last => Between(z, m)) /\ (~last => z = y)
       /\ y \in Seq(Word) /\ d \in Seq(Word) /\ e \in Seq(Word)
  <2>1. m \in Int
    BY <1>0
  <2>2. Closed(y, role, m, last, d, e, z)
    BY <1>0, <1>2, <1>8, <1>9, <2>1, ClosesFor
  <2>. QED  BY <2>2 DEF Closed
<1>11. f \in Seq(Word)
  BY <1>3, <1>6, Pieces, AreWords
<1>12. t \in Seq(Word) /\ u = (((((g \o a) \o b) \o text) \o d) \o e) \o f
  <2>1. Chained6(g, a, b, text, d, e, f, t)
    BY <1>4, <1>6, <1>8, <1>10, <1>11, Chain6
  <2>. QED  BY <2>1 DEF Chained6
<1>13. u = z \o f
  BY <1>5, <1>7, <1>9, <1>12
<1>14. z \in Seq(Word)
  BY <1>9, <1>10, JoinedIn
<1>15. CASE generate
  <2>1. u = Append(z, Open("model"))
    BY <1>3, <1>13, <1>14, <1>15, Pieces, AreWords
  <2>2. Between(z, m)
    BY <1>0, <1>10, <1>15
  <2>3. Asked(u, m)
    <3>1. m \in Int
      BY <1>0
    <3>. QED  BY <2>1, <2>2, <3>1, Asks
  <2>. QED  BY <1>0, <1>6, <1>12, <1>15, <2>3 DEF Leaves
<1>16. CASE ~generate
  <2>1. u = z
    BY <1>3, <1>13, <1>14, <1>16, Pieces
  <2>. QED  BY <1>0, <1>6, <1>8, <1>10, <1>12, <1>16, <2>1 DEF Leaves
<1>. QED  BY <1>15, <1>16

LEMMA ThreeWords ==
    ASSUME NEW x \in Word, NEW y \in Word, NEW z \in Word
    PROVE  Append(Append(Append(<<>>, x), y), z) = <<x, y, z>>
<1>1. PICK a, b, p, q : /\ a = Append(<<>>, x) /\ b = Append(a, y) /\ p = Append(b, z)
                        /\ q = <<x, y, z>>
  OBVIOUS
<1>2. a \in Seq(Word) /\ Len(a) = 1 /\ a[1] = x
  BY <1>1
<1>3. b \in Seq(Word) /\ Len(b) = 2 /\ b[1] = x /\ b[2] = y
  BY <1>1, <1>2
<1>4. p \in Seq(Word) /\ Len(p) = 3 /\ p[1] = x /\ p[2] = y /\ p[3] = z
  BY <1>1, <1>3
<1>5. q \in Seq(Word) /\ Len(q) = 3 /\ q[1] = x /\ q[2] = y /\ q[3] = z
  BY <1>1
<1>6. \A i \in 1..Len(p) : p[i] = q[i]
  BY <1>4, <1>5
<1>7. p = q
  BY <1>4, <1>5, <1>6, SeqEqual
<1>. QED  BY <1>1, <1>7

LEMMA PrefaceReads == Between(PrefaceText, 0) /\ PrefaceText \in Seq(Word)
<1>1. PICK a, b, c : /\ a = Append(<<>>, Open("user")) /\ b = Append(a, Text(0, "system"))
                     /\ c = Append(b, Close)
  OBVIOUS
<1>2. PICK speaker, fence, n : speaker = <<>> /\ fence = <<>> /\ n = -1 /\ n \in Int
                               /\ Reads(<<>>, speaker, fence, n)
  BY ReadsNothing
<1>3. NoneOpen(speaker)
  BY <1>2 DEF NoneOpen
<1>4. Reads(a, Open("user"), fence, n)
  BY <1>1, <1>2, <1>3, Opens
<1>5. fence # Fence
  BY <1>2, NotEmpty
<1>6. PICK role, m : role = "system" /\ m = 0 /\ m \in Nat
  OBVIOUS
<1>7. b = Append(a, Text(m, role)) /\ n < m /\ (role = "tool") = (fence = Fence)
      /\ role \in Roles \cup {"user", "system"}
  BY <1>1, <1>2, <1>5, <1>6
<1>8. Reads(b, Open("user"), fence, m)
  BY <1>2, <1>4, <1>6, <1>7, Says
<1>9. Reads(c, Close, fence, m)
  <2>1. m \in Int
    BY <1>6
  <2>. QED  BY <1>1, <1>8, <2>1, Closes
<1>10. c = PrefaceText
  <2>1. PICK x, y, z : x = Open("user") /\ y = Text(0, "system") /\ z = Close
    OBVIOUS
  <2>2. x \in Word /\ y \in Word /\ z \in Word
    BY <2>1, AreWords
  <2>3. Append(Append(Append(<<>>, x), y), z) = <<x, y, z>>
    BY <2>2, ThreeWords
  <2>. QED  BY <1>1, <2>1, <2>3 DEF PrefaceText
<1>11. NoneOpen(Close)
  BY DEF NoneOpen, Ends
<1>12. c \in Seq(Word)
  BY <1>9 DEF Reads
<1>. QED  BY <1>5, <1>6, <1>9, <1>10, <1>11, <1>12 DEF Between

\* The text is right so far; between turns, or inside the one whose message is
\* pending, or that a session has opened.
TurnInv ==
    /\ sent \in Nat /\ inSession \in BOOLEAN /\ onInit \in BOOLEAN /\ appending \in BOOLEAN
    /\ history \in Seq(Roles \cup {"assistant"})
    /\ state \in {"fresh", "prefilled", "decoded"}
    /\ state = "decoded" => given # <<>> /\ Last(given) = Reply
    /\ IF inSession THEN IF state = "prefilled" THEN Inside(given, "user", sent)
                         ELSE Between(given, sent)
       ELSE IF appending
            THEN history # <<>> /\ Last(history) \in Roles /\ Inside(given, Last(history), sent)
            ELSE Between(given, sent)
    /\ ~inSession /\ ~onInit /\ history = <<>> => given = <<>>

LEMMA TurnInvInit == TurnInit => TurnInv
<1>. SUFFICES ASSUME TurnInit PROVE TurnInv
  OBVIOUS
<1>1. CASE onInit
  <2>1. ~inSession /\ ~appending /\ onInit \in BOOLEAN /\ inSession \in BOOLEAN
        /\ history = <<>> /\ state = "prefilled" /\ given = PrefaceText /\ sent = 0
    BY <1>1 DEF TurnInit
  <2>2. Between(given, sent)
    BY <2>1, PrefaceReads
  <2>3. history \in Seq(Roles \cup {"assistant"}) /\ appending \in BOOLEAN /\ sent \in Nat
    <3>1. <<>> \in Seq(Roles \cup {"assistant"}) /\ 0 \in Nat
      OBVIOUS
    <3>2. appending \in BOOLEAN
      BY DEF TurnInit
    <3>. QED  BY <2>1, <3>1, <3>2
  <2>. QED  BY <1>1, <2>1, <2>2, <2>3 DEF TurnInv
<1>2. CASE ~onInit
  <2>1. /\ ~appending /\ onInit \in BOOLEAN /\ inSession \in BOOLEAN
        /\ history = <<>> /\ state = "fresh" /\ given = <<>> /\ sent = 0
    BY <1>2 DEF TurnInit
  <2>2. Between(<<>>, -1)
    <3>1. NoneOpen(<<>>) /\ <<>> # Fence
      BY NotEmpty DEF NoneOpen
    <3>. QED  BY <3>1, ReadsNothing DEF Between
  <2>3. Between(<<>>, 0)
    <3>1. PICK n \in Int, m \in Int : n = -1 /\ m = 0 /\ n <= m
      OBVIOUS
    <3>2. Between(<<>>, n)
      BY <2>2, <3>1
    <3>3. Between(<<>>, m)
      BY <3>1, <3>2, Later
    <3>. QED  BY <3>1, <3>3
  <2>4. history \in Seq(Roles \cup {"assistant"}) /\ appending \in BOOLEAN /\ sent \in Nat
    <3>1. <<>> \in Seq(Roles \cup {"assistant"}) /\ 0 \in Nat
      OBVIOUS
    <3>2. appending \in BOOLEAN
      BY DEF TurnInit
    <3>. QED  BY <2>1, <3>1, <3>2
  <2>5. Between(given, sent)
    BY <2>1, <2>3
  <2>. QED  BY <2>1, <2>4, <2>5 DEF TurnInv
<1>. QED  BY <1>1, <1>2

\* The preface and the closing of another role's turn leave room for the role's
\* message, in a turn of its own or in the one that is open.
LEMMA RoomFor ==
    ASSUME TurnInv, ~inSession, NEW role \in Roles,
           appending /\ Last(history) = "system" => role # "tool",
           NEW p, p = IF history = <<>> /\ ~onInit THEN PrefaceText ELSE <<>>,
           NEW q, q = ClosingText(role), NEW u, u = (given \o p) \o q,
           NEW first \in BOOLEAN, first = (~appending \/ IsRoleChanged(role))
    PROVE  /\ given \in Seq(Word) /\ p \in Seq(Word) /\ q \in Seq(Word)
           /\ (first => Between(u, sent)) /\ (~first => Inside(u, role, sent))
<1>1. sent \in Nat /\ 0 <= sent /\ sent \in Int
  BY DEF TurnInv
<1>2. CASE ~appending
  <2>1. Between(given, sent)
    BY <1>2 DEF TurnInv
  <2>2. given \in Seq(Word)
    BY <2>1 DEF Between, Reads
  <2>3. q = <<>> /\ first
    BY <1>2 DEF ClosingText, IsRoleChanged
  <2>4. given \o p \in Seq(Word) /\ p \in Seq(Word) /\ Between(given \o p, sent)
    <3>1. CASE history = <<>> /\ ~onInit
      <4>1. given = <<>> /\ p = PrefaceText
        BY <3>1 DEF TurnInv
      <4>2. PICK n \in Int : n = 0 /\ n <= sent
        BY <1>1
      <4>3. Between(PrefaceText, n) /\ PrefaceText \in Seq(Word)
        BY <4>2, PrefaceReads
      <4>4. Between(PrefaceText, sent)
        BY <1>1, <4>2, <4>3, Later
      <4>5. given \o p = PrefaceText
        BY <4>1, <4>3, ConcatEmptySeq
      <4>. QED  BY <4>1, <4>3, <4>4, <4>5
    <3>2. CASE ~(history = <<>> /\ ~onInit)
      <4>1. p = <<>> /\ given \o p = given
        BY <2>2, <3>2, Pieces
      <4>. QED  BY <2>1, <2>2, <4>1, Pieces
    <3>. QED  BY <3>1, <3>2
  <2>5. u = given \o p
    BY <2>3, <2>4, Pieces
  <2>. QED  BY <2>2, <2>3, <2>4, <2>5, Pieces
<1>3. CASE appending
  <2>1. history # <<>> /\ Last(history) \in Roles /\ Inside(given, Last(history), sent)
    BY <1>3 DEF TurnInv
  <2>2. given \in Seq(Word) /\ p = <<>> /\ given \o p = given /\ p \in Seq(Word)
    <3>1. given \in Seq(Word)
      BY <2>1 DEF Inside, Reads
    <3>. QED  BY <2>1, <3>1, Pieces
  <2>3. CASE IsRoleChanged(role)
    <3>1. PICK r, text, no, yes :
              /\ r = Last(history) /\ text = <<>> /\ no = FALSE /\ yes = TRUE
              /\ r \in Roles \cup {"user", "system"}
      BY <2>1
    <3>2. q = TemplateApply(r, text, no, yes, no) /\ no \in BOOLEAN /\ yes \in BOOLEAN
      BY <2>3, <3>1 DEF ClosingText
    <3>3. PICK n \in Nat : n = sent
      BY <1>1
    <3>4. /\ (no => yes) /\ (no => Between(given, n)) /\ (~no => Inside(given, r, n))
          /\ n \in Int /\ n <= n
      BY <2>1, <3>1, <3>3
    <3>5. u = given \o q
      BY <2>2
    <3>6. q \in Seq(Word) /\ (yes /\ ~no => Between(u, n))
      <4>1. Leaves(given, r, n, no, yes, no, n, text, q, u)
        <5>1. Fits(given, r, n, no, yes, no, n, text)
          BY <3>1, <3>2, <3>4 DEF Fits
        <5>. QED  BY <3>2, <3>5, <5>1, TemplateLeaves
      <4>. QED  BY <4>1 DEF Leaves
    <3>7. Between(u, sent) /\ first
      BY <2>3, <3>1, <3>3, <3>6
    <3>. QED  BY <2>2, <3>6, <3>7
  <2>4. CASE ~IsRoleChanged(role)
    <3>1. q = <<>> /\ ~first
      BY <1>3, <2>4 DEF ClosingText
    <3>2. u = given
      BY <2>2, <3>1, Pieces
    <3>3. Last(history) \in {role, "system"}
      BY <1>3, <2>1, <2>4 DEF IsRoleChanged
    <3>4. (role = "tool") = (Last(history) = "tool")
      BY <1>3, <3>3
    <3>5. Inside(u, role, sent)
      BY <2>1, <3>2, <3>4 DEF Inside
    <3>. QED  BY <2>2, <3>1, <3>5, Pieces
  <2>. QED  BY <2>3, <2>4
<1>. QED  BY <1>2, <1>3 DEF TurnInv

LEMMA HistoryGrows ==
    ASSUME NEW S, NEW s \in Seq(S), NEW a \in S, NEW b \in S
    PROVE  /\ s \o <<a>> \in Seq(S) /\ s \o <<a>> # <<>>
           /\ (s \o <<a>>)[Len(s \o <<a>>)] = a
           /\ s \o <<a, b>> \in Seq(S) /\ s \o <<a, b>> # <<>>
  OBVIOUS

LEMMA SendMessageKeeps ==
    ASSUME TurnInv, NEW role \in Roles, NEW empty \in BOOLEAN, NEW pending \in BOOLEAN,
           SendMessage(role, empty, pending)
    PROVE  TurnInv'
<1>1. PICK n \in Nat, m \in Nat : n = sent /\ m = sent + 1 /\ n < m /\ n <= m /\ n \in Int
  BY DEF TurnInv
<1>2. ~inSession /\ (appending /\ Last(history) = "system" => role # "tool")
  BY DEF SendMessage
<1>3. PICK p, q : /\ p = IF history = <<>> /\ ~onInit THEN PrefaceText ELSE <<>>
                  /\ q = ClosingText(role)
  OBVIOUS
<1>4. PICK first \in BOOLEAN : first = (~appending \/ IsRoleChanged(role))
  OBVIOUS
<1>5. PICK h : h = (given \o p) \o q
  OBVIOUS
<1>6. /\ given \in Seq(Word) /\ p \in Seq(Word) /\ q \in Seq(Word)
      /\ (first => Between(h, sent)) /\ (~first => Inside(h, role, sent))
  BY <1>2, <1>3, <1>4, <1>5, RoomFor
<1>7. (first => Between(h, n)) /\ (~first => Inside(h, role, n))
  BY <1>1, <1>6
<1>8. PICK text : text = IF empty THEN <<>> ELSE <<Text(m, role)>>
  OBVIOUS
<1>9. text = <<>> \/ (n < m /\ text = <<Text(m, role)>>)
  BY <1>1, <1>8
<1>10. PICK last \in BOOLEAN : last = ~pending
  OBVIOUS
<1>11. PICK t : t = TemplateApply(role, text, first, last, last)
  OBVIOUS
<1>12. PICK u : u = h \o t
  OBVIOUS
<1>13. last => last
  OBVIOUS
<1>14. /\ h \in Seq(Word) /\ t \in Seq(Word)
       /\ (~last => Inside(u, role, m)) /\ (last => Asked(u, m))
  <2>1. PICK generate \in BOOLEAN : generate = last
    OBVIOUS
  <2>2. role \in Roles \cup {"user", "system"} /\ (generate => last) /\ n \in Int /\ n <= m
        /\ t = TemplateApply(role, text, first, last, generate)
    BY <1>1, <1>11, <2>1
  <2>3. Leaves(h, role, n, first, last, generate, m, text, t, u)
    <3>1. Fits(h, role, n, first, last, generate, m, text)
      BY <1>7, <1>9, <2>2 DEF Fits
    <3>. QED  BY <1>12, <2>2, <3>1, TemplateLeaves
  <2>. QED  BY <2>1, <2>3 DEF Leaves
<1>15. PICK r : r = IF pending THEN <<>> ELSE <<Reply>>
  OBVIOUS
<1>16. given' = (given \o ((p \o q) \o t)) \o r
  <2>1. RenderSingleTurnTemplate(role, text, pending) = (p \o q) \o t
    BY <1>3, <1>4, <1>10, <1>11 DEF RenderSingleTurnTemplate
  <2>2. given' = given \o RenderSingleTurnTemplate(role, text, pending) \o r
    BY <1>1, <1>8, <1>15 DEF SendMessage
  <2>. QED  BY <2>1, <2>2
<1>17. given \o ((p \o q) \o t) = u
  <2>1. PICK s : s = (p \o q) \o t
    OBVIOUS
  <2>2. given \o s = ((given \o p) \o q) \o t
    <3>1. Chained3(given, p, q, t, s)
      BY <1>6, <1>14, <2>1, Chain3
    <3>. QED  BY <3>1 DEF Chained3
  <2>. QED  BY <1>5, <1>12, <2>1, <2>2
<1>18. u \in Seq(Word)
  BY <1>12, <1>14, JoinedIn
<1>19. /\ history' = history \o (IF pending THEN <<role>> ELSE <<role, "assistant">>)
       /\ appending' = pending /\ state' = (IF pending THEN "prefilled" ELSE "decoded")
       /\ sent' = m /\ inSession' = inSession /\ onInit' = onInit
  BY <1>1 DEF SendMessage
<1>20. /\ history' \in Seq(Roles \cup {"assistant"}) /\ history' # <<>>
       /\ (pending => Last(history') = role)
  <2>1. role \in Roles \cup {"assistant"} /\ "assistant" \in Roles \cup {"assistant"}
    OBVIOUS
  <2>2. history \in Seq(Roles \cup {"assistant"})
    BY DEF TurnInv
  <2>3. PICK S, b : S = Roles \cup {"assistant"} /\ b = "assistant"
    OBVIOUS
  <2>4. history \in Seq(S) /\ role \in S /\ b \in S
    BY <2>1, <2>2, <2>3
  <2>5. PICK x, y : x = history \o <<role>> /\ y = history \o <<role, b>>
    OBVIOUS
  <2>6. x \in Seq(S) /\ x # <<>> /\ x[Len(x)] = role /\ y \in Seq(S) /\ y # <<>>
    BY <2>4, <2>5, HistoryGrows
  <2>7. history' = IF pending THEN x ELSE y
    BY <1>19, <2>3, <2>5
  <2>8. history' \in Seq(S) /\ history' # <<>> /\ (pending => history'[Len(history')] = role)
    BY <2>6, <2>7
  <2>. QED  BY <2>3, <2>8 DEF Last
<1>21. sent' \in Nat /\ inSession' \in BOOLEAN /\ onInit' \in BOOLEAN /\ appending' \in BOOLEAN
       /\ ~inSession'
  BY <1>1, <1>2, <1>19 DEF TurnInv
<1>22. CASE pending
  <2>1. given' = u
    BY <1>15, <1>16, <1>17, <1>18, <1>22, Pieces
  <2>2. Inside(given', role, sent')
    BY <1>10, <1>14, <1>19, <1>22, <2>1
  <2>3. state' = "prefilled" /\ appending' /\ Last(history') = role
    BY <1>19, <1>20, <1>22
  <2>. QED  BY <1>20, <1>21, <2>2, <2>3 DEF TurnInv, Last
<1>23. CASE ~pending
  <2>1. given' = Append(u, Reply)
    BY <1>15, <1>16, <1>17, <1>18, <1>23, Pieces, AreWords
  <2>2. Asked(u, m)
    BY <1>10, <1>14, <1>23
  <2>3. Between(given', m) /\ given' # <<>> /\ given'[Len(given')] = Reply
    <3>1. m \in Int
      OBVIOUS
    <3>. QED  BY <2>1, <2>2, <3>1, IsAnswered
  <2>4. state' = "decoded" /\ ~appending' /\ Between(given', sent')
    BY <1>19, <1>23, <2>3
  <2>. QED  BY <1>20, <1>21, <2>3, <2>4 DEF TurnInv, Last
<1>. QED  BY <1>22, <1>23

LEMMA RunPrefillKeeps ==
    ASSUME TurnInv, NEW n \in 1..2, RunPrefill(n) PROVE TurnInv'
<1>1. PICK s \in Nat : s = sent /\ s \in Int
  BY DEF TurnInv
<1>2. PICK c : c = [i \in 1..n |-> Text(s + i, "user")]
  OBVIOUS
<1>3. PICK first \in BOOLEAN : first = (state # "prefilled")
  OBVIOUS
<1>4. PICK role : role = "user" /\ role \in Roles \cup {"user", "system"} /\ role # "tool"
  OBVIOUS
<1>5. (first => Between(given, s)) /\ (~first => Inside(given, role, s))
  BY <1>1, <1>3, <1>4 DEF TurnInv, RunPrefill
<1>6. PICK a, b : /\ a = IF first THEN <<Open("user")>> ELSE <<>>
                  /\ b = IF first /\ role = "tool" THEN <<Fence>> ELSE <<>>
  OBVIOUS
<1>7. PICK x : x = (given \o a) \o b
  OBVIOUS
<1>8. /\ Inside(x, role, s) /\ given \in Seq(Word) /\ a \in Seq(Word) /\ b \in Seq(Word)
  <2>1. Opened(given, role, s, first, a, b, x)
    BY <1>1, <1>5, <1>6, <1>7, OpensFor
  <2>. QED  BY <2>1 DEF Opened
<1>9. b = <<>>
  BY <1>4, <1>6
<1>10. given \o a \in Seq(Word)
  BY <1>8, JoinedIn
<1>11. x = given \o a /\ x \in Seq(Word)
  BY <1>7, <1>9, <1>10, Pieces
<1>12. PICK v : v = Text(s + 1, role)
  OBVIOUS
<1>13. v \in Word /\ s + 1 \in Nat /\ s < s + 1
  BY <1>1, <1>4, <1>12, AreWords
<1>14. PICK y : y = Append(x, v)
  OBVIOUS
<1>15. Inside(y, role, s + 1) /\ y \in Seq(Word)
  <2>0. PICK m \in Nat : m = s + 1 /\ s <= m /\ s < m
    BY <1>1
  <2>1. PICK text : text = <<Text(m, role)>>
    OBVIOUS
  <2>2. y = x \o text
    BY <1>11, <1>12, <1>13, <1>14, <2>0, <2>1, Pieces
  <2>3. Said(x, role, s, m, text, y)
    BY <1>1, <1>4, <1>8, <2>0, <2>1, <2>2, SaysFor
  <2>. QED  BY <1>11, <1>13, <1>14, <2>0, <2>3, Pieces DEF Said
<1>16. c \in Seq(Word) /\ Inside(x \o c, role, s + n)
  <2>1. CASE n = 1
    <3>1. c = <<v>>
      BY <1>2, <1>4, <1>12, <2>1
    <3>. QED  BY <1>11, <1>13, <1>14, <1>15, <2>1, <3>1, Pieces
  <2>2. CASE n = 2
    <3>1. PICK w : w = Text(s + 2, role)
      OBVIOUS
    <3>2. w \in Word /\ s + 2 \in Nat
      BY <1>1, <1>4, <3>1, AreWords
    <3>3. c = <<v, w>>
      BY <1>2, <1>4, <1>12, <2>2, <3>1
    <3>4. c \in Seq(Word) /\ x \o c = Append(y, w)
      <4>1. <<v, w>> \in Seq(Word) /\ x \o <<v, w>> = Append(Append(x, v), w)
        BY <1>11, <1>13, <3>2, TwoWords
      <4>. QED  BY <1>14, <3>3, <4>1
    <3>5. Inside(Append(y, w), role, s + 2)
      <4>0. PICK k \in Int, m \in Nat : k = s + 1 /\ m = s + 2 /\ k <= m /\ k < m
        BY <1>1
      <4>1. PICK text, u : text = <<Text(m, role)>> /\ u = Append(y, w)
        OBVIOUS
      <4>2. u = y \o text /\ Inside(y, role, k)
        BY <1>15, <3>1, <3>2, <4>0, <4>1, Pieces
      <4>3. Said(y, role, k, m, text, u)
        BY <1>4, <4>0, <4>1, <4>2, SaysFor
      <4>. QED  BY <4>0, <4>1, <4>3 DEF Said
    <3>. QED  BY <2>2, <3>4, <3>5
  <2>. QED  BY <2>1, <2>2
<1>17. given' = given \o ((a \o c) \o <<>>)
  <2>1. ContentType = (IF first THEN "first" ELSE "middle")
    BY <1>3 DEF ContentType, TurnInv
  <2>2. ApplyPromptTemplates(c, ContentType) = (a \o c) \o <<>>
    BY <1>6, <2>1 DEF ApplyPromptTemplates
  <2>. QED  BY <1>1, <1>2, <2>2 DEF RunPrefill
<1>18. given' = x \o c
  <2>0. PICK d : d = <<>> /\ d \in Seq(Word)
    BY <1>8, Pieces
  <2>1. PICK t : t = (a \o c) \o d
    OBVIOUS
  <2>2. given \o t = ((given \o a) \o c) \o d
    <3>1. Chained3(given, a, c, d, t)
      BY <1>8, <1>16, <2>0, <2>1, Chain3
    <3>. QED  BY <3>1 DEF Chained3
  <2>3. x \o c \in Seq(Word)
    BY <1>11, <1>16, JoinedIn
  <2>. QED  BY <1>11, <1>17, <2>0, <2>1, <2>2, <2>3, Pieces
<1>19. Inside(given', "user", sent')
  BY <1>1, <1>4, <1>16, <1>18 DEF RunPrefill
<1>. QED  BY <1>1, <1>19 DEF TurnInv, RunPrefill

LEMMA RunDecodeKeeps ==
    ASSUME TurnInv, RunDecode PROVE TurnInv'
<1>1. PICK s \in Nat : s = sent /\ s \in Int
  BY DEF TurnInv
<1>2. Inside(given, "user", s)
  BY <1>1 DEF TurnInv, RunDecode
<1>3. PICK fence : Reads(given, Open("user"), fence, s) /\ ("user" = "tool") = (fence = Fence)
  BY <1>2 DEF Inside
<1>4. PICK x, y, z : /\ x = Append(given, Close) /\ y = Append(x, Open("model"))
                     /\ z = Append(y, Reply)
  OBVIOUS
<1>5. Reads(x, Close, fence, s)
  BY <1>1, <1>3, <1>4, Closes
<1>6. Between(x, s)
  BY <1>3, <1>5 DEF Between, NoneOpen, Ends
<1>7. Asked(y, s)
  BY <1>1, <1>4, <1>6, Asks
<1>8. Between(z, s) /\ z # <<>> /\ z[Len(z)] = Reply
  BY <1>1, <1>4, <1>7, IsAnswered
<1>9. given' = z
  <2>1. ApplyPromptTemplates(<<>>, "last") = <<Close, Open("model")>>
    BY DEF ApplyPromptTemplates
  <2>2. given' = (given \o <<Close, Open("model")>>) \o <<Reply>>
    BY <2>1 DEF RunDecode
  <2>3. given \in Seq(Word)
    BY <1>3 DEF Reads
  <2>4. PICK a, b, c : a = Close /\ b = Open("model") /\ c = Reply
                       /\ a \in Word /\ b \in Word /\ c \in Word
    BY AreWords
  <2>5. given \o <<a, b>> = Append(Append(given, a), b)
    BY <2>3, <2>4, TwoWords
  <2>6. x \in Seq(Word) /\ y \in Seq(Word)
    BY <1>4, <2>3, <2>4, Pieces
  <2>7. y \o <<c>> = Append(y, c)
    BY <2>4, <2>6, Pieces
  <2>. QED  BY <1>4, <2>2, <2>4, <2>5, <2>7
<1>10. Between(given', sent') /\ Last(given') = Reply /\ given' # <<>>
  BY <1>1, <1>8, <1>9 DEF RunDecode, Last
<1>. QED  BY <1>10 DEF TurnInv, RunDecode

LEMMA TurnInvClosed == TurnInv => TurnsClosed
<1>. SUFFICES ASSUME TurnInv PROVE TurnsClosed
  OBVIOUS
<1>1. PICK speaker, fence, n : Reads(given, speaker, fence, n)
  BY DEF TurnInv, Inside, Between
<1>2. given \in Seq(Word) /\ DOMAIN given = 1..Len(given) /\ Len(given) \in Nat
  BY <1>1 DEF Reads
<1>3. ASSUME NEW i \in 1..Len(given)
      PROVE  Suits(given[i], LastBefore(i, Turns), LastBefore(i, {Fence, EndFence}), given[i - 1])
  <2>1. PICK a, b : /\ LatestIn(given, i - 1, Turns, a) /\ LatestIn(given, i - 1, Fences, b)
                    /\ Suits(given[i], a, b, given[i - 1])
    BY <1>1 DEF Reads, Placed
  <2>2. PICK o, S, T : o = i - 1 /\ S = Turns /\ T = Fences /\ i \in Nat
    BY <1>2
  <2>3. LatestIn(given, o, S, a) /\ LatestIn(given, o, T, b)
    BY <2>1, <2>2
  <2>4. LastBefore(i, S) = a /\ LastBefore(i, T) = b
    BY <2>2, <2>3, LatestInIs
  <2>. QED  BY <2>1, <2>2, <2>4 DEF Fences
<1>4. \A i, j \in Messages : i < j => given[i][3] < given[j][3]
  BY <1>1, <1>2 DEF Messages, Reads, IsText
<1>5. state = "decoded" => Last(given) = Reply
  BY DEF TurnInv
<1>6. ASSUME NEW i \in DOMAIN given
      PROVE  LET before == LastBefore(i, Turns)
             IN CASE given[i][1] = "open" -> before = <<>> \/ before \in Ends
                  [] given[i] = Close     -> before = Open("user")
                  [] given[i] = Reply     -> before = Open("model") /\ given[i - 1] = before
                  [] given[i][1] = "text" ->
                       /\ before = Open("user")
                       /\ (given[i][2] = "tool") = (LastBefore(i, {Fence, EndFence}) = Fence)
                  [] OTHER                -> before = Open("user")
  BY <1>2, <1>3, Zenon DEF Suits
<1>. QED  BY <1>4, <1>5, <1>6 DEF TurnsClosed

\* However messages are split, left pending and mixed, and whoever applies the
\* templates: the text is a sequence of whole turns, each opened, closed and
\* answered in its place, with every message once and in its order.
THEOREM TurnsAreWhole == TurnSpec => []TurnsClosed
<1>1. TurnInit => TurnInv
  BY TurnInvInit
<1>2. TurnInv /\ [TurnNext]_turnVars => TurnInv'
  <2>. SUFFICES ASSUME TurnInv, [TurnNext]_turnVars PROVE TurnInv'
    OBVIOUS
  <2>1. ASSUME NEW role \in Roles, NEW empty \in BOOLEAN, NEW pending \in BOOLEAN,
               SendMessage(role, empty, pending)
        PROVE  TurnInv'
    BY <2>1, SendMessageKeeps
  <2>2. ASSUME NEW n \in 1..2, RunPrefill(n) PROVE TurnInv'
    BY <2>2, RunPrefillKeeps
  <2>3. CASE RunDecode
    BY <2>3, RunDecodeKeeps
  <2>4. CASE UNCHANGED turnVars
    BY <2>4 DEF turnVars, TurnInv, Inside, Between, Last
  <2>. QED  BY <2>1, <2>2, <2>3, <2>4 DEF TurnNext
<1>3. TurnInv => TurnsClosed
  BY TurnInvClosed
<1>. QED  BY <1>1, <1>2, <1>3, PTL DEF TurnSpec

(***************************************************************************)
(* The embeddings of a prompt.                                              *)
(***************************************************************************)
Upto(s, n, x) == Cardinality({i \in 1..n : s[i] = x})

LEMMA UptoIs ==
    ASSUME NEW s, NEW n \in Int, NEW x
    PROVE  Upto(s, n, x) \in Nat /\ IsFiniteSet({i \in 1..n : s[i] = x})
<1>1. IsFiniteSet(1..n)
  BY FS_Interval
<1>2. {i \in 1..n : s[i] = x} \in SUBSET (1..n)
  OBVIOUS
<1>3. IsFiniteSet({i \in 1..n : s[i] = x})
  BY <1>1, <1>2, FS_Subset
<1>. QED  BY <1>3, FS_CardinalityType DEF Upto

LEMMA UptoZero ==
    ASSUME NEW s, NEW x PROVE Upto(s, 0, x) = 0
<1>1. {i \in 1..0 : s[i] = x} = {}
  OBVIOUS
<1>. QED  BY <1>1, FS_EmptySet DEF Upto

\* The counts of two parts add up.
LEMMA UptoSplit ==
    ASSUME NEW s, NEW u, NEW f \in Nat, NEW m \in Nat, NEW x, NEW n, n = f + m,
           \A k \in 1..m : u[k] = s[f + k]
    PROVE  Upto(s, n, x) = Upto(s, f, x) + Upto(u, m, x)
<1>1. PICK A, B, C, D : /\ A = {i \in 1..f : s[i] = x} /\ B = {i \in (f + 1)..n : s[i] = x}
                        /\ C = {k \in 1..m : u[k] = x} /\ D = {i \in 1..n : s[i] = x}
  OBVIOUS
<1>2. IsFiniteSet(A) /\ IsFiniteSet(C) /\ Cardinality(A) \in Nat /\ Cardinality(C) \in Nat
      /\ Cardinality(A) = Upto(s, f, x) /\ Cardinality(C) = Upto(u, m, x)
      /\ Cardinality(D) = Upto(s, n, x)
  <2>1. f \in Int /\ m \in Int
    OBVIOUS
  <2>2. Cardinality(A) = Upto(s, f, x) /\ Cardinality(C) = Upto(u, m, x)
        /\ Cardinality(D) = Upto(s, n, x)
    BY <1>1 DEF Upto
  <2>3. IsFiniteSet(A)
    <3>1. IsFiniteSet(1..f)
      BY ONLY <2>1, FS_Interval
    <3>2. A \in SUBSET (1..f)
      BY <1>1
    <3>. QED  BY ONLY <3>1, <3>2, FS_Subset
  <2>4. IsFiniteSet(C)
    <3>1. IsFiniteSet(1..m)
      BY ONLY <2>1, FS_Interval
    <3>2. C \in SUBSET (1..m)
      BY <1>1
    <3>. QED  BY ONLY <3>1, <3>2, FS_Subset
  <2>5. Cardinality(A) \in Nat /\ Cardinality(C) \in Nat
    BY ONLY <2>3, <2>4, FS_CardinalityType
  <2>. QED  BY ONLY <2>2, <2>3, <2>4, <2>5
<1>3. PICK h : h = [k \in C |-> f + k]
  OBVIOUS
<1>4. h \in Bijection(C, B)
  <2>1. h \in [C -> B]
    BY <1>1, <1>3
  <2>2. \A a, b \in C : h[a] = h[b] => a = b
    BY <1>1, <1>3
  <2>3. \A t \in B : \E c \in C : h[c] = t
    <3>. SUFFICES ASSUME NEW t \in B PROVE \E c \in C : h[c] = t
      OBVIOUS
    <3>1. t - f \in 1..m /\ f + (t - f) = t
      BY <1>1
    <3>2. t - f \in C
      BY <1>1, <3>1
    <3>. QED  BY <1>3, <3>1, <3>2
  <2>. QED  BY <2>1, <2>2, <2>3, Fun_IsBij
<1>5. IsFiniteSet(B) /\ Cardinality(B) = Cardinality(C)
  BY <1>2, <1>4, FS_Bijection DEF ExistsBijection
<1>6. D = A \cup B /\ A \cap B = {}
  BY <1>1
<1>7. Cardinality(A \cup B) = Cardinality(A) + Cardinality(B) - Cardinality(A \cap B)
  BY <1>2, <1>5, FS_Union
<1>8. Cardinality(A \cap B) = 0
  BY <1>6, FS_EmptySet
<1>. QED  BY <1>2, <1>5, <1>6, <1>7, <1>8

LEMMA UptoOne ==
    ASSUME NEW u, NEW x PROVE Upto(u, 1, x) = IF u[1] = x THEN 1 ELSE 0
<1>1. {i \in 1..1 : u[i] = x} = IF u[1] = x THEN {1} ELSE {}
  OBVIOUS
<1>. QED  BY <1>1, FS_EmptySet, FS_Singleton DEF Upto

\* A token is counted where it comes.
LEMMA UptoHas ==
    ASSUME NEW u, NEW m \in Nat, NEW k \in 1..m
    PROVE  1 <= Upto(u, k, u[k]) /\ Upto(u, k, u[k]) <= Upto(u, m, u[k])
<1>1. PICK x : x = u[k]
  OBVIOUS
<1>2. k \in {i \in 1..k : u[i] = x} /\ {i \in 1..k : u[i] = x} \in SUBSET {i \in 1..m : u[i] = x}
  BY <1>1
<1>3. /\ IsFiniteSet({i \in 1..m : u[i] = x}) /\ IsFiniteSet({i \in 1..k : u[i] = x})
      /\ Upto(u, k, x) \in Nat /\ Upto(u, m, x) \in Nat
  BY UptoIs
<1>4. Upto(u, k, x) <= Upto(u, m, x)
  BY <1>2, <1>3, FS_Subset DEF Upto
<1>5. Upto(u, k, x) # 0
  BY <1>2, <1>3, FS_EmptySet DEF Upto
<1>. QED  BY <1>1, <1>3, <1>4, <1>5

Token == Words \cup Special \cup {EndOf}
Given == {<<"given", p, x, k>> : p \in Nat, x \in Special, k \in Nat}
Lookup == [special : Special, left : Seq(Given)]

\* Lookups, n of them at most, by their places.
Lookups(ls, n) == ls \in [DOMAIN ls -> Lookup] /\ DOMAIN ls \subseteq 1..n

\* The lookup i is the last of x, and has the embeddings of the rest of the
\* prompt q of prefill p, behind its first f tokens.
Serves(ls, q, p, f, x, i) ==
    /\ i \in DOMAIN ls /\ ls[i].special = x
    /\ \A k \in DOMAIN ls : ls[k].special = x => k <= i
    /\ Len(ls[i].left) = Upto(q, Len(q), x) - Upto(q, f, x)
    /\ \A k \in 1..Len(ls[i].left) : ls[i].left[k] = <<"given", p, x, Upto(q, f, x) + k>>

Ready(ls, q, p, f) ==
    \A x \in Special : Upto(q, f, x) < Upto(q, Len(q), x) => \E i : Serves(ls, q, p, f, x, i)

\* The tokens g are m of q, behind its first f.
Group(q, f, g, m) ==
    /\ q \in Seq(Token) /\ g \in Seq(Token) /\ f \in Nat /\ m \in Nat
    /\ Len(g) = m /\ f + m <= Len(q)
    /\ \A k \in 1..m : g[k] = q[f + k]

\* What each token is to be embedded by.
Due(q, p, j) ==
    IF q[j] > 0 \/ (q[j] = EndOf /\ supports) THEN Row(q[j])
    ELSE IF ~supports THEN DefaultRow
    ELSE <<"given", p, q[j], Upto(q, j, q[j])>>

LEMMA LeftIs ==
    ASSUME NEW r \in Lookup, NEW v \in Seq(Given), NEW y, y = [r EXCEPT !.left = v]
    PROVE  y \in Lookup /\ y.special = r.special /\ y.left = v
  BY DEF Lookup

\* What is left of a sequence behind its first c.
Behind(v, s, c) == Len(v) = Len(s) - c /\ \A k \in 1..(Len(s) - c) : v[k] = s[c + k]

LEMMA PartIs ==
    ASSUME NEW S, NEW s \in Seq(S), NEW c \in Nat, c <= Len(s), NEW v, v = Part(s, c + 1, Len(s))
    PROVE  v \in Seq(S) /\ Behind(v, s, c)
<1>1. PICK n \in Nat : n = Len(s)
  OBVIOUS
<1>2. v = SubSeq(s, c + 1, n) /\ \A k \in (c + 1)..n : s[k] \in S
  BY <1>1 DEF Part
<1>3. v \in Seq(S)
  <2>1. PICK a \in Int : a = c + 1
    OBVIOUS
  <2>2. v = SubSeq(s, a, n) /\ n \in Int /\ \A k \in a..n : s[k] \in S
    BY <1>1, <1>2, <2>1
  <2>. QED  BY <2>2, SubSeqProperties
<1>4. Len(v) = n - c
  BY <1>1, <1>2
<1>5. \A k \in 1..(n - c) : v[k] = s[c + k]
  <2>. SUFFICES ASSUME NEW k \in 1..(n - c) PROVE v[k] = s[c + k]
    OBVIOUS
  <2>. QED  BY <1>1, <1>2
<1>. QED  BY <1>1, <1>3, <1>4, <1>5 DEF Behind

Need(ls, g, i) == IF supports THEN Count(g, ls[i].special) ELSE 0
Cut(ls, g, i) == IF Need(ls, g, i) < Len(ls[i].left) THEN Need(ls, g, i) ELSE Len(ls[i].left)

LEMMA CountIs ==
    ASSUME NEW g \in Seq(Token), NEW x
    PROVE  Count(g, x) = Upto(g, Len(g), x) /\ Count(g, x) \in Nat
<1>1. DOMAIN g = 1..Len(g) /\ Len(g) \in Int
  OBVIOUS
<1>2. Count(g, x) = Upto(g, Len(g), x)
  BY <1>1 DEF Count, Upto
<1>. QED  BY <1>1, <1>2, UptoIs

\* The lookups after a group, when none of them has run dry.
LEMMA UsedIs ==
    ASSUME NEW ls, NEW n \in Nat, Lookups(ls, n), NEW g \in Seq(Token),
           NEW r, r = Used(ls, g)
    PROVE  /\ Lookups(r.lookups, n) /\ DOMAIN r.lookups = DOMAIN ls /\ r.ok \in BOOLEAN
           /\ r.ok => \A i \in DOMAIN ls :
                 /\ Need(ls, g, i) <= Len(ls[i].left)
                 /\ r.lookups[i].special = ls[i].special
                 /\ r.lookups[i].left = Part(ls[i].left, Need(ls, g, i) + 1, Len(ls[i].left))
<1>1. PICK dry, bottom : /\ dry = {i \in DOMAIN ls : Need(ls, g, i) > Len(ls[i].left)}
                         /\ bottom = Bottom(dry)
  OBVIOUS
<1>2. /\ r.ok = (dry = {})
      /\ r.lookups = [i \in DOMAIN ls |->
            IF dry # {} /\ i > bottom THEN ls[i]
            ELSE [ls[i] EXCEPT !.left = Part(@, Cut(ls, g, i) + 1, Len(@))]]
  BY <1>1 DEF Used, Need, Cut
<1>3. ASSUME NEW i \in DOMAIN ls
      PROVE  /\ ls[i] \in Lookup /\ ls[i].left \in Seq(Given)
             /\ Need(ls, g, i) \in Nat /\ Cut(ls, g, i) \in Nat /\ Cut(ls, g, i) <= Len(ls[i].left)
  <2>1. ls[i] \in Lookup /\ ls[i].left \in Seq(Given) /\ Len(ls[i].left) \in Nat
    BY DEF Lookups, Lookup
  <2>2. Need(ls, g, i) \in Nat
    BY CountIs DEF Need
  <2>. QED  BY <2>1, <2>2 DEF Cut
<1>4. ASSUME NEW i \in DOMAIN ls,
             NEW v, v = Part(ls[i].left, Cut(ls, g, i) + 1, Len(ls[i].left)),
             NEW y, y = [ls[i] EXCEPT !.left = v]
      PROVE  y \in Lookup /\ y.special = ls[i].special /\ y.left = v
  <2>1. v \in Seq(Given)
    BY <1>3, <1>4, PartIs
  <2>. QED  BY <1>3, <1>4, <2>1, LeftIs
<1>5. ASSUME NEW i \in DOMAIN ls
      PROVE  r.lookups[i] = IF dry # {} /\ i > bottom THEN ls[i]
                            ELSE [ls[i] EXCEPT !.left = Part(ls[i].left, Cut(ls, g, i) + 1, Len(ls[i].left))]
  BY <1>2
<1>6. ASSUME NEW i \in DOMAIN ls PROVE r.lookups[i] \in Lookup
  <2>1. PICK v, y : v = Part(ls[i].left, Cut(ls, g, i) + 1, Len(ls[i].left))
                    /\ y = [ls[i] EXCEPT !.left = v]
    OBVIOUS
  <2>2. y \in Lookup
    BY <1>4, <2>1
  <2>3. r.lookups[i] = IF dry # {} /\ i > bottom THEN ls[i] ELSE y
    BY <1>5, <2>1
  <2>. QED  BY <1>3, <2>2, <2>3
<1>7. DOMAIN r.lookups = DOMAIN ls /\ r.lookups \in [DOMAIN ls -> Lookup]
  BY <1>2, <1>6
<1>8. Lookups(r.lookups, n)
  BY <1>7 DEF Lookups
<1>9. ASSUME r.ok, NEW i \in DOMAIN ls
      PROVE  /\ Need(ls, g, i) <= Len(ls[i].left)
             /\ r.lookups[i].special = ls[i].special
             /\ r.lookups[i].left = Part(ls[i].left, Need(ls, g, i) + 1, Len(ls[i].left))
  <2>1. dry = {}
    BY <1>2, <1>9
  <2>2. Need(ls, g, i) <= Len(ls[i].left)
    <3>1. ~(Need(ls, g, i) > Len(ls[i].left))
      BY <1>1, <2>1
    <3>2. Need(ls, g, i) \in Int /\ Len(ls[i].left) \in Int
      BY <1>3
    <3>. QED  BY <3>1, <3>2
  <2>3. Cut(ls, g, i) = Need(ls, g, i)
    BY <1>3, <2>2 DEF Cut
  <2>4. PICK v, y : v = Part(ls[i].left, Cut(ls, g, i) + 1, Len(ls[i].left))
                    /\ y = [ls[i] EXCEPT !.left = v]
    OBVIOUS
  <2>5. r.lookups[i] = y
    BY <1>5, <2>1, <2>4
  <2>6. y.special = ls[i].special /\ y.left = v
    BY <1>4, <2>4
  <2>. QED  BY <2>2, <2>3, <2>4, <2>5, <2>6
<1>10. r.ok \in BOOLEAN
  BY <1>2
<1>. QED  BY <1>7, <1>8, <1>9, <1>10

\* After a group that none has run dry in, the lookups serve the next one.
LEMMA ReadyAgain ==
    ASSUME NEW ls, NEW n \in Nat, Lookups(ls, n), supports, NEW q, NEW f, NEW g, NEW m,
           Group(q, f, g, m), NEW p, Ready(ls, q, p, f), NEW r, r = Used(ls, g), r.ok,
           NEW h, h = f + m
    PROVE  Ready(r.lookups, q, p, h)
<1>. SUFFICES ASSUME NEW x \in Special, Upto(q, h, x) < Upto(q, Len(q), x)
              PROVE  \E i : Serves(r.lookups, q, p, h, x, i)
  BY DEF Ready
<1>1. PICK a, b, c, t : /\ a = Upto(q, f, x) /\ b = Upto(g, m, x) /\ c = Upto(q, h, x)
                        /\ t = Upto(q, Len(q), x)
  OBVIOUS
<1>2. a \in Nat /\ b \in Nat /\ c \in Nat /\ t \in Nat
  <2>1. f \in Int /\ m \in Int /\ h \in Int /\ Len(q) \in Int
    BY DEF Group
  <2>. QED  BY <1>1, <2>1, UptoIs
<1>3. c = a + b
  <2>1. f \in Nat /\ m \in Nat /\ h = f + m /\ \A k \in 1..m : g[k] = q[f + k]
    BY DEF Group
  <2>2. Upto(q, h, x) = Upto(q, f, x) + Upto(g, m, x)
    BY <2>1, UptoSplit
  <2>. QED  BY <1>1, <2>2
<1>4. a < t
  BY <1>1, <1>2, <1>3
<1>5. PICK i : Serves(ls, q, p, f, x, i)
  BY <1>1, <1>4 DEF Ready
<1>6. /\ i \in DOMAIN ls /\ ls[i].special = x /\ Len(ls[i].left) = t - a
      /\ \A k \in 1..Len(ls[i].left) : ls[i].left[k] = <<"given", p, x, a + k>>
      /\ \A k \in DOMAIN ls : ls[k].special = x => k <= i
  BY <1>1, <1>5 DEF Serves
<1>7. g \in Seq(Token) /\ Len(g) = m
  BY DEF Group
<1>8. Need(ls, g, i) = b
  BY <1>1, <1>6, <1>7, CountIs DEF Need
<1>9. /\ DOMAIN r.lookups = DOMAIN ls
      /\ \A k \in DOMAIN ls : r.lookups[k].special = ls[k].special
      /\ Need(ls, g, i) <= Len(ls[i].left)
      /\ r.lookups[i].left = Part(ls[i].left, Need(ls, g, i) + 1, Len(ls[i].left))
  BY <1>6, <1>7, UsedIs
<1>10. PICK v : v = r.lookups[i].left
  OBVIOUS
<1>11. v = Part(ls[i].left, b + 1, Len(ls[i].left)) /\ b <= Len(ls[i].left)
  BY <1>8, <1>9, <1>10
<1>12. ls[i].left \in Seq(Given)
  BY <1>6 DEF Lookups, Lookup
<1>13. Len(v) = (t - a) - b /\ \A k \in 1..((t - a) - b) : v[k] = ls[i].left[b + k]
  <2>1. PICK s : s = ls[i].left
    OBVIOUS
  <2>2. s \in Seq(Given) /\ b \in Nat /\ b <= Len(s) /\ v = Part(s, b + 1, Len(s))
    BY <1>2, <1>11, <1>12, <2>1
  <2>3. Behind(v, s, b)
    BY <2>2, PartIs
  <2>4. Len(s) = t - a
    BY <1>6, <2>1
  <2>5. Len(v) = Len(s) - b /\ \A k \in 1..(Len(s) - b) : v[k] = s[b + k]
    BY <2>3 DEF Behind
  <2>. QED  BY <2>1, <2>4, <2>5
<1>14. (t - a) - b = t - c
  BY <1>2, <1>3
<1>15. \A k \in 1..Len(v) : v[k] = <<"given", p, x, c + k>>
  <2>. SUFFICES ASSUME NEW k \in 1..(t - c) PROVE v[k] = <<"given", p, x, c + k>>
    BY <1>13, <1>14
  <2>1. b + k \in 1..(t - a) /\ a + (b + k) = c + k
    BY <1>2, <1>3
  <2>2. v[k] = ls[i].left[b + k]
    BY <1>13, <1>14
  <2>. QED  BY <1>6, <2>1, <2>2
<1>16. Serves(r.lookups, q, p, h, x, i)
  BY <1>1, <1>6, <1>9, <1>10, <1>13, <1>14, <1>15 DEF Serves
<1>. QED  BY <1>16

\* The row of a token of the group is the one it is to have.
LEMMA RowIs ==
    ASSUME Words \subseteq Nat \ {0}, NEW ls, NEW n \in Nat, Lookups(ls, n), supports,
           NEW q, NEW f, NEW g, NEW m, Group(q, f, g, m), NEW p, Ready(ls, q, p, f),
           Used(ls, g).ok, NEW k \in 1..m, NEW missing
    PROVE  RowOf(ls, g, k, missing) = Due(q, p, f + k)
<1>1. PICK x, j : x = g[k] /\ j = f + k
  OBVIOUS
<1>2. /\ x = q[j] /\ x \in Token /\ f \in Nat /\ m \in Nat /\ Len(q) \in Nat /\ j \in 1..Len(q)
      /\ f + m <= Len(q) /\ k \in Nat /\ g \in Seq(Token) /\ Len(g) = m
  BY <1>1 DEF Group
<1>3. CASE x > 0 \/ x = EndOf
  BY <1>1, <1>2, <1>3 DEF RowOf, Due
<1>4. CASE ~(x > 0 \/ x = EndOf)
  <2>1. x \in Special
    <3>1. ASSUME x \in Words PROVE FALSE
      <4>1. x \in Nat \ {0}
        BY <3>1
      <4>2. x > 0
        BY <4>1
      <4>. QED  BY <1>4, <4>2
    <3>. QED  BY <1>2, <1>4, <3>1 DEF Token
  <2>2. PICK a, b, c, d, t : /\ a = Upto(q, f, x) /\ b = Upto(g, k, x) /\ c = Upto(q, j, x)
                             /\ t = Upto(q, Len(q), x) /\ d = Upto(g, m, x)
    OBVIOUS
  <2>3. a \in Nat /\ b \in Nat /\ c \in Nat /\ t \in Nat /\ d \in Nat
    <3>1. f \in Int /\ k \in Int /\ j \in Int /\ Len(q) \in Int /\ m \in Int
      BY <1>2
    <3>. QED  BY <2>2, <3>1, UptoIs
  <2>4. c = a + b
    <3>1. \A e \in 1..k : g[e] = q[f + e]
      BY <1>2 DEF Group
    <3>. QED  BY <1>1, <1>2, <2>2, <3>1, UptoSplit
  <2>5. 1 <= b /\ b <= d
    BY <1>1, <1>2, <2>2, UptoHas
  <2>6. c <= t
    <3>1. PICK e \in 1..Len(q) : e = j
      BY <1>2
    <3>. QED  BY <1>2, <2>2, <3>1, UptoHas
  <2>7. a < t
    BY <2>3, <2>4, <2>5, <2>6
  <2>8. PICK i : Serves(ls, q, p, f, x, i)
    BY <2>1, <2>2, <2>7 DEF Ready
  <2>9. /\ i \in DOMAIN ls /\ ls[i].special = x /\ Len(ls[i].left) = t - a
        /\ \A e \in 1..Len(ls[i].left) : ls[i].left[e] = <<"given", p, x, a + e>>
        /\ \A e \in DOMAIN ls : ls[e].special = x => e <= i
    BY <2>2, <2>8 DEF Serves
  <2>10. PICK mine : mine = {e \in DOMAIN ls : ls[e].special = g[k]}
    OBVIOUS
  <2>11. i \in mine /\ mine \subseteq Int /\ \A e \in mine : e <= i
    BY <1>1, <2>9, <2>10 DEF Lookups
  <2>12. Top(mine) = i
    <3>1. PICK o : o = CHOOSE e \in mine : \A y \in mine : y <= e
      OBVIOUS
    <3>2. o \in mine /\ \A y \in mine : y <= o
      BY <2>11, <3>1
    <3>3. o \in Int /\ i \in Int /\ o <= i /\ i <= o
      BY <2>11, <3>2
    <3>4. o = i
      BY <3>3
    <3>. QED  BY <3>1, <3>4 DEF Top
  <2>13. Rank(g, k) = b
    BY <1>1, <2>2 DEF Rank, Upto
  <2>14. RowOf(ls, g, k, missing) = ls[i].left[b]
    <3>1. mine # {} /\ supports /\ ~(g[k] > 0 \/ (g[k] = EndOf /\ supports))
      BY <1>1, <1>4, <2>11
    <3>. QED  BY <2>10, <2>12, <2>13, <3>1 DEF RowOf
  <2>15. b <= Len(ls[i].left)
    BY <2>3, <2>4, <2>6, <2>9
  <2>16. ls[i].left[b] = <<"given", p, x, c>>
    BY <2>3, <2>4, <2>5, <2>9, <2>15
  <2>17. Due(q, p, j) = <<"given", p, x, c>>
    BY <1>1, <1>2, <1>4, <2>2 DEF Due
  <2>. QED  BY <1>1, <2>14, <2>16, <2>17
<1>. QED  BY <1>3, <1>4

\* What looking up a group leaves: its rows, and lookups for the next one.
Looked(ls, n, q, p, f, m, r) ==
    /\ r.ok \in BOOLEAN /\ Lookups(r.lookups, n)
    /\ ~supports => DOMAIN r.lookups = {}
    /\ r.ok => /\ r.rows \in Seq({Due(q, p, j) : j \in 1..Len(q)}) /\ Len(r.rows) = m
               /\ \A k \in 1..m : r.rows[k] = Due(q, p, f + k)
               /\ supports => Ready(r.lookups, q, p, f + m)

\* What the lookups are before.
Able(ls, n, q, p, f) ==
    /\ Lookups(ls, n) /\ supports \in BOOLEAN
    /\ ~supports => DOMAIN ls = {}
    /\ supports => Ready(ls, q, p, f)

\* Without the support there are no lookups, and all rows are known.
LEMMA RowKnown ==
    ASSUME Words \subseteq Nat \ {0}, NEW ls, NEW n \in Nat, NEW q, NEW p, NEW f, Able(ls, n, q, p, f),
           NEW g, NEW m, Group(q, f, g, m), Used(ls, g).ok, NEW k \in 1..m,
           NEW missing, ~supports => missing = DefaultRow
    PROVE  RowOf(ls, g, k, missing) = Due(q, p, f + k)
<1>1. CASE supports
  <2>1. Lookups(ls, n) /\ Ready(ls, q, p, f)
    BY <1>1 DEF Able
  <2>. QED  BY <1>1, <2>1, RowIs
<1>2. CASE ~supports
  <2>1. g[k] = q[f + k]
    BY DEF Group
  <2>. QED  BY <1>2, <2>1 DEF RowOf, Due
<1>. QED  BY <1>1, <1>2

LEMMA SpanIs ==
    ASSUME Words \subseteq Nat \ {0}, NEW ls, NEW n \in Nat, NEW q, NEW p, NEW f, Able(ls, n, q, p, f),
           NEW g, NEW m, Group(q, f, g, m), NEW r, r = LookupSpan(ls, g)
    PROVE  Looked(ls, n, q, p, f, m, r)
<1>1. PICK u : u = Used(ls, g)
  OBVIOUS
<1>2. g \in Seq(Token) /\ Len(g) = m /\ m \in Nat /\ f \in Nat /\ Len(q) \in Nat /\ f + m <= Len(q)
  BY DEF Group
<1>3. Lookups(ls, n) /\ supports \in BOOLEAN
  BY DEF Able
<1>4. Lookups(u.lookups, n) /\ DOMAIN u.lookups = DOMAIN ls /\ u.ok \in BOOLEAN
  BY <1>1, <1>2, <1>3, UsedIs
<1>5. PICK some : some = {i \in DOMAIN ls : u.lookups[i].left # <<>>}
  OBVIOUS
<1>6. /\ r.ok = u.ok
      /\ r.lookups = IF u.ok THEN [i \in some |-> u.lookups[i]] ELSE u.lookups
      /\ r.rows = IF ~u.ok THEN <<>> ELSE [j \in DOMAIN g |-> RowOf(ls, g, j, DefaultRow)]
  BY <1>1, <1>5 DEF LookupSpan
<1>7. some \subseteq DOMAIN u.lookups
  BY <1>4, <1>5
<1>8. Lookups(r.lookups, n) /\ DOMAIN r.lookups \subseteq DOMAIN ls
  <2>1. \A i \in DOMAIN ls : u.lookups[i] \in Lookup
    BY <1>4 DEF Lookups
  <2>2. CASE u.ok
    <3>1. DOMAIN r.lookups = some /\ r.lookups \in [some -> Lookup]
      BY <1>4, <1>6, <1>7, <2>1, <2>2
    <3>. QED  BY <1>3, <1>4, <1>7, <3>1 DEF Lookups
  <2>3. CASE ~u.ok
    BY <1>4, <1>6, <2>3
  <2>. QED  BY <1>4, <2>2, <2>3
<1>9. ~supports => DOMAIN r.lookups = {}
  BY <1>8 DEF Able
<1>10. ASSUME u.ok
       PROVE  /\ r.rows \in Seq({Due(q, p, j) : j \in 1..Len(q)}) /\ Len(r.rows) = m
              /\ \A k \in 1..m : r.rows[k] = Due(q, p, f + k)
  <2>1. Used(ls, g).ok
    BY <1>1, <1>10
  <2>2. \A k \in 1..m : RowOf(ls, g, k, DefaultRow) = Due(q, p, f + k)
    BY <2>1, RowKnown
  <2>3. r.rows = [j \in 1..m |-> RowOf(ls, g, j, DefaultRow)]
    BY <1>2, <1>6, <1>10
  <2>4. \A k \in 1..m : f + k \in 1..Len(q)
    BY <1>2
  <2>5. \A k \in 1..m : r.rows[k] = Due(q, p, f + k) /\ r.rows[k] \in {Due(q, p, j) : j \in 1..Len(q)}
    BY <2>2, <2>3, <2>4
  <2>6. DOMAIN r.rows = 1..m
    BY <2>3
  <2>7. PICK S : S = {Due(q, p, j) : j \in 1..Len(q)}
    OBVIOUS
  <2>8. r.rows \in [1..m -> S]
    BY <2>3, <2>5, <2>7
  <2>9. r.rows \in Seq(S) /\ Len(r.rows) = m
    BY <1>2, <2>8
  <2>. QED  BY <2>5, <2>7, <2>9
<1>11. ASSUME u.ok, supports PROVE Ready(r.lookups, q, p, f + m)
  <2>1. Ready(u.lookups, q, p, f + m)
    <3>1. Ready(ls, q, p, f)
      BY <1>11 DEF Able
    <3>2. PICK h : h = f + m
      OBVIOUS
    <3>3. Ready(u.lookups, q, p, h)
      BY <1>1, <1>3, <1>11, <3>1, <3>2, ReadyAgain
    <3>. QED  BY <3>2, <3>3
  <2>2. PICK h : h = f + m
    OBVIOUS
  <2>3. ASSUME NEW x \in Special, Upto(q, h, x) < Upto(q, Len(q), x)
        PROVE  \E i : Serves(r.lookups, q, p, h, x, i)
    <3>1. PICK i : Serves(u.lookups, q, p, h, x, i)
      BY <2>1, <2>2, <2>3 DEF Ready
    <3>2. /\ i \in DOMAIN u.lookups /\ u.lookups[i].special = x
          /\ \A k \in DOMAIN u.lookups : u.lookups[k].special = x => k <= i
          /\ Len(u.lookups[i].left) = Upto(q, Len(q), x) - Upto(q, h, x)
          /\ \A k \in 1..Len(u.lookups[i].left) :
                u.lookups[i].left[k] = <<"given", p, x, Upto(q, h, x) + k>>
      BY <3>1 DEF Serves
    <3>3. u.lookups[i].left # <<>>
      <4>1. Upto(q, h, x) \in Nat /\ Upto(q, Len(q), x) \in Nat
        <5>1. h \in Int /\ Len(q) \in Int
          BY <1>2, <2>2
        <5>. QED  BY <5>1, UptoIs
      <4>2. Len(u.lookups[i].left) # 0
        BY <2>3, <3>2, <4>1
      <4>3. Len(<<>>) = 0
        OBVIOUS
      <4>. QED  BY <4>2, <4>3
    <3>4. i \in some
      BY <1>4, <1>5, <3>2, <3>3
    <3>5. DOMAIN r.lookups = some /\ \A k \in some : r.lookups[k] = u.lookups[k]
      BY <1>6, <1>11
    <3>6. Serves(r.lookups, q, p, h, x, i)
      BY <1>7, <3>2, <3>4, <3>5 DEF Serves
    <3>. QED  BY <3>6
  <2>4. Ready(r.lookups, q, p, h)
    BY <2>3 DEF Ready
  <2>. QED  BY <2>2, <2>4
<1>. QED  BY <1>4, <1>6, <1>8, <1>9, <1>10, <1>11 DEF Looked

\* One token, looked up alone.
LEMMA OneIs ==
    ASSUME Words \subseteq Nat \ {0}, NEW ls, NEW n \in Nat, NEW q, NEW p, NEW f, Able(ls, n, q, p, f),
           q \in Seq(Token), f \in Nat, f < Len(q), NEW x, x = q[f + 1],
           NEW r, r = LookupOne(ls, x)
    PROVE  /\ Looked(ls, n, q, p, f, 1, r)
           /\ ~r.ok => r.rows = <<>>
<1>1. PICK g, u : g = <<x>> /\ u = Used(ls, g)
  OBVIOUS
<1>2. f + 1 \in 1..Len(q) /\ x \in Token
  <2>1. f + 1 \in 1..Len(q)
    OBVIOUS
  <2>. QED  BY <2>1
<1>3. g \in Seq(Token) /\ Len(g) = 1 /\ g[1] = x
  BY <1>1, <1>2
<1>4. Group(q, f, g, 1)
  <2>1. f + 1 <= Len(q) /\ 1 \in Nat
    OBVIOUS
  <2>2. \A k \in 1..1 : g[k] = q[f + k]
    BY <1>3
  <2>. QED  BY <1>3, <2>1, <2>2 DEF Group
<1>5. Lookups(ls, n) /\ supports \in BOOLEAN
  BY DEF Able
<1>6. Lookups(u.lookups, n) /\ DOMAIN u.lookups = DOMAIN ls /\ u.ok \in BOOLEAN
  BY <1>1, <1>3, <1>5, UsedIs
<1>7. PICK missing : missing = IF supports THEN <<"unset">> ELSE DefaultRow
  OBVIOUS
<1>8. /\ r.ok = u.ok /\ r.lookups = u.lookups
      /\ r.rows = IF ~u.ok THEN <<>> ELSE <<RowOf(ls, g, 1, missing)>>
  BY <1>1, <1>7 DEF LookupOne
<1>9. ASSUME u.ok
      PROVE  /\ r.rows \in Seq({Due(q, p, j) : j \in 1..Len(q)}) /\ Len(r.rows) = 1
             /\ \A k \in 1..1 : r.rows[k] = Due(q, p, f + k)
  <2>1. PICK m, k : m = 1 /\ k = 1 /\ k \in 1..m
    OBVIOUS
  <2>2. Used(ls, g).ok /\ Group(q, f, g, m) /\ (~supports => missing = DefaultRow)
    BY <1>1, <1>4, <1>7, <1>9, <2>1
  <2>3. RowOf(ls, g, k, missing) = Due(q, p, f + k)
    BY <2>1, <2>2, RowKnown
  <2>4. PICK S, d : S = {Due(q, p, j) : j \in 1..Len(q)} /\ d = Due(q, p, f + 1)
    OBVIOUS
  <2>5. d \in S /\ r.rows = <<d>>
    BY <1>2, <1>8, <1>9, <2>1, <2>3, <2>4
  <2>6. r.rows \in Seq(S) /\ Len(r.rows) = 1 /\ r.rows[1] = d
    BY <2>5
  <2>. QED  BY <2>4, <2>6
<1>10. ASSUME u.ok, supports PROVE Ready(r.lookups, q, p, f + 1)
  <2>1. PICK h, m : h = f + m /\ m = 1
    OBVIOUS
  <2>2. Ready(ls, q, p, f) /\ Group(q, f, g, m)
    BY <1>4, <1>10, <2>1 DEF Able
  <2>3. Ready(u.lookups, q, p, h)
    BY <1>1, <1>5, <1>10, <2>1, <2>2, ReadyAgain
  <2>. QED  BY <1>8, <2>1, <2>3
<1>11. ~supports => DOMAIN r.lookups = {}
  BY <1>6, <1>8 DEF Able
<1>12. Looked(ls, n, q, p, f, 1, r)
  BY <1>6, <1>8, <1>9, <1>10, <1>11 DEF Looked
<1>. QED  BY <1>8, <1>12

\* The embeddings of the first tokens of a prompt.
Fed(q, p, s) ==
    /\ s \in Seq({Due(q, p, j) : j \in 1..Len(q)}) /\ Len(s) <= Len(q)
    /\ \A j \in 1..Len(s) : s[j] = Due(q, p, j)

\* The embeddings fed so far are those of the first tokens, and while a prefill
\* is under way the lookups have the ones of the rest.
EmbedInv ==
    /\ supports \in BOOLEAN /\ busy \in BOOLEAN /\ pendingRow \in BOOLEAN /\ prefills \in Nat
    /\ prompt \in Seq(Token)
    /\ Fed(prompt, prefills, fed)
    /\ Lookups(lookups, 2 * prefills)
    /\ ~supports => DOMAIN lookups = {}
    /\ busy /\ supports => Ready(lookups, prompt, prefills, Len(fed))

LEMMA EmbedInvInit == EmbedInit => EmbedInv
<1>. SUFFICES ASSUME EmbedInit PROVE EmbedInv
  OBVIOUS
<1>1. /\ supports \in BOOLEAN /\ busy \in BOOLEAN /\ pendingRow \in BOOLEAN /\ ~busy
      /\ lookups = <<>> /\ prompt = <<>> /\ fed = <<>> /\ prefills = 0
  BY DEF EmbedInit
<1>2. DOMAIN lookups = {} /\ lookups \in [{} -> Lookup]
  BY <1>1
<1>3. Lookups(lookups, 2 * prefills)
  BY <1>2 DEF Lookups
<1>4. prompt \in Seq(Token) /\ Fed(prompt, prefills, fed) /\ prefills \in Nat
  BY <1>1 DEF Fed
<1>. QED  BY <1>1, <1>2, <1>3, <1>4 DEF EmbedInv

\* The rows of the m tokens behind the first f.
Rows(q, p, f, m, rows) ==
    /\ m \in Nat /\ f + m <= Len(q)
    /\ rows \in Seq({Due(q, p, j) : j \in 1..Len(q)}) /\ Len(rows) = m
    /\ \A k \in 1..m : rows[k] = Due(q, p, f + k)

FedMore(q, p, s, m, u) == Fed(q, p, u) /\ Len(u) = Len(s) + m

LEMMA FedOn ==
    ASSUME NEW q \in Seq(Token), NEW p, NEW s, Fed(q, p, s), NEW m, NEW rows,
           Rows(q, p, Len(s), m, rows), NEW u, u = s \o rows
    PROVE  FedMore(q, p, s, m, u)
<1>1. PICK S, f : S = {Due(q, p, j) : j \in 1..Len(q)} /\ f = Len(s)
  OBVIOUS
<1>2. /\ s \in Seq(S) /\ f \in Nat /\ rows \in Seq(S) /\ \A j \in 1..f : s[j] = Due(q, p, j)
      /\ m \in Nat /\ Len(rows) = m /\ f + m <= Len(q)
      /\ \A k \in 1..m : rows[k] = Due(q, p, f + k)
  BY <1>1 DEF Fed, Rows
<1>3. u \in Seq(S) /\ Len(u) = f + m /\ \A j \in 1..(f + m) : u[j] = IF j <= f THEN s[j] ELSE rows[j - f]
  BY <1>1, <1>2, ConcatProperties
<1>4. ASSUME NEW j \in 1..(f + m) PROVE u[j] = Due(q, p, j)
  <2>1. CASE j <= f
    BY <1>2, <1>3, <2>1
  <2>2. CASE ~(j <= f)
    <3>1. j - f \in 1..m /\ f + (j - f) = j
      BY <1>2, <2>2
    <3>2. rows[j - f] = Due(q, p, f + (j - f))
      BY <1>2, <3>1
    <3>. QED  BY <1>3, <2>2, <3>1, <3>2
  <2>. QED  BY <2>1, <2>2
<1>. QED  BY <1>1, <1>2, <1>3, <1>4 DEF Fed, FedMore

LEMMA FedStays ==
    ASSUME NEW q, NEW p, NEW s, Fed(q, p, s), supports' = supports
    PROVE  Fed(q, p, s)'
  BY DEF Fed, Due

\* The tokens of a group, and the last of them.
LEMMA GroupIs ==
    ASSUME NEW q \in Seq(Token), NEW f \in Nat, NEW n \in Nat \ {0}, f + n <= Len(q),
           NEW toks, toks = Part(q, f + 1, f + n), NEW g, g = Part(toks, 1, n - 1), NEW m, m = n - 1
    PROVE  Group(q, f, g, m) /\ toks[n] = q[f + n]
<1>1. PICK a, b : a = f + 1 /\ b = f + n /\ a \in Int /\ b \in Int
  OBVIOUS
<1>2. \A i \in a..b : q[i] \in Token
  <2>1. \A i \in a..b : i \in 1..Len(q)
    BY <1>1
  <2>. QED  BY <2>1
<1>3. toks = SubSeq(q, a, b)
  BY <1>1 DEF Part
<1>4. toks \in Seq(Token) /\ Len(toks) = n /\ \A i \in 1..n : toks[i] = q[f + i]
  <2>1. /\ SubSeq(q, a, b) \in Seq(Token)
        /\ Len(SubSeq(q, a, b)) = IF a <= b THEN b - a + 1 ELSE 0
        /\ \A i \in 1..(b - a + 1) : SubSeq(q, a, b)[i] = q[a + i - 1]
    BY <1>1, <1>2, SubSeqProperties
  <2>2. a <= b /\ b - a + 1 = n /\ \A i \in 1..n : a + i - 1 = f + i
    BY <1>1
  <2>. QED  BY <1>3, <2>1, <2>2
<1>5. m \in Nat /\ m <= n /\ n = m + 1
  OBVIOUS
<1>6. PICK c \in Int : c = 1
  OBVIOUS
<1>7. g = SubSeq(toks, c, m) /\ m \in Int /\ \A i \in c..m : toks[i] \in Token
  <2>1. \A i \in c..m : i \in 1..n
    BY <1>5, <1>6
  <2>2. \A i \in 1..n : toks[i] \in Token
    BY <1>4
  <2>3. g = SubSeq(toks, c, m)
    BY <1>6 DEF Part
  <2>4. m \in Int
    BY <1>5
  <2>. QED  BY <2>1, <2>2, <2>3, <2>4
<1>8. g \in Seq(Token) /\ Len(g) = m /\ \A i \in 1..m : g[i] = toks[i]
  <2>1. /\ SubSeq(toks, c, m) \in Seq(Token)
        /\ Len(SubSeq(toks, c, m)) = IF c <= m THEN m - c + 1 ELSE 0
        /\ \A i \in 1..(m - c + 1) : SubSeq(toks, c, m)[i] = toks[c + i - 1]
    BY <1>6, <1>7, SubSeqProperties
  <2>2. m - c + 1 = m /\ (IF c <= m THEN m - c + 1 ELSE 0) = m /\ \A i \in 1..m : c + i - 1 = i
    BY <1>5, <1>6
  <2>. QED  BY <1>7, <2>1, <2>2
<1>9. \A k \in 1..m : g[k] = q[f + k]
  <2>1. \A k \in 1..m : k \in 1..n
    BY <1>5
  <2>. QED  BY <1>4, <1>8, <2>1
<1>10. f + m <= Len(q)
  BY <1>5
<1>. QED  BY <1>4, <1>5, <1>8, <1>9, <1>10 DEF Group

\* What running a group of n tokens leaves, one of whose look-ups may fail.
Grown(q, p, s, places, n, span, one) ==
    /\ span.ok \in BOOLEAN /\ Lookups(span.lookups, places)
    /\ ~supports => DOMAIN span.lookups = {}
    /\ span.ok =>
         /\ one.ok \in BOOLEAN /\ Lookups(one.lookups, places)
         /\ ~supports => DOMAIN one.lookups = {}
         /\ Fed(q, p, s \o span.rows \o one.rows)
         /\ one.ok => /\ Len(s \o span.rows \o one.rows) = Len(s) + n
                      /\ supports => Ready(one.lookups, q, p, Len(s) + n)

\* Nothing is looked up when there is nothing to run.
LEMMA SkipIs ==
    ASSUME NEW ls, NEW n \in Nat, NEW q, NEW p, NEW f \in Nat, Able(ls, n, q, p, f), NEW m, m = 0,
           NEW r, r = [ok |-> TRUE, lookups |-> ls, rows |-> <<>>]
    PROVE  Looked(ls, n, q, p, f, m, r)
<1>1. PICK S : S = {Due(q, p, j) : j \in 1..Len(q)}
  OBVIOUS
<1>2. PICK rows : rows = r.rows
  OBVIOUS
<1>3. r.ok = TRUE /\ r.lookups = ls /\ rows = <<>>
  BY <1>2
<1>4. rows \in Seq(S) /\ Len(rows) = m /\ \A k \in 1..m : rows[k] = Due(q, p, f + k)
  BY <1>3
<1>5. f + m = f
  OBVIOUS
<1>. QED  BY <1>1, <1>2, <1>3, <1>4, <1>5 DEF Looked, Able

LEMMA GroupGrows ==
    ASSUME Words \subseteq Nat \ {0}, NEW q \in Seq(Token), NEW p, NEW s, Fed(q, p, s),
           NEW ls, NEW places \in Nat, NEW f, f = Len(s), Able(ls, places, q, p, f),
           NEW n \in Nat \ {0}, f + n <= Len(q),
           NEW toks, toks = Part(q, f + 1, f + n), NEW skip, skip => n = 1,
           NEW span, span = IF skip THEN [ok |-> TRUE, lookups |-> ls, rows |-> <<>>]
                            ELSE LookupSpan(ls, Part(toks, 1, n - 1)),
           NEW one, one = LookupOne(span.lookups, toks[n])
    PROVE  Grown(q, p, s, places, n, span, one)
<1>1. PICK g, m : g = Part(toks, 1, n - 1) /\ m = n - 1
  OBVIOUS
<1>2. f \in Nat /\ Len(q) \in Nat /\ m \in Nat /\ f + m \in Nat /\ f + m < Len(q) /\ f + m <= Len(q)
      /\ f + n = (f + m) + 1
  BY <1>1 DEF Fed
<1>3. Group(q, f, g, m) /\ toks[n] = q[f + n]
  <2>1. /\ q \in Seq(Token) /\ f \in Nat /\ n \in Nat \ {0} /\ f + n <= Len(q)
        /\ toks = Part(q, f + 1, f + n) /\ g = Part(toks, 1, n - 1) /\ m = n - 1
    BY <1>1, <1>2
  <2>. QED  BY ONLY <2>1, GroupIs
<1>4. Looked(ls, places, q, p, f, m, span)
  <2>1. CASE skip
    <3>1. n = 1 /\ span = [ok |-> TRUE, lookups |-> ls, rows |-> <<>>]
      BY <2>1
    <3>2. m = 0
      BY <1>1, <3>1
    <3>. QED  BY <3>1, <3>2, <1>2, SkipIs
  <2>2. CASE ~skip
    <3>1. span = LookupSpan(ls, g)
      BY <1>1, <2>2
    <3>. QED  BY <1>3, <3>1, SpanIs
  <2>. QED  BY <2>1, <2>2
<1>5. PICK S : S = {Due(q, p, j) : j \in 1..Len(q)}
  OBVIOUS
<1>6. ASSUME span.ok
      PROVE  /\ one.ok \in BOOLEAN /\ Lookups(one.lookups, places)
             /\ ~supports => DOMAIN one.lookups = {}
             /\ Fed(q, p, s \o span.rows \o one.rows)
             /\ one.ok => /\ Len(s \o span.rows \o one.rows) = Len(s) + n
                          /\ supports => Ready(one.lookups, q, p, Len(s) + n)
  <2>1. PICK h, u, x : h = f + m /\ u = s \o span.rows /\ x = toks[n]
    OBVIOUS
  <2>2. h \in Nat /\ h < Len(q) /\ x = q[h + 1]
    BY <1>2, <1>3, <2>1
  <2>3. Rows(q, p, Len(s), m, span.rows)
    BY <1>2, <1>4, <1>6 DEF Looked, Rows
  <2>4. Fed(q, p, u) /\ Len(u) = h
    <3>1. PICK rows : rows = span.rows
      OBVIOUS
    <3>2. Rows(q, p, Len(s), m, rows) /\ u = s \o rows
      BY <2>1, <2>3, <3>1
    <3>3. FedMore(q, p, s, m, u)
      BY ONLY q \in Seq(Token), Fed(q, p, s), <3>2, FedOn
    <3>. QED  BY <2>1, <3>3 DEF FedMore
  <2>5. Able(span.lookups, places, q, p, h)
    <3>1. supports \in BOOLEAN
      BY DEF Able
    <3>. QED  BY <1>4, <1>6, <2>1, <3>1 DEF Looked, Able
  <2>6. one = LookupOne(span.lookups, x)
    BY <2>1
  <2>7. PICK ls2 : ls2 = span.lookups
    OBVIOUS
  <2>8. Looked(ls2, places, q, p, h, 1, one) /\ (~one.ok => one.rows = <<>>)
    BY <2>2, <2>5, <2>6, <2>7, OneIs
  <2>9. /\ one.ok \in BOOLEAN /\ Lookups(one.lookups, places)
        /\ ~supports => DOMAIN one.lookups = {}
    BY <2>8 DEF Looked
  <2>10. CASE one.ok
    <3>1. Rows(q, p, Len(u), 1, one.rows)
      <4>1. Len(u) + 1 <= Len(q) /\ 1 \in Nat
        BY <2>2, <2>4
      <4>. QED  BY <2>4, <2>8, <2>10, <4>1 DEF Looked, Rows
    <3>2. PICK v, c : v = u \o one.rows /\ c = 1
      OBVIOUS
    <3>3. Rows(q, p, Len(u), c, one.rows) /\ Fed(q, p, u)
      BY <2>4, <3>1, <3>2
    <3>4. Fed(q, p, v) /\ Len(v) = Len(u) + c
      <4>1. PICK rows : rows = one.rows
        OBVIOUS
      <4>2. Rows(q, p, Len(u), c, rows) /\ Fed(q, p, u) /\ v = u \o rows
        BY <3>2, <3>3, <4>1
      <4>3. FedMore(q, p, u, c, v)
        BY ONLY q \in Seq(Token), <4>2, FedOn
      <4>. QED  BY <4>3 DEF FedMore
    <3>5. h + 1 = Len(s) + n
      BY <1>2, <2>1
    <3>6. supports => Ready(one.lookups, q, p, h + 1)
      BY <2>8, <2>10 DEF Looked
    <3>. QED  BY <2>1, <2>4, <2>9, <3>2, <3>4, <3>5, <3>6
  <2>11. CASE ~one.ok
    <3>1. u \in Seq({Due(q, p, j) : j \in 1..Len(q)}) /\ one.rows = <<>>
      BY <2>4, <2>8, <2>11 DEF Fed
    <3>2. u \o one.rows = u
      BY <3>1
    <3>. QED  BY <2>1, <2>4, <2>9, <2>11, <3>2
  <2>. QED  BY <2>9, <2>10, <2>11
<1>. QED  BY <1>4, <1>6 DEF Looked, Grown

LEMMA PrefillGroupKeeps ==
    ASSUME Words \subseteq Nat \ {0}, EmbedInv, NEW n \in 1..(Len(prompt) - Len(fed)),
           NEW fail \in BOOLEAN, PrefillGroup(n, fail)
    PROVE  EmbedInv'
<1>1. PICK q, p, s, ls, f, places :
         q = prompt /\ p = prefills /\ s = fed /\ ls = lookups /\ f = Len(s) /\ places = 2 * p
  OBVIOUS
<1>2. /\ supports \in BOOLEAN /\ p \in Nat /\ places \in Nat /\ q \in Seq(Token) /\ Fed(q, p, s)
      /\ Lookups(ls, places)
      /\ ~supports => DOMAIN ls = {}
      /\ busy /\ supports => Ready(ls, q, p, f)
  BY <1>1 DEF EmbedInv
<1>3. f \in Nat /\ Len(q) \in Nat /\ n \in Nat \ {0} /\ f + n <= Len(q)
  <2>1. f \in Nat /\ Len(q) \in Nat
    BY <1>1, <1>2 DEF Fed
  <2>2. n \in 1..(Len(q) - f)
    BY <1>1
  <2>. QED  BY <2>1, <2>2
<1>4. PICK toks, skip : toks = Part(q, f + 1, f + n) /\ skip = (n = 1 /\ ~pendingRow)
  OBVIOUS
<1>5. PICK span : span = IF skip THEN [ok |-> TRUE, lookups |-> ls, rows |-> <<>>]
                         ELSE LookupSpan(ls, Part(toks, 1, n - 1))
  OBVIOUS
<1>6. PICK one : one = LookupOne(span.lookups, toks[n])
  OBVIOUS
<1>7. PICK ok, last : ok = (span.ok /\ one.ok /\ ~(fail /\ ~skip)) /\ last = (f + n = Len(q))
  OBVIOUS
<1>8. /\ busy
      /\ fed' = IF span.ok THEN s \o span.rows \o one.rows ELSE s
      /\ lookups' = IF ~span.ok THEN span.lookups
                    ELSE IF ok /\ last THEN <<>> ELSE one.lookups
      /\ pendingRow' = (span.ok /\ one.ok)
      /\ busy' = (ok /\ ~last)
      /\ supports' = supports /\ prompt' = q /\ prefills' = p
  BY <1>1, <1>4, <1>5, <1>6, <1>7 DEF PrefillGroup
<1>9. Able(ls, places, q, p, f)
  BY <1>2, <1>8 DEF Able
<1>10. Grown(q, p, s, places, n, span, one)
  BY <1>1, <1>2, <1>3, <1>4, <1>5, <1>6, <1>9, GroupGrows
<1>11. Fed(q, p, fed')
  BY <1>2, <1>8, <1>10 DEF Grown
<1>12. Fed(prompt, prefills, fed)'
  <2>1. PICK v : v = fed'
    OBVIOUS
  <2>2. Fed(q, p, v)'
    BY <1>8, <1>11, <2>1, FedStays
  <2>. QED  BY <1>8, <2>1, <2>2
<1>13. Lookups(lookups', places) /\ (~supports => DOMAIN lookups' = {})
  <2>1. Lookups(<<>>, places) /\ DOMAIN <<>> = {}
    <3>1. DOMAIN <<>> = {} /\ <<>> \in [{} -> Lookup]
      OBVIOUS
    <3>. QED  BY <3>1 DEF Lookups
  <2>. QED  BY <1>8, <1>10, <2>1 DEF Grown
<1>14. busy' \in BOOLEAN /\ pendingRow' \in BOOLEAN
  BY <1>8
<1>15. ASSUME busy', supports PROVE Ready(lookups', q, p, Len(fed'))
  <2>1. span.ok /\ one.ok /\ ~(ok /\ last)
    BY <1>7, <1>8, <1>15
  <2>2. lookups' = one.lookups /\ fed' = s \o span.rows \o one.rows
    BY <1>8, <2>1
  <2>3. Len(fed') = Len(s) + n /\ Ready(one.lookups, q, p, Len(s) + n)
    BY <1>10, <1>15, <2>1, <2>2 DEF Grown
  <2>. QED  BY <2>2, <2>3
<1>. QED  BY <1>1, <1>2, <1>8, <1>12, <1>13, <1>14, <1>15 DEF EmbedInv, Lookups, Ready

\* What comes with a prompt is added behind the earlier lookups.
KindOf(new, p, i) == CHOOSE x \in new : 2 * p - x = i
Brought(p, x, n) == [special |-> x, left |-> [k \in 1..n |-> <<"given", p + 1, x, k>>]]

LEMMA KindIs ==
    ASSUME NEW p \in Nat, NEW new \in SUBSET Special, NEW x \in new, NEW i, i = 2 * p - x
    PROVE  KindOf(new, p, i) = x
<1>1. \A y \in new : y \in Int
  BY DEF Special, Vision, Audio
<1>2. \A y \in new : 2 * p - y = i => y = x
  BY <1>1
<1>3. PICK z : z = KindOf(new, p, i)
  OBVIOUS
<1>4. z \in new /\ 2 * p - z = i
  BY <1>3 DEF KindOf
<1>. QED  BY <1>2, <1>3, <1>4

IsBrought(y, p, x, n) ==
    /\ y \in Lookup /\ y.special = x /\ Len(y.left) = n
    /\ \A k \in 1..n : y.left[k] = <<"given", p + 1, x, k>>

LEMMA BroughtIs ==
    ASSUME NEW p \in Nat, NEW x \in Special, NEW n \in Nat, NEW y, y = Brought(p, x, n)
    PROVE  IsBrought(y, p, x, n)
<1>1. PICK v : v = [k \in 1..n |-> <<"given", p + 1, x, k>>]
  OBVIOUS
<1>2. y.special = x /\ y.left = v /\ y = [special |-> x, left |-> v]
  BY <1>1 DEF Brought
<1>3. \A k \in 1..n : v[k] = <<"given", p + 1, x, k>> /\ v[k] \in Given
  <2>. SUFFICES ASSUME NEW k \in 1..n PROVE v[k] = <<"given", p + 1, x, k>> /\ v[k] \in Given
    OBVIOUS
  <2>1. v[k] = <<"given", p + 1, x, k>>
    BY <1>1
  <2>2. PICK o \in Nat : o = p + 1
    OBVIOUS
  <2>3. k \in Nat
    OBVIOUS
  <2>4. <<"given", o, x, k>> \in Given
    BY <2>2, <2>3 DEF Given
  <2>. QED  BY <2>1, <2>2, <2>4
<1>4. v \in [1..n -> Given]
  BY <1>1, <1>3
<1>5. v \in Seq(Given) /\ Len(v) = n
  BY <1>4
<1>. QED  BY <1>2, <1>3, <1>5 DEF Lookup, IsBrought

Extended(r, ls, p, new, came) ==
    /\ Lookups(r, 2 * (p + 1))
    /\ new = {} => DOMAIN r = DOMAIN ls
    /\ \A x \in new : \E i \in DOMAIN r :
          /\ r[i].special = x /\ Len(r[i].left) = came[x]
          /\ \A k \in 1..came[x] : r[i].left[k] = <<"given", p + 1, x, k>>
          /\ \A k \in DOMAIN r : r[k].special = x => k <= i

LEMMA ExtendedIs ==
    ASSUME NEW p \in Nat, NEW ls, Lookups(ls, 2 * p), NEW new \in SUBSET Special, NEW came,
           \A x \in new : came[x] \in Nat, NEW all, all = DOMAIN ls \cup {2 * p - x : x \in new},
           NEW r, r = [i \in all |-> IF i \in DOMAIN ls THEN ls[i]
                                     ELSE Brought(p, KindOf(new, p, i), came[KindOf(new, p, i)])]
    PROVE  Extended(r, ls, p, new, came)
<1>1. DOMAIN ls \subseteq 1..(2 * p) /\ \A i \in DOMAIN ls : ls[i] \in Lookup
  BY DEF Lookups
<1>2. \A x \in new : x \in Special /\ (x = -1 \/ x = -2)
  BY DEF Special, Vision, Audio
<1>3. ASSUME NEW x \in new, NEW i, i = 2 * p - x
      PROVE  /\ i \in all /\ i \notin DOMAIN ls /\ i \in 1..(2 * (p + 1)) /\ i > 2 * p
             /\ r[i] = Brought(p, x, came[x])
  <2>1. i \in 1..(2 * (p + 1)) /\ i > 2 * p
    BY <1>2, <1>3
  <2>2. i \in all /\ i \notin DOMAIN ls
    BY <1>1, <1>3, <2>1
  <2>3. KindOf(new, p, i) = x
    BY <1>3, KindIs
  <2>. QED  BY <2>1, <2>2, <2>3
<1>4. ASSUME NEW i \in all, i \notin DOMAIN ls
      PROVE  \E x \in new : i = 2 * p - x
  BY <1>4
<1>5. DOMAIN r = all /\ \A i \in DOMAIN ls : i \in all /\ r[i] = ls[i]
  OBVIOUS
<1>6. \A i \in all : r[i] \in Lookup
  <2>. SUFFICES ASSUME NEW i \in all PROVE r[i] \in Lookup
    OBVIOUS
  <2>1. CASE i \in DOMAIN ls
    BY <1>1, <1>5, <2>1
  <2>2. CASE i \notin DOMAIN ls
    <3>1. PICK x \in new : i = 2 * p - x
      BY <1>4, <2>2
    <3>2. r[i] = Brought(p, x, came[x])
      BY <1>3, <3>1
    <3>3. came[x] \in Nat /\ x \in Special
      BY <1>2
    <3>. QED  BY <3>2, <3>3, BroughtIs DEF IsBrought
  <2>. QED  BY <2>1, <2>2
<1>7. Lookups(r, 2 * (p + 1))
  <2>1. all \subseteq 1..(2 * (p + 1))
    <3>1. \A i \in DOMAIN ls : i \in 1..(2 * (p + 1))
      BY <1>1
    <3>2. \A i \in all : i \in DOMAIN ls \/ \E x \in new : i = 2 * p - x
      BY <1>4
    <3>. QED  BY <1>3, <3>1, <3>2
  <2>2. r \in [all -> Lookup]
    BY <1>6
  <2>. QED  BY <1>5, <2>1, <2>2 DEF Lookups
<1>8. ASSUME NEW x \in new
      PROVE  \E i \in DOMAIN r :
                /\ r[i].special = x /\ Len(r[i].left) = came[x]
                /\ \A k \in 1..came[x] : r[i].left[k] = <<"given", p + 1, x, k>>
                /\ \A k \in DOMAIN r : r[k].special = x => k <= i
  <2>1. PICK i : i = 2 * p - x
    OBVIOUS
  <2>2. /\ i \in all /\ i \notin DOMAIN ls /\ i \in 1..(2 * (p + 1)) /\ i > 2 * p
        /\ r[i] = Brought(p, x, came[x])
    BY <1>3, <2>1
  <2>3. came[x] \in Nat /\ x \in Special
    BY <1>2
  <2>4. /\ r[i].special = x /\ Len(r[i].left) = came[x]
        /\ \A k \in 1..came[x] : r[i].left[k] = <<"given", p + 1, x, k>>
    <3>1. PICK c, y : c = came[x] /\ y = r[i]
      OBVIOUS
    <3>2. c \in Nat /\ y = Brought(p, x, c)
      BY <2>2, <2>3, <3>1
    <3>3. /\ y.special = x /\ Len(y.left) = c
          /\ \A k \in 1..c : y.left[k] = <<"given", p + 1, x, k>>
      <4>1. IsBrought(y, p, x, c)
        BY <2>3, <3>2, BroughtIs
      <4>. QED  BY <4>1 DEF IsBrought
    <3>. QED  BY <3>1, <3>3
  <2>5. ASSUME NEW k \in all, r[k].special = x PROVE k <= i
    <3>1. CASE k \in DOMAIN ls
      <4>1. k \in 1..(2 * p)
        BY <1>1, <3>1
      <4>. QED  BY <2>2, <4>1
    <3>2. CASE k \notin DOMAIN ls
      <4>1. PICK z \in new : k = 2 * p - z
        BY <1>4, <3>2
      <4>2. r[k] = Brought(p, z, came[z])
        BY <1>3, <4>1
      <4>3. came[z] \in Nat /\ z \in Special
        BY <1>2
      <4>4. r[k].special = z
        <5>1. IsBrought(r[k], p, z, came[z])
          BY <4>2, <4>3, BroughtIs
        <5>. QED  BY <5>1 DEF IsBrought
      <4>5. k = i
        BY <2>1, <2>5, <4>1, <4>4
      <4>. QED  BY <2>2, <4>5
    <3>. QED  BY <3>1, <3>2
  <2>. QED  BY <1>5, <2>2, <2>4, <2>5
<1>9. new = {} => DOMAIN r = DOMAIN ls
  BY <1>5
<1>. QED  BY <1>7, <1>8, <1>9 DEF Extended

\* The embeddings that come with a prompt serve all of it.
LEMMA ReadyAtFirst ==
    ASSUME NEW r, NEW ls, NEW p \in Nat, NEW new, NEW came, Extended(r, ls, p, new, came),
           NEW q \in Seq(Token),
           \A x \in Special : came[x] = Count(q, x) /\ (came[x] > 0 => x \in new),
           NEW h, h = p + 1
    PROVE  Ready(r, q, h, 0)
<1>. SUFFICES ASSUME NEW x \in Special, Upto(q, 0, x) < Upto(q, Len(q), x)
              PROVE  \E i : Serves(r, q, h, 0, x, i)
  BY DEF Ready
<1>1. Upto(q, 0, x) = 0 /\ Count(q, x) = Upto(q, Len(q), x) /\ Count(q, x) \in Nat
  BY UptoZero, CountIs
<1>2. PICK n \in Nat : n = Count(q, x)
  BY <1>1
<1>3. came[x] = n /\ n > 0
  BY <1>1, <1>2
<1>4. x \in new
  BY <1>3
<1>5. PICK i \in DOMAIN r :
         /\ r[i].special = x /\ Len(r[i].left) = came[x]
         /\ \A k \in 1..came[x] : r[i].left[k] = <<"given", p + 1, x, k>>
         /\ \A k \in DOMAIN r : r[k].special = x => k <= i
  BY <1>4 DEF Extended
<1>6. Len(r[i].left) = Upto(q, Len(q), x) - Upto(q, 0, x)
  BY <1>1, <1>2, <1>3, <1>5
<1>7. \A k \in 1..Len(r[i].left) : r[i].left[k] = <<"given", h, x, Upto(q, 0, x) + k>>
  <2>. SUFFICES ASSUME NEW k \in 1..n PROVE r[i].left[k] = <<"given", h, x, Upto(q, 0, x) + k>>
    BY <1>3, <1>5
  <2>1. Upto(q, 0, x) + k = k
    BY <1>1
  <2>. QED  BY <1>3, <1>5, <2>1
<1>8. Serves(r, q, h, 0, x, i)
  BY <1>5, <1>6, <1>7 DEF Serves
<1>. QED  BY <1>8

LEMMA StartPrefillKeeps ==
    ASSUME EmbedInv, NEW toks \in Seq(Token), NEW came,
           \/ \A x \in Special : came[x] = Count(toks, x)
           \/ ~supports /\ \A x \in Special : came[x] = 0,
           StartPrefill(toks, came)
    PROVE  EmbedInv'
<1>1. PICK p, ls, new, all :
        /\ p = prefills /\ ls = lookups /\ new = {x \in Special : came[x] > 0}
        /\ all = DOMAIN ls \cup {2 * p - x : x \in new}
  OBVIOUS
<1>2. PICK r : r = [i \in all |-> IF i \in DOMAIN ls THEN ls[i]
                                  ELSE Brought(p, KindOf(new, p, i), came[KindOf(new, p, i)])]
  OBVIOUS
<1>3. /\ prefills' = p + 1 /\ busy' = ~(~supports /\ new # {}) /\ prompt' = toks /\ fed' = <<>>
      /\ supports' = supports /\ pendingRow' = pendingRow
  BY <1>1 DEF StartPrefill
<1>4. lookups' = IF ~supports /\ new # {} THEN ls ELSE r
  <2>1. all = DOMAIN lookups \cup {Place(special) : special \in new}
    BY <1>1 DEF Place
  <2>. QED  BY <1>1, <1>2, <2>1 DEF StartPrefill, Place, Embeddings, KindOf, Brought
<1>5. /\ supports \in BOOLEAN /\ pendingRow \in BOOLEAN /\ p \in Nat /\ Lookups(ls, 2 * p)
      /\ ~supports => DOMAIN ls = {}
  BY <1>1 DEF EmbedInv
<1>6. \A x \in Special : came[x] \in Nat
  BY CountIs
<1>7. Extended(r, ls, p, new, came)
  <2>1. new \in SUBSET Special /\ \A x \in new : came[x] \in Nat
    BY <1>1, <1>6
  <2>2. /\ all = DOMAIN ls \cup {2 * p - x : x \in new}
        /\ p \in Nat /\ Lookups(ls, 2 * p)
    BY <1>1, <1>5
  <2>. QED  BY ONLY <1>2, <2>1, <2>2, ExtendedIs
<1>8. Lookups(ls, 2 * (p + 1)) /\ Lookups(r, 2 * (p + 1))
  <2>1. Lookups(ls, 2 * (p + 1))
    <3>1. DOMAIN ls \subseteq 1..(2 * p) /\ ls \in [DOMAIN ls -> Lookup]
      BY <1>5 DEF Lookups
    <3>2. \A i \in 1..(2 * p) : i \in 1..(2 * (p + 1))
      BY <1>5
    <3>. QED  BY <3>1, <3>2 DEF Lookups
  <2>. QED  BY <1>7, <2>1 DEF Extended
<1>9. Lookups(lookups', 2 * prefills') /\ (~supports => DOMAIN lookups' = {})
  <2>1. ~supports /\ new = {} => DOMAIN r = {}
    BY <1>5, <1>7 DEF Extended
  <2>. QED  BY <1>3, <1>4, <1>5, <1>8, <2>1
<1>10. Fed(prompt, prefills, fed)'
  BY <1>3 DEF Fed
<1>11. ASSUME busy', supports PROVE Ready(lookups', toks, prefills', 0)
  <2>1. \A x \in Special : came[x] = Count(toks, x) /\ (came[x] > 0 => x \in new)
    BY <1>1, <1>11
  <2>2. lookups' = r
    BY <1>4, <1>11
  <2>. QED  BY <1>3, <1>5, <1>7, <2>1, <2>2, ReadyAtFirst
<1>12. Len(fed') = 0
  BY <1>3
<1>13. busy' \in BOOLEAN /\ prefills' \in Nat
  BY <1>3, <1>5
<1>. QED  BY <1>3, <1>5, <1>9, <1>10, <1>11, <1>12, <1>13 DEF EmbedInv, Lookups, Ready

LEMMA EmbedInvNext ==
    ASSUME Words \subseteq Nat \ {0}, EmbedInv, EmbedNext
    PROVE  EmbedInv'
<1>1. ASSUME NEW len \in 1..MaxPrompt, NEW toks \in [1..len -> Words \cup Special \cup {EndOf}],
             NEW came \in BOOLEAN, supports => came,
             StartPrefill(toks, [special \in Special |-> IF came THEN Count(toks, special) ELSE 0])
      PROVE  EmbedInv'
  <2>1. PICK amount : amount = [special \in Special |-> IF came THEN Count(toks, special) ELSE 0]
    OBVIOUS
  <2>2. StartPrefill(toks, amount)
    BY <1>1, <2>1
  <2>3. \/ \A x \in Special : amount[x] = Count(toks, x)
        \/ ~supports /\ \A x \in Special : amount[x] = 0
    BY <1>1, <2>1
  <2>4. toks \in Seq(Token)
    BY DEF Token
  <2>. QED  BY <2>2, <2>3, <2>4, StartPrefillKeeps
<1>2. ASSUME NEW n \in 1..(Len(prompt) - Len(fed)), NEW fail \in BOOLEAN, PrefillGroup(n, fail)
      PROVE  EmbedInv'
  BY <1>2, PrefillGroupKeeps
<1>. QED  BY <1>1, <1>2 DEF EmbedNext

\* In a reachable state the rows are those that are due.
LEMMA EmbedInvOrder == EmbedInv => EmbeddingsInOrder
<1>. SUFFICES ASSUME EmbedInv, NEW j \in DOMAIN fed
              PROVE  fed[j] = IF prompt[j] > 0 \/ (prompt[j] = EndOf /\ supports) THEN Row(prompt[j])
                              ELSE IF ~supports THEN DefaultRow
                              ELSE <<"given", prefills, prompt[j], Rank(prompt, j)>>
  BY DEF EmbeddingsInOrder
<1>1. Fed(prompt, prefills, fed)
  BY DEF EmbedInv
<1>2. DOMAIN fed = 1..Len(fed)
  BY <1>1 DEF Fed
<1>3. fed[j] = Due(prompt, prefills, j)
  BY <1>1, <1>2 DEF Fed
<1>4. Rank(prompt, j) = Upto(prompt, j, prompt[j])
  BY DEF Rank, Upto
<1>. QED  BY <1>3, <1>4 DEF Due

\* Whatever groups a prompt is run in, and whatever an earlier prefill that
\* failed left behind, each token is embedded by its own embedding, and a
\* special token by the one of its rank among those given with its own prompt.
\* (embedding_lookup_manager.cc, embedding_lookup_multi_modal.cc)
THEOREM EmbeddingsAreDue ==
    ASSUME Words \subseteq Nat \ {0}
    PROVE  EmbedSpec => []EmbeddingsInOrder
<1>1. ASSUME EmbedInv,
             [EmbedNext]_<<supports, lookups, prompt, fed, pendingRow, prefills, busy>>
      PROVE  EmbedInv'
  <2>1. CASE EmbedNext
    BY <1>1, <2>1, EmbedInvNext
  <2>2. CASE UNCHANGED <<supports, lookups, prompt, fed, pendingRow, prefills, busy>>
    BY <1>1, <2>2 DEF EmbedInv, Fed, Due, Lookups, Ready
  <2>. QED  BY <1>1, <2>1, <2>2
<1>. QED  BY <1>1, EmbedInvInit, EmbedInvOrder, PTL DEF EmbedSpec

(***************************************************************************)
(* A model file.                                                            *)
(***************************************************************************)
Byte == {"zero"} \cup [section : Nat, at : Nat]
Section == [key : Key, length : Nat]
Sizes == BlockSize \in Nat \ {0} /\ Length \subseteq Nat /\ Alignments \subseteq Nat \ {0}

LEMMA LengthIs ==
    ASSUME sections \in Seq(Section), NEW i \in 1..Len(sections)
    PROVE  sections[i].key \in Key /\ sections[i].length \in Nat
<1>1. sections[i] \in Section
  OBVIOUS
<1>. QED  BY <1>1 DEF Section

\* The file after a section, and what is written when it is written so.
Step(before, i) ==
    (before \o Content(i)) \o Zeros(Pad(Len(before \o Content(i))))

IsWriting(f, n) ==
    /\ f \in [0..n -> Seq(Byte)]
    /\ f[0] = Zeros(BlockSize)
    /\ \A i \in 1..n : f[i] = Step(f[i - 1], i)

LEMMA ZerosAre ==
    ASSUME NEW n \in Nat PROVE Zeros(n) \in Seq(Byte) /\ Len(Zeros(n)) = n
<1>1. Zeros(n) \in [1..n -> Byte]
  BY DEF Zeros, Byte
<1>. QED  BY <1>1

LEMMA ContentIs ==
    ASSUME NEW i \in Nat, NEW n \in Nat, sections[i].length = n
    PROVE  /\ Content(i) \in Seq(Byte) /\ Len(Content(i)) = n
           /\ \A j \in 1..n : Content(i)[j] = [section |-> i, at |-> j]
<1>1. \A j \in 1..n : [section |-> i, at |-> j] \in Byte
  BY DEF Byte
<1>2. Content(i) = [j \in 1..n |-> [section |-> i, at |-> j]]
  BY DEF Content
<1>3. Content(i) \in [1..n -> Byte]
  BY <1>1, <1>2
<1>. QED  BY <1>2, <1>3

LEMMA PadIs ==
    ASSUME Sizes, NEW n \in Nat PROVE Pad(n) \in Nat
<1>1. PICK b \in Nat \ {0} : b = BlockSize
  BY DEF Sizes
<1>2. PICK m : m = n % b
  OBVIOUS
<1>3. m \in 0..(b - 1)
  BY <1>2
<1>4. b - m \in Nat
  BY <1>3
<1>5. PICK d \in Nat : d = b - m
  BY <1>4
<1>6. d % b \in 0..(b - 1)
  OBVIOUS
<1>. QED  BY <1>1, <1>2, <1>5, <1>6 DEF Pad

Extends(s, before, i, n) ==
    /\ s \in Seq(Byte) /\ Len(before) + n <= Len(s)
    /\ \A p \in 1..Len(before) : s[p] = before[p]
    /\ \A j \in 1..n : s[Len(before) + j] = [section |-> i, at |-> j]

LEMMA StepIs ==
    ASSUME Sizes, NEW i \in Nat, NEW n \in Nat, sections[i].length = n,
           NEW before \in Seq(Byte), NEW s, s = Step(before, i)
    PROVE  Extends(s, before, i, n)
<1>1. PICK c : c = Content(i)
  OBVIOUS
<1>2. c \in Seq(Byte) /\ Len(c) = n /\ \A j \in 1..n : c[j] = [section |-> i, at |-> j]
  BY <1>1, ContentIs
<1>3. PICK u : u = before \o c
  OBVIOUS
<1>4. PICK b \in Nat : b = Len(before)
  OBVIOUS
<1>5. /\ u \in Seq(Byte) /\ Len(u) = b + n
      /\ \A p \in 1..(b + n) : u[p] = IF p <= b THEN before[p] ELSE c[p - b]
  <2>1. PICK B : B = Byte
    OBVIOUS
  <2>2. c \in Seq(B) /\ Len(c) = n /\ before \in Seq(B) /\ Len(before) = b
    BY <1>2, <1>4, <2>1
  <2>3. /\ u \in Seq(B) /\ Len(u) = Len(before) + Len(c)
        /\ \A p \in 1..(Len(before) + Len(c)) : u[p] = IF p <= Len(before) THEN before[p] ELSE c[p - Len(before)]
    BY ONLY <1>3, <2>2, ConcatProperties
  <2>. QED  BY <2>1, <2>2, <2>3
<1>6. Pad(Len(u)) \in Nat
  <2>1. Len(u) \in Nat
    BY <1>5
  <2>. QED  BY <2>1, PadIs
<1>7. PICK z : z = Zeros(Pad(Len(u)))
  OBVIOUS
<1>8. z \in Seq(Byte)
  BY <1>6, <1>7, ZerosAre
<1>9. s = u \o z
  BY <1>1, <1>3, <1>7 DEF Step
<1>10. /\ s \in Seq(Byte) /\ Len(s) = Len(u) + Len(z) /\ Len(z) \in Nat
       /\ \A p \in 1..Len(u) : s[p] = u[p]
  BY <1>5, <1>8, <1>9
<1>11. \A p \in 1..b : s[p] = before[p]
  BY <1>5, <1>10
<1>12. ASSUME NEW j \in 1..n PROVE s[b + j] = [section |-> i, at |-> j]
  <2>1. b + j \in 1..(b + n) /\ ~(b + j <= b) /\ (b + j) - b = j
    OBVIOUS
  <2>2. s[b + j] = c[j]
    BY <1>5, <1>10, <2>1
  <2>. QED  BY <1>2, <2>2
<1>13. b + n <= Len(s)
  BY <1>5, <1>10
<1>. QED  BY <1>4, <1>10, <1>11, <1>12, <1>13 DEF Extends

\* What has been written is a function of how many sections: there is one.
LEMMA WritingExists ==
    ASSUME Sizes, sections \in Seq(Section)
    PROVE  \E f : IsWriting(f, Len(sections))
<1>1. PICK m \in Nat : m = Len(sections)
  OBVIOUS
<1>2. PICK S : S = {n \in Nat : n <= m => \E f : IsWriting(f, n)}
  OBVIOUS
<1>3. 0 \in S
  <2>1. PICK f : f = [i \in 0..0 |-> Zeros(BlockSize)]
    OBVIOUS
  <2>2. Zeros(BlockSize) \in Seq(Byte)
    BY ZerosAre DEF Sizes
  <2>3. f \in [0..0 -> Seq(Byte)] /\ f[0] = Zeros(BlockSize)
    BY <2>1, <2>2
  <2>4. IsWriting(f, 0)
    BY <2>3 DEF IsWriting
  <2>. QED  BY <1>2, <2>4
<1>4. ASSUME NEW n \in Nat, n \in S PROVE n + 1 \in S
  <2>. SUFFICES ASSUME n + 1 <= m PROVE \E f : IsWriting(f, n + 1)
    BY <1>2
  <2>1. PICK g : IsWriting(g, n)
    BY <1>2, <1>4
  <2>2. g \in [0..n -> Seq(Byte)] /\ g[0] = Zeros(BlockSize) /\ \A i \in 1..n : g[i] = Step(g[i - 1], i)
    BY <2>1 DEF IsWriting
  <2>3. PICK o \in Nat : o = n + 1
    OBVIOUS
  <2>4. sections[o].length \in Nat
    <3>1. o \in 1..Len(sections)
      BY <1>1, <2>3
    <3>. QED  BY <3>1, LengthIs
  <2>5. PICK s : s = Step(g[n], o)
    OBVIOUS
  <2>6. s \in Seq(Byte)
    <3>1. g[n] \in Seq(Byte)
      BY <2>2
    <3>2. Extends(s, g[n], o, sections[o].length)
      BY <2>4, <2>5, <3>1, StepIs
    <3>. QED  BY <3>2 DEF Extends
  <2>7. PICK f : f = [i \in 0..o |-> IF i = o THEN s ELSE g[i]]
    OBVIOUS
  <2>8. f \in [0..o -> Seq(Byte)]
    BY <2>2, <2>3, <2>6, <2>7
  <2>9. f[0] = Zeros(BlockSize)
    BY <2>2, <2>3, <2>7
  <2>10. ASSUME NEW i \in 1..o PROVE f[i] = Step(f[i - 1], i)
    <3>1. CASE i = o
      <4>1. i - 1 = n /\ f[i] = s /\ f[n] = g[n]
        BY <2>3, <2>7, <3>1
      <4>. QED  BY <2>5, <3>1, <4>1
    <3>2. CASE i # o
      <4>1. i \in 1..n /\ i - 1 \in 0..n /\ i - 1 # o
        BY <2>3, <3>2
      <4>2. f[i] = g[i] /\ f[i - 1] = g[i - 1]
        BY <2>3, <2>7, <3>2, <4>1
      <4>. QED  BY <2>2, <4>1, <4>2
    <3>. QED  BY <3>1, <3>2
  <2>. QED  BY <2>3, <2>8, <2>9, <2>10 DEF IsWriting
<1>5. m \in S
  <2>1. Nat \subseteq S
    BY <1>3, <1>4, NatAll
  <2>. QED  BY <2>1
<1>. QED  BY <1>1, <1>2, <1>5

LEMMA WrittenIs ==
    ASSUME Sizes, sections \in Seq(Section)
    PROVE  IsWriting(Written, Len(sections))
<1>1. PICK m \in Nat : m = Len(sections)
  OBVIOUS
<1>2. PICK f : IsWriting(f, m)
  BY <1>1, WritingExists
<1>3. f = [i \in 0..m |-> IF i = 0 THEN Zeros(BlockSize) ELSE Step(f[i - 1], i)]
  <2>1. \A i \in 0..m : i = 0 \/ i \in 1..m
    OBVIOUS
  <2>. QED  BY <1>2, <2>1 DEF IsWriting
<1>4. Written = CHOOSE g : g = [i \in 0..m |-> IF i = 0 THEN Zeros(BlockSize) ELSE Step(g[i - 1], i)]
  BY <1>1 DEF Written, Step
<1>5. Written = [i \in 0..m |-> IF i = 0 THEN Zeros(BlockSize) ELSE Step(Written[i - 1], i)]
  BY <1>3, <1>4
<1>6. PICK S : S = {n \in Nat : n <= m => Written[n] \in Seq(Byte)}
  OBVIOUS
<1>7. 0 \in S
  <2>1. Written[0] = Zeros(BlockSize)
    BY <1>5
  <2>. QED  BY <1>6, <2>1, ZerosAre DEF Sizes
<1>8. ASSUME NEW n \in Nat, n \in S PROVE n + 1 \in S
  <2>. SUFFICES ASSUME n + 1 <= m PROVE Written[n + 1] \in Seq(Byte)
    BY <1>6
  <2>1. PICK o \in Nat : o = n + 1
    OBVIOUS
  <2>2. o \in 0..m /\ o # 0 /\ o - 1 = n
    BY <2>1
  <2>3. Written[o] = Step(Written[n], o)
    BY <1>5, <2>2
  <2>4. sections[o].length \in Nat /\ Written[n] \in Seq(Byte)
    <3>1. o \in 1..Len(sections) /\ n <= m
      BY <1>1, <2>1
    <3>2. Written[n] \in Seq(Byte)
      BY <1>6, <1>8, <3>1
    <3>. QED  BY <3>1, <3>2, LengthIs
  <2>5. Extends(Written[o], Written[n], o, sections[o].length)
    BY <2>3, <2>4, StepIs
  <2>. QED  BY <2>1, <2>5 DEF Extends
<1>9. \A n \in 0..m : Written[n] \in Seq(Byte)
  <2>1. Nat \subseteq S
    BY <1>7, <1>8, NatAll
  <2>. QED  BY <1>6, <2>1
<1>10. Written \in [0..m -> Seq(Byte)]
  BY <1>5, <1>9
<1>11. Written[0] = Zeros(BlockSize) /\ \A i \in 1..m : Written[i] = Step(Written[i - 1], i)
  BY <1>5
<1>. QED  BY <1>1, <1>10, <1>11 DEF IsWriting

\* A section is where it was begun, in all that is written.
LEMMA SectionIsWritten ==
    ASSUME Sizes, sections \in Seq(Section), NEW i \in 1..Len(sections),
           NEW n, n = sections[i].length, NEW all, all = Written[Len(sections)],
           NEW b, b = Begin(i)
    PROVE  /\ b \in Nat /\ BlockSize <= b /\ all \in Seq(Byte) /\ b + n <= Len(all)
           /\ \A j \in 1..n : all[b + j] = [section |-> i, at |-> j]
<1>1. PICK m \in Nat : m = Len(sections)
  OBVIOUS
<1>2. PICK w : w = Written
  OBVIOUS
<1>3. /\ w \in [0..m -> Seq(Byte)] /\ w[0] = Zeros(BlockSize)
      /\ \A k \in 1..m : w[k] = Step(w[k - 1], k)
  BY <1>1, <1>2, WrittenIs DEF IsWriting
<1>4. i \in 1..m /\ n \in Nat
  BY <1>1, LengthIs
<1>5. ASSUME NEW k \in 1..m
      PROVE  Extends(w[k], w[k - 1], k, sections[k].length) /\ sections[k].length \in Nat
             /\ w[k - 1] \in Seq(Byte) /\ w[k] \in Seq(Byte)
  <2>1. sections[k].length \in Nat
    BY <1>1, LengthIs
  <2>2. k - 1 \in 0..m /\ k \in 0..m
    OBVIOUS
  <2>3. w[k - 1] \in Seq(Byte) /\ w[k] \in Seq(Byte)
    BY <1>3, <2>2
  <2>4. k \in Nat
    OBVIOUS
  <2>. QED  BY <1>3, <2>1, <2>3, <2>4, StepIs
<1>6. b = Len(w[i - 1]) /\ b \in Nat
  BY <1>2, <1>4, <1>5 DEF Begin
<1>7. BlockSize <= b
  <2>1. PICK S : S = {k \in Nat : k <= m => BlockSize <= Len(w[k])}
    OBVIOUS
  <2>2. 0 \in S
    <3>1. Len(w[0]) = BlockSize /\ BlockSize \in Nat
      BY <1>3, ZerosAre DEF Sizes
    <3>. QED  BY <2>1, <3>1
  <2>3. ASSUME NEW k \in Nat, k \in S PROVE k + 1 \in S
    <3>. SUFFICES ASSUME k + 1 <= m PROVE BlockSize <= Len(w[k + 1])
      BY <2>1
    <3>1. PICK o \in 1..m : o = k + 1
      BY <1>1
    <3>2. o - 1 = k /\ Len(w[k]) \in Nat /\ Len(w[o]) \in Nat /\ BlockSize <= Len(w[k])
      BY <1>1, <1>5, <2>1, <2>3, <3>1
    <3>3. Len(w[o - 1]) + sections[o].length <= Len(w[o]) /\ sections[o].length \in Nat
      BY <1>5 DEF Extends
    <3>4. BlockSize \in Nat
      BY DEF Sizes
    <3>5. PICK p, q, l, z \in Nat : p = Len(w[k]) /\ q = Len(w[o]) /\ l = sections[o].length /\ z = BlockSize
      BY <3>2, <3>3, <3>4
    <3>6. z <= p /\ p + l <= q
      BY <3>2, <3>3, <3>5
    <3>7. z <= q
      BY ONLY <3>6, p \in Nat, q \in Nat, l \in Nat, z \in Nat
    <3>. QED  BY <3>1, <3>5, <3>7
  <2>4. Nat \subseteq S
    BY <2>2, <2>3, NatAll
  <2>5. i - 1 \in S /\ i - 1 <= m
    BY <1>4, <2>4
  <2>. QED  BY <1>6, <2>1, <2>5
<1>8. PICK S : S = {k \in Nat : i <= k /\ k <= m =>
                       b + n <= Len(w[k]) /\ \A j \in 1..n : w[k][b + j] = [section |-> i, at |-> j]}
  OBVIOUS
<1>9. 0 \in S
  BY <1>4, <1>8
<1>10. ASSUME NEW k \in Nat, k \in S PROVE k + 1 \in S
  <2>. SUFFICES ASSUME i <= k + 1, k + 1 <= m
                PROVE  /\ b + n <= Len(w[k + 1])
                       /\ \A j \in 1..n : w[k + 1][b + j] = [section |-> i, at |-> j]
    BY <1>8
  <2>1. PICK o \in 1..m : o = k + 1
    BY <1>1
  <2>2. /\ o - 1 = k /\ Len(w[k]) \in Nat /\ Len(w[o]) \in Nat
        /\ Len(w[k]) + sections[o].length <= Len(w[o]) /\ sections[o].length \in Nat
        /\ \A p \in 1..Len(w[k]) : w[o][p] = w[k][p]
        /\ \A j \in 1..sections[o].length : w[o][Len(w[k]) + j] = [section |-> o, at |-> j]
    <3>1. o - 1 = k
      BY <2>1
    <3>2. /\ Extends(w[o], w[k], o, sections[o].length) /\ sections[o].length \in Nat
          /\ w[k] \in Seq(Byte) /\ w[o] \in Seq(Byte)
      BY <1>5, <3>1
    <3>. QED  BY <3>1, <3>2 DEF Extends
  <2>3. CASE i = o
    <3>1. b = Len(w[k]) /\ sections[o].length = n
      BY <1>6, <2>2, <2>3
    <3>. QED  BY <2>1, <2>2, <2>3, <3>1
  <2>4. CASE i # o
    <3>1. i <= k /\ k <= m
      <4>1. i <= o /\ o <= m /\ o = k + 1 /\ i \in Nat
        BY <1>4, <2>1
      <4>. QED  BY ONLY k \in Nat, m \in Nat, <2>4, <4>1
    <3>2. b + n <= Len(w[k]) /\ \A j \in 1..n : w[k][b + j] = [section |-> i, at |-> j]
      BY <1>8, <1>10, <3>1
    <3>3. \A j \in 1..n : b + j \in 1..Len(w[k])
      <4>1. PICK x \in Nat : x = Len(w[k])
        BY <2>2
      <4>2. b + n <= x /\ b \in Nat /\ n \in Nat
        BY <1>4, <1>6, <3>2, <4>1
      <4>3. \A j \in 1..n : b + j \in 1..x
        BY ONLY <4>2, x \in Nat
      <4>. QED  BY <4>1, <4>3
    <3>4. b + n <= Len(w[o])
      <4>1. PICK x, y \in Nat : x = Len(w[k]) /\ y = Len(w[o])
        BY <2>2
      <4>2. PICK d \in Nat : d = sections[o].length
        BY <2>2
      <4>3. b + n <= x /\ x + d <= y /\ x \in Nat /\ b \in Nat /\ n \in Nat
        BY <1>4, <1>6, <2>2, <3>2, <4>1, <4>2
      <4>4. b + n <= y
        BY <4>3
      <4>. QED  BY <4>1, <4>4
    <3>. QED  BY <2>1, <2>2, <3>2, <3>3, <3>4
  <2>. QED  BY <2>3, <2>4
<1>11. m \in S
  <2>1. Nat \subseteq S
    BY <1>9, <1>10, NatAll
  <2>. QED  BY <2>1
<1>12. all = w[m] /\ all \in Seq(Byte) /\ i <= m
  BY <1>1, <1>2, <1>3, <1>4
<1>. QED  BY <1>6, <1>7, <1>8, <1>11, <1>12

\* Of several sections of one key the last one counts.
LEMMA LastIs ==
    ASSUME NEW hs, NEW n \in Nat, DOMAIN hs = 1..n, Len(hs) = n, NEW k,
           \E i \in 1..n : hs[i].key = k, NEW l, l = LastOf(hs, k)
    PROVE  l \in 1..n /\ hs[l].key = k /\ \A j \in 1..n : hs[j].key = k => j <= l
<1>1. PICK K : K = {i \in 1..n : hs[i].key = k}
  OBVIOUS
<1>2. PICK x \in K : \A y \in K : y <= x
  <2>1. K \in SUBSET (0..n) /\ K # {}
    BY <1>1
  <2>. QED  BY <2>1, NatMost
<1>3. x \in DOMAIN hs /\ hs[x].key = k /\ \A j \in (x + 1)..Len(hs) : hs[j].key # k
  <2>1. ASSUME NEW j \in (x + 1)..n PROVE hs[j].key # k
    <3>1. j \in 1..n /\ ~(j <= x)
      BY <1>1
    <3>. QED  BY <1>1, <1>2, <3>1
  <2>. QED  BY <1>1, <2>1
<1>4. l \in DOMAIN hs /\ hs[l].key = k /\ \A j \in (l + 1)..Len(hs) : hs[j].key # k
  BY <1>3 DEF LastOf
<1>5. ASSUME NEW j \in 1..n, hs[j].key = k PROVE j <= l
  <2>1. ~(j \in (l + 1)..n)
    BY <1>4, <1>5
  <2>2. l \in Int
    BY <1>4
  <2>. QED  BY <2>1, <2>2
<1>. QED  BY <1>4, <1>5

LEMMA LastSame ==
    ASSUME NEW hs, NEW ss, NEW n \in Nat, DOMAIN hs = 1..n, Len(hs) = n, DOMAIN ss = 1..n, Len(ss) = n,
           \A i \in 1..n : hs[i].key = ss[i].key, NEW k, \E i \in 1..n : hs[i].key = k
    PROVE  LastOf(hs, k) = LastOf(ss, k) /\ LastOf(ss, k) \in 1..n
<1>1. PICK a, b : a = LastOf(hs, k) /\ b = LastOf(ss, k)
  OBVIOUS
<1>2. a \in 1..n /\ hs[a].key = k /\ \A j \in 1..n : hs[j].key = k => j <= a
  BY <1>1, LastIs
<1>3. b \in 1..n /\ ss[b].key = k /\ \A j \in 1..n : ss[j].key = k => j <= b
  <2>1. \E i \in 1..n : ss[i].key = k
    OBVIOUS
  <2>. QED  BY <1>1, <2>1, LastIs
<1>4. a <= b /\ b <= a
  BY <1>2, <1>3
<1>. QED  BY <1>1, <1>2, <1>3, <1>4

(***************************************************************************)
(* The invariant.                                                           *)
(***************************************************************************)
\* The section i is in the file from begin to end.
Holds(i, begin, end) ==
    /\ begin \in Nat /\ end \in Nat /\ end = begin + sections[i].length /\ end <= Len(bytes)
    /\ \A j \in 1..sections[i].length : bytes[begin + j] = [section |-> i, at |-> j]

\* A header that can be read says where the sections are.
Image ==
    /\ bytes \in Seq(Byte \cup {"header"})
    /\ DOMAIN header.sections = 1..Len(sections) /\ Len(header.sections) = Len(sections)
    /\ \A i \in 1..Len(sections) :
         /\ header.sections[i].key = sections[i].key
         /\ Holds(i, header.sections[i].begin, header.sections[i].end)

ImageInv ==
    /\ sections \in Seq(Section) /\ alignment \in Alignments
    /\ bytes = <<>> => ~header.ok /\ loader = "none"
    /\ header.ok => Image

\* So does the loader, for the last section of each key.
LoaderInv ==
    /\ FileLoaded => header.ok
    /\ ~FileLoaded => DOMAIN locations = {}
    /\ \A k \in DOMAIN locations :
         /\ LastOf(sections, k) \in 1..Len(sections)
         /\ Holds(LastOf(sections, k), locations[k].begin, locations[k].end)

\* A buffer shows the section of its key, at ls, in a mapping of that key.
ShowsIn(ls, ms, rs, k, b) ==
    /\ b.size = ls[k].end - ls[k].begin
    /\ \/ b.map = 0 /\ b.at = ls[k].begin
       \/ /\ b.map \in 1..Len(rs) /\ k \in DOMAIN ms /\ ms[k] = b.map
          /\ b.at \in Nat
          /\ rs[b.map].begin + b.at = ls[k].begin
          /\ b.at + b.size <= rs[b.map].end - rs[b.map].begin

BufferInv ==
    /\ regions \in Seq([begin : Int, end : Int])
    /\ DOMAIN maps \subseteq DOMAIN buffers /\ DOMAIN buffers \subseteq DOMAIN locations
    /\ \A k \in DOMAIN buffers : ShowsIn(locations, maps, regions, k, buffers[k])
    /\ \A h \in handed : h.key \in DOMAIN buffers /\ h.buffer = buffers[h.key]

FileInv == ImageInv /\ LoaderInv /\ BufferInv

LEMMA FileInvInit == ASSUME Sizes PROVE FileInit => FileInv
<1>. SUFFICES ASSUME FileInit PROVE FileInv
  OBVIOUS
<1>1. /\ sections = <<>> /\ alignment \in Alignments /\ header.ok = FALSE /\ loader = "none"
      /\ regions = <<>> /\ handed = {}
  BY DEF FileInit
<1>2. DOMAIN locations = {} /\ DOMAIN maps = {} /\ DOMAIN buffers = {}
  BY DEF FileInit, NoFunction
<1>3. ImageInv
  BY <1>1 DEF ImageInv
<1>4. LoaderInv
  BY <1>1, <1>2 DEF LoaderInv, FileLoaded
<1>5. BufferInv
  BY <1>1, <1>2 DEF BufferInv
<1>. QED  BY <1>3, <1>4, <1>5 DEF FileInv

\* The builder adds sections while there is no file.
LEMMA BuildingKeeps ==
    ASSUME FileInv, Building, sections' \in Seq(Section)
    PROVE  FileInv'
<1>1. /\ bytes = <<>> /\ bytes' = bytes /\ header' = header /\ loader' = loader
      /\ alignment' = alignment /\ locations' = locations /\ maps' = maps /\ regions' = regions
      /\ buffers' = buffers /\ handed' = handed
  BY DEF Building
<1>2. ~header.ok /\ loader = "none" /\ alignment \in Alignments
  BY <1>1 DEF FileInv, ImageInv
<1>3. DOMAIN locations = {}
  BY <1>2 DEF FileInv, LoaderInv, FileLoaded
<1>4. ImageInv'
  BY <1>1, <1>2 DEF ImageInv
<1>5. LoaderInv'
  BY <1>1, <1>2, <1>3 DEF LoaderInv, FileLoaded
<1>6. BufferInv'
  BY <1>1, <1>3 DEF FileInv, BufferInv
<1>. QED  BY <1>4, <1>5, <1>6 DEF FileInv

LEMMA AddSectionKeeps ==
    ASSUME Sizes, FileInv, NEW key \in Key, NEW length \in Length, NEW found \in BOOLEAN,
           AddSection(key, length, found)
    PROVE  FileInv'
<1>1. sections \in Seq(Section)
  BY DEF FileInv, ImageInv
<1>2. [key |-> key, length |-> length] \in Section
  BY DEF Sizes, Section
<1>3. sections' \in Seq(Section)
  BY <1>1, <1>2 DEF AddSection
<1>4. Building
  BY DEF AddSection
<1>. QED  BY <1>3, <1>4, BuildingKeeps

\* What is built holds every section where its header says.
LEMMA BuildKeeps ==
    ASSUME Sizes, FileInv, Build
    PROVE  FileInv'
<1>1. PICK all, fits, size :
        /\ all = Written[Len(sections)] /\ fits = (Len(sections) <= HeaderRoom)
        /\ size = IF ~system THEN 0 ELSE IF fits THEN BlockSize ELSE BlockSize + 1
  OBVIOUS
<1>2. PICK m : m = IF Len(all) < size THEN size ELSE Len(all)
  OBVIOUS
<1>3. /\ bytes = <<>>
      /\ bytes' = [p \in 1..m |-> IF p <= size THEN "header" ELSE all[p]]
      /\ header' = [ok |-> system /\ fits,
                    sections |-> [i \in DOMAIN sections |->
                       [key |-> sections[i].key, begin |-> Begin(i),
                        end |-> Begin(i) + sections[i].length]]]
      /\ sections' = sections /\ loader' = loader /\ alignment' = alignment
      /\ locations' = locations /\ maps' = maps /\ regions' = regions /\ buffers' = buffers
      /\ handed' = handed
  BY <1>1, <1>2 DEF Build
<1>4. /\ sections \in Seq(Section) /\ alignment \in Alignments /\ ~header.ok /\ loader = "none"
  BY <1>3 DEF FileInv, ImageInv
<1>5. DOMAIN locations = {}
  BY <1>4 DEF FileInv, LoaderInv, FileLoaded
<1>6. all \in Seq(Byte) /\ Len(all) \in Nat
  BY <1>1, <1>4, WrittenIs DEF IsWriting
<1>7. ASSUME header'.ok
      PROVE  bytes' # <<>> /\ Image'
  <2>1. size = BlockSize /\ size \in Nat \ {0} /\ m \in Nat /\ m >= Len(all) /\ m >= 1
    <3>1. header'.ok = (system /\ fits)
      BY <1>3
    <3>2. size = BlockSize
      BY <1>1, <1>7, <3>1
    <3>. QED  BY <1>2, <1>6, <3>2 DEF Sizes
  <2>2. \A p \in 1..m : ~(p <= size) => p \in 1..Len(all)
    BY <1>2, <1>6, <2>1
  <2>3. \A p \in 1..m : ~(p <= size) => all[p] \in Byte
    BY <1>6, <2>2
  <2>4. bytes' \in [1..m -> Byte \cup {"header"}]
    BY <1>3, <2>3
  <2>5. bytes' \in Seq(Byte \cup {"header"}) /\ Len(bytes') = m
    BY <2>1, <2>4
  <2>6. bytes' # <<>>
    BY <2>1, <2>5
  <2>7. PICK hs : hs = [i \in 1..Len(sections) |-> [key |-> sections[i].key, begin |-> Begin(i),
                                                     end |-> Begin(i) + sections[i].length]]
    OBVIOUS
  <2>8. header'.sections = hs
    BY <1>3, <1>4, <2>7
  <2>9. DOMAIN hs = 1..Len(sections) /\ Len(hs) = Len(sections)
    <3>1. PICK n \in Nat : n = Len(sections)
      BY <1>4
    <3>2. PICK S : S = {hs[i] : i \in 1..n}
      OBVIOUS
    <3>3. hs \in [1..n -> S]
      BY <2>7, <3>1, <3>2
    <3>4. Len(hs) = n
      BY <3>1, <3>3
    <3>. QED  BY <2>7, <3>1, <3>4
  <2>10. ASSUME NEW i \in 1..Len(sections)
         PROVE  hs[i].key = sections[i].key /\ Holds(i, hs[i].begin, hs[i].end)'
    <3>1. PICK b, n : b = Begin(i) /\ n = sections[i].length
      OBVIOUS
    <3>2. hs[i].key = sections[i].key /\ hs[i].begin = b /\ hs[i].end = b + n
      BY <2>7, <3>1
    <3>3. /\ b \in Nat /\ BlockSize <= b /\ b + n <= Len(all) /\ n \in Nat
          /\ \A j \in 1..n : all[b + j] = [section |-> i, at |-> j]
      <4>1. n \in Nat
        BY <1>4, <3>1, LengthIs
      <4>. QED  BY <1>1, <1>4, <3>1, <4>1, SectionIsWritten
    <3>4. b + n <= Len(bytes')
      BY <1>6, <2>1, <2>5, <3>3
    <3>5. ASSUME NEW j \in 1..n PROVE bytes'[b + j] = [section |-> i, at |-> j]
      <4>1. b + j \in 1..m /\ ~(b + j <= size)
        BY <1>6, <2>1, <3>3
      <4>. QED  BY <1>3, <3>3, <4>1
    <3>6. sections'[i].length = n
      BY <1>3, <3>1
    <3>7. b + n \in Nat
      BY <3>3
    <3>. QED  BY <3>2, <3>3, <3>4, <3>5, <3>6, <3>7 DEF Holds
  <2>11. Image'
    BY <1>3, <2>5, <2>8, <2>9, <2>10 DEF Image
  <2>. QED  BY <2>6, <2>11
<1>8. ImageInv'
  BY <1>3, <1>4, <1>7 DEF ImageInv
<1>9. LoaderInv'
  BY <1>3, <1>4, <1>5 DEF LoaderInv, FileLoaded
<1>10. BufferInv'
  BY <1>3, <1>5 DEF FileInv, BufferInv
<1>. QED  BY <1>8, <1>9, <1>10 DEF FileInv

LEMMA ImageStays ==
    ASSUME ImageInv, bytes # <<>> \/ loader' = "none",
           UNCHANGED <<sections, alignment, bytes, header>>
    PROVE  ImageInv'
<1>1. Image => Image'
  BY DEF Image, Holds
<1>. QED  BY <1>1 DEF ImageInv

LEMMA InitializeKeeps ==
    ASSUME FileInv, NEW source \in {"mapped", "file"}, Initialize(source)
    PROVE  FileInv'
<1>1. PICK hs : hs = header.sections
  OBVIOUS
<1>2. /\ bytes # <<>> /\ loader = "none"
      /\ loader' = IF header.ok THEN source ELSE "failed"
      /\ locations' = IF ~header.ok THEN NoFunction
                      ELSE [k \in {hs[i].key : i \in DOMAIN hs} |->
                              [begin |-> hs[LastOf(hs, k)].begin, end |-> hs[LastOf(hs, k)].end]]
      /\ UNCHANGED <<sections, bytes, header, alignment, maps, regions, buffers, handed>>
  BY <1>1 DEF Initialize, HeaderRead
<1>3. DOMAIN locations = {}
  BY <1>2 DEF FileInv, LoaderInv, FileLoaded
<1>4. ImageInv'
  <2>1. ImageInv
    BY DEF FileInv
  <2>. QED  BY <1>2, <2>1, ImageStays
<1>5. ASSUME header.ok, NEW k \in DOMAIN locations'
      PROVE  /\ LastOf(sections, k) \in 1..Len(sections)
             /\ Holds(LastOf(sections, k), locations'[k].begin, locations'[k].end)
  <2>1. PICK n \in Nat : n = Len(sections)
    BY DEF FileInv, ImageInv
  <2>2. /\ DOMAIN hs = 1..n /\ Len(hs) = n
        /\ \A i \in 1..n : hs[i].key = sections[i].key /\ Holds(i, hs[i].begin, hs[i].end)
    BY <1>1, <1>5, <2>1 DEF FileInv, ImageInv, Image
  <2>3. DOMAIN sections = 1..n
    BY <2>1 DEF FileInv, ImageInv
  <2>4. /\ \E i \in 1..n : hs[i].key = k
        /\ locations'[k] = [begin |-> hs[LastOf(hs, k)].begin, end |-> hs[LastOf(hs, k)].end]
    BY <1>2, <1>5, <2>2
  <2>5. PICK ss : ss = sections
    OBVIOUS
  <2>6. LastOf(hs, k) = LastOf(ss, k) /\ LastOf(ss, k) \in 1..n
    <3>1. /\ DOMAIN hs = 1..n /\ Len(hs) = n /\ DOMAIN ss = 1..n /\ Len(ss) = n
          /\ \A i \in 1..n : hs[i].key = ss[i].key
          /\ \E i \in 1..n : hs[i].key = k
      BY <2>1, <2>2, <2>3, <2>4, <2>5
    <3>. QED  BY ONLY <2>1, <3>1, LastSame
  <2>. QED  BY <2>1, <2>2, <2>4, <2>5, <2>6
<1>6. LoaderInv'
  <2>1. ~header.ok => DOMAIN locations' = {}
    BY <1>2 DEF NoFunction
  <2>2. loader' \in {"mapped", "file"} <=> header.ok
    BY <1>2
  <2>. QED  BY <1>2, <1>5, <2>1, <2>2 DEF LoaderInv, FileLoaded, Holds
<1>7. BufferInv'
  BY <1>2, <1>3 DEF FileInv, BufferInv
<1>. QED  BY <1>4, <1>6, <1>7 DEF FileInv

\* The loader leaves the file alone.
LEMMA LoaderStays ==
    ASSUME FileInv, UNCHANGED <<sections, bytes, header, loader, alignment, locations>>
    PROVE  ImageInv' /\ LoaderInv'
<1>1. ImageInv' 
  <2>1. ImageInv /\ (bytes # <<>> \/ loader' = "none")
    BY DEF FileInv, ImageInv
  <2>. QED  BY <2>1, ImageStays
<1>2. LoaderInv'
  BY DEF FileInv, LoaderInv, FileLoaded, Holds
<1>. QED  BY <1>1, <1>2

LEMMA FindBufferKeeps ==
    ASSUME FileInv, NEW r \in Reader, NEW k \in Key, FindBuffer(r, k)
    PROVE  FileInv'
<1>1. /\ UNCHANGED <<sections, bytes, header, loader, alignment, locations, maps, regions, buffers>>
      /\ \/ k \in DOMAIN buffers /\ handed' = handed \cup {[key |-> k, buffer |-> buffers[k]]}
         \/ handed' = handed
  BY DEF FindBuffer
<1>2. ASSUME NEW h \in handed' PROVE h.key \in DOMAIN buffers /\ h.buffer = buffers[h.key]
  BY <1>1 DEF FileInv, BufferInv
<1>3. BufferInv'
  BY <1>1, <1>2 DEF FileInv, BufferInv
<1>. QED  BY <1>1, <1>3, LoaderStays DEF FileInv

IsWith(g, f, k, v) ==
    /\ DOMAIN g = DOMAIN f \cup {k} /\ g[k] = v
    /\ \A x \in DOMAIN f : x # k => g[x] = f[x]

LEMMA WithIs ==
    ASSUME NEW f, NEW k, NEW v, NEW g, g = With(f, k, v)
    PROVE  IsWith(g, f, k, v)
  BY DEF With, IsWith

\* A section that is mapped is shown, and the other buffers stay.
LEMMA MapSectionShows ==
    ASSUME Sizes, FileInv, NEW k \in DOMAIN locations, k \notin DOMAIN buffers,
           MapSection(k, locations[k])
    PROVE  /\ regions' \in Seq([begin : Int, end : Int])
           /\ DOMAIN maps' \subseteq DOMAIN buffers' /\ DOMAIN buffers' \subseteq DOMAIN locations
           /\ DOMAIN buffers \subseteq DOMAIN buffers'
           /\ \A x \in DOMAIN buffers : buffers'[x] = buffers[x]
           /\ \A x \in DOMAIN buffers' : ShowsIn(locations, maps', regions', x, buffers'[x])
<1>1. PICK b, e, a, gap, rs, size, len :
        /\ b = locations[k].begin /\ e = locations[k].end /\ a = alignment /\ gap = b % a
        /\ rs = regions /\ size = e - b /\ len = Len(bytes)
  OBVIOUS
<1>2. b \in Nat /\ e \in Nat /\ b <= e /\ e <= len /\ len \in Nat
  <2>1. PICK i : i = LastOf(sections, k) /\ i \in 1..Len(sections) /\ Holds(i, b, e)
    BY <1>1 DEF FileInv, LoaderInv
  <2>2. sections[i].length \in Nat
    <3>1. sections \in Seq(Section)
      BY DEF FileInv, ImageInv
    <3>. QED  BY <2>1, <3>1, LengthIs
  <2>3. header.ok
    BY DEF FileInv, LoaderInv
  <2>4. bytes \in Seq(Byte \cup {"header"})
    BY <2>3 DEF FileInv, ImageInv, Image
  <2>5. Len(bytes) \in Nat
    BY <2>4
  <2>. QED  BY <1>1, <2>1, <2>2, <2>5 DEF Holds
<1>3. a \in Nat \ {0} /\ gap \in Nat /\ size \in Nat
  <2>1. a \in Nat \ {0}
    BY <1>1 DEF FileInv, ImageInv, Sizes
  <2>2. gap \in 0..(a - 1)
    BY <1>1, <1>2, <2>1
  <2>. QED  BY <1>1, <1>2, <2>1, <2>2
<1>4. PICK region : region = Region(b - gap, size + gap)
  OBVIOUS
<1>5. /\ region \in [begin : Int, end : Int] /\ region.begin = b - gap
      /\ gap + size <= region.end - region.begin
  <2>1. PICK n : n = IF size + gap = 0 THEN len - (b - gap) ELSE size + gap
    OBVIOUS
  <2>2. region = [begin |-> b - gap, end |-> (b - gap) + n]
    BY <1>1, <1>4, <2>1 DEF Region
  <2>3. n \in Int /\ gap + size <= n
    BY <1>2, <1>3, <2>1
  <2>4. b - gap \in Int /\ (b - gap) + n \in Int
    BY <1>2, <1>3, <2>3
  <2>. QED  BY <2>2, <2>3, <2>4
<1>6. PICK o : o = Len(regions')
  OBVIOUS
<1>7. \/ /\ buffers' = With(buffers, k, [map |-> 0, at |-> b, size |-> size])
         /\ UNCHANGED <<maps, regions>>
      \/ /\ regions' = Append(rs, region) /\ maps' = With(maps, k, o)
         /\ buffers' = With(buffers, k, [map |-> o, at |-> gap, size |-> size])
      \/ UNCHANGED <<buffers, maps, regions>>
  <2>1. e - b + gap = size + gap
    BY <1>1
  <2>. QED  BY <1>1, <1>4, <1>6, <2>1 DEF MapSection
<1>8. /\ rs \in Seq([begin : Int, end : Int]) /\ DOMAIN maps \subseteq DOMAIN buffers
      /\ DOMAIN buffers \subseteq DOMAIN locations
      /\ \A x \in DOMAIN buffers : ShowsIn(locations, maps, regions, x, buffers[x])
  BY <1>1 DEF FileInv, BufferInv
<1>9. CASE UNCHANGED <<maps, regions>> /\ buffers' = With(buffers, k, [map |-> 0, at |-> b, size |-> size])
  <2>1. PICK v : v = [map |-> 0, at |-> b, size |-> size]
    OBVIOUS
  <2>2. /\ DOMAIN buffers' = DOMAIN buffers \cup {k} /\ buffers'[k] = v
        /\ \A x \in DOMAIN buffers : x # k => buffers'[x] = buffers[x]
    <3>1. PICK g : g = buffers'
      OBVIOUS
    <3>2. g = With(buffers, k, v)
      BY <1>9, <2>1, <3>1
    <3>3. IsWith(g, buffers, k, v)
      BY <3>2, WithIs
    <3>. QED  BY <3>1, <3>3 DEF IsWith
  <2>3. \A x \in DOMAIN buffers : buffers'[x] = buffers[x]
    BY <2>2
  <2>4. ShowsIn(locations, maps', regions', k, buffers'[k])
    BY <1>1, <2>1, <2>2 DEF ShowsIn
  <2>5. ASSUME NEW x \in DOMAIN buffers PROVE ShowsIn(locations, maps', regions', x, buffers'[x])
    <3>1. ShowsIn(locations, maps, regions, x, buffers[x]) /\ buffers'[x] = buffers[x]
      BY <1>8, <2>3
    <3>. QED  BY <1>9, <3>1 DEF ShowsIn
  <2>. QED  BY <1>1, <1>8, <1>9, <2>2, <2>3, <2>4, <2>5
<1>10. CASE /\ regions' = Append(rs, region) /\ maps' = With(maps, k, o)
            /\ buffers' = With(buffers, k, [map |-> o, at |-> gap, size |-> size])
  <2>1. PICK v : v = [map |-> o, at |-> gap, size |-> size]
    OBVIOUS
  <2>2. /\ DOMAIN buffers' = DOMAIN buffers \cup {k} /\ buffers'[k] = v
        /\ \A x \in DOMAIN buffers : x # k => buffers'[x] = buffers[x]
    <3>1. PICK g : g = buffers'
      OBVIOUS
    <3>2. g = With(buffers, k, v)
      BY <1>10, <2>1, <3>1
    <3>3. IsWith(g, buffers, k, v)
      BY <3>2, WithIs
    <3>. QED  BY <3>1, <3>3 DEF IsWith
  <2>3. /\ DOMAIN maps' = DOMAIN maps \cup {k} /\ maps'[k] = o
        /\ \A x \in DOMAIN maps : x # k => maps'[x] = maps[x]
    <3>1. PICK g : g = maps'
      OBVIOUS
    <3>2. g = With(maps, k, o)
      BY <1>10, <3>1
    <3>3. IsWith(g, maps, k, o)
      BY <3>2, WithIs
    <3>. QED  BY <3>1, <3>3 DEF IsWith
  <2>4. \A x \in DOMAIN buffers : x # k /\ buffers'[x] = buffers[x]
    BY <2>2
  <2>5. /\ regions' \in Seq([begin : Int, end : Int]) /\ o = Len(rs) + 1 /\ o \in 1..o
        /\ \A i \in 1..Len(rs) : i \in 1..o /\ regions'[i] = rs[i]
        /\ regions'[o] = region
    <3>1. PICK R : R = [begin : Int, end : Int]
      OBVIOUS
    <3>2. rs \in Seq(R) /\ region \in R
      BY <1>5, <1>8, <3>1
    <3>. QED  BY <1>6, <1>10, <3>1, <3>2
  <2>6. ShowsIn(locations, maps', regions', k, buffers'[k])
    <3>1. v.size = size /\ v.map = o /\ v.at = gap
      BY <2>1
    <3>2. region.begin + gap = b
      BY <1>2, <1>3, <1>5
    <3>. QED  BY <1>1, <1>3, <1>5, <1>6, <2>2, <2>3, <2>5, <3>1, <3>2 DEF ShowsIn
  <2>7. ASSUME NEW x \in DOMAIN buffers PROVE ShowsIn(locations, maps', regions', x, buffers'[x])
    <3>1. ShowsIn(locations, maps, regions, x, buffers[x]) /\ buffers'[x] = buffers[x] /\ x # k
      BY <1>8, <2>4
    <3>2. PICK c : c = buffers[x]
      OBVIOUS
    <3>3. /\ c.size = locations[x].end - locations[x].begin
          /\ \/ c.map = 0 /\ c.at = locations[x].begin
             \/ /\ c.map \in 1..Len(rs) /\ x \in DOMAIN maps /\ maps[x] = c.map
                /\ c.at \in Nat
                /\ rs[c.map].begin + c.at = locations[x].begin
                /\ c.at + c.size <= rs[c.map].end - rs[c.map].begin
      BY <1>1, <3>1, <3>2 DEF ShowsIn
    <3>4. x \in DOMAIN maps => x \in DOMAIN maps' /\ maps'[x] = maps[x]
      BY <2>3, <3>1
    <3>5. c.map \in 1..Len(rs) => c.map \in 1..Len(regions') /\ regions'[c.map] = rs[c.map]
      BY <1>6, <2>5
    <3>6. ShowsIn(locations, maps', regions', x, c)
      BY <3>3, <3>4, <3>5 DEF ShowsIn
    <3>. QED  BY <3>1, <3>2, <3>6
  <2>. QED  BY <1>8, <2>2, <2>3, <2>4, <2>5, <2>6, <2>7
<1>11. CASE UNCHANGED <<buffers, maps, regions>>
  BY <1>1, <1>8, <1>11 DEF ShowsIn
<1>. QED  BY <1>7, <1>9, <1>10, <1>11

LEMMA MapBufferKeeps ==
    ASSUME Sizes, FileInv, NEW r \in Reader, MapBuffer(r)
    PROVE  FileInv'
<1>1. PICK k : k = wants[r][1]
  OBVIOUS
<1>2. /\ UNCHANGED <<sections, bytes, header, loader, alignment, locations>>
      /\ \/ k \notin DOMAIN buffers /\ k \in DOMAIN locations /\ MapSection(k, locations[k])
         \/ UNCHANGED <<maps, regions, buffers>>
      /\ \/ k \in DOMAIN buffers' /\ handed' = handed \cup {[key |-> k, buffer |-> buffers'[k]]}
         \/ handed' = handed
  BY <1>1 DEF MapBuffer, StillMissing
<1>3. /\ regions' \in Seq([begin : Int, end : Int])
      /\ DOMAIN maps' \subseteq DOMAIN buffers' /\ DOMAIN buffers' \subseteq DOMAIN locations
      /\ DOMAIN buffers \subseteq DOMAIN buffers'
      /\ \A x \in DOMAIN buffers : buffers'[x] = buffers[x]
      /\ \A x \in DOMAIN buffers' : ShowsIn(locations, maps', regions', x, buffers'[x])
  <2>1. CASE k \notin DOMAIN buffers /\ k \in DOMAIN locations /\ MapSection(k, locations[k])
    BY <1>2, <2>1, MapSectionShows
  <2>2. CASE UNCHANGED <<maps, regions, buffers>>
    BY <1>2, <2>2 DEF FileInv, BufferInv
  <2>. QED  BY <1>2, <2>1, <2>2
<1>4. ASSUME NEW h \in handed' PROVE h.key \in DOMAIN buffers' /\ h.buffer = buffers'[h.key]
  <2>1. CASE h \in handed
    <3>1. h.key \in DOMAIN buffers /\ h.buffer = buffers[h.key]
      BY <2>1 DEF FileInv, BufferInv
    <3>. QED  BY <1>3, <3>1
  <2>2. CASE h \notin handed
    <3>1. k \in DOMAIN buffers' /\ h = [key |-> k, buffer |-> buffers'[k]]
      BY <1>2, <1>4, <2>2
    <3>. QED  BY <3>1
  <2>. QED  BY <2>1, <2>2
<1>5. BufferInv'
  BY <1>2, <1>3, <1>4 DEF BufferInv
<1>. QED  BY <1>2, <1>5, LoaderStays DEF FileInv

LEMMA FileInvNext ==
    ASSUME Sizes, FileInv, FileNext
    PROVE  FileInv'
<1>1. CASE AddSystemMetadata
  <2>1. Building /\ sections' = sections
    BY <1>1 DEF AddSystemMetadata
  <2>2. sections' \in Seq(Section)
    BY <2>1 DEF FileInv, ImageInv
  <2>. QED  BY <2>1, <2>2, BuildingKeeps
<1>2. ASSUME NEW k \in Key, NEW n \in Length, NEW found \in BOOLEAN, AddSection(k, n, found)
      PROVE  FileInv'
  BY <1>2, AddSectionKeeps
<1>3. CASE Build
  BY <1>3, BuildKeeps
<1>4. ASSUME NEW source \in {"mapped", "file"}, Initialize(source) PROVE FileInv'
  BY <1>4, InitializeKeeps
<1>5. ASSUME NEW r \in Reader, NEW k \in Key, FindBuffer(r, k) PROVE FileInv'
  BY <1>5, FindBufferKeeps
<1>6. ASSUME NEW r \in Reader, MapBuffer(r) PROVE FileInv'
  BY <1>6, MapBufferKeeps
<1>. QED  BY <1>1, <1>2, <1>3, <1>4, <1>5, <1>6 DEF FileNext

\* What the buffer of a section shows is its content.
LEMMA ShownIsContent ==
    ASSUME NEW i \in Nat, NEW n \in Nat, sections[i].length = n, NEW b \in Nat, NEW f, f = bytes,
           f \in Seq(Byte \cup {"header"}), b + n <= Len(f),
           \A j \in 1..n : f[b + j] = [section |-> i, at |-> j]
    PROVE  SubSeq(f, b + 1, b + n) = Content(i)
<1>1. PICK B : B = Byte \cup {"header"}
  OBVIOUS
<1>2. PICK x, y \in Int : x = b + 1 /\ y = b + n
  OBVIOUS
<1>3. PICK t : t = SubSeq(f, x, y)
  OBVIOUS
<1>4. f \in Seq(B) /\ \A p \in x..y : p \in 1..Len(f)
  BY <1>1, <1>2
<1>5. \A p \in x..y : f[p] \in B
  BY <1>4
<1>6. /\ t \in Seq(B) /\ Len(t) = (IF x <= y THEN y - x + 1 ELSE 0)
      /\ \A j \in 1..(y - x + 1) : t[j] = f[x + j - 1]
  BY <1>3, <1>4, <1>5, SubSeqProperties
<1>7. Len(t) = n /\ \A j \in 1..n : t[j] = [section |-> i, at |-> j]
  <2>1. (IF x <= y THEN y - x + 1 ELSE 0) = n /\ y - x + 1 = n
    BY <1>2
  <2>2. \A j \in 1..n : x + j - 1 = b + j
    BY <1>2
  <2>. QED  BY <1>6, <2>1, <2>2
<1>8. t = [j \in 1..n |-> [section |-> i, at |-> j]]
  <2>1. t = [j \in 1..Len(t) |-> t[j]]
    BY <1>6
  <2>. QED  BY <1>7, <2>1
<1>. QED  BY <1>2, <1>3, <1>8 DEF Content

LEMMA FileInvRead == ASSUME Sizes PROVE FileInv => SectionsRead
<1>. SUFFICES ASSUME FileInv, NEW h \in handed
              PROVE  /\ h.buffer.map # 0 => \E k \in DOMAIN maps : maps[k] = h.buffer.map
                     /\ h.buffer.map # 0 =>
                          h.buffer.at + h.buffer.size <= regions[h.buffer.map].end - regions[h.buffer.map].begin
                     /\ Read(h.buffer) = Content(LastOf(sections, h.key))
  BY DEF SectionsRead
<1>1. PICK k, c, i, b, e, f : /\ k = h.key /\ c = h.buffer /\ i = LastOf(sections, k)
                              /\ b = locations[k].begin /\ e = locations[k].end /\ f = bytes
  OBVIOUS
<1>2. k \in DOMAIN locations /\ ShowsIn(locations, maps, regions, k, c)
  BY <1>1 DEF FileInv, BufferInv
<1>3. i \in 1..Len(sections) /\ Holds(i, b, e)
  BY <1>1, <1>2 DEF FileInv, LoaderInv
<1>4. /\ c.size = e - b
      /\ \/ c.map = 0 /\ c.at = b
         \/ /\ c.map \in 1..Len(regions) /\ k \in DOMAIN maps /\ maps[k] = c.map
            /\ regions[c.map].begin + c.at = b
            /\ c.at + c.size <= regions[c.map].end - regions[c.map].begin
  BY <1>1, <1>2 DEF ShowsIn
<1>5. PICK n \in Nat : n = sections[i].length
  <2>1. sections \in Seq(Section)
    BY DEF FileInv, ImageInv
  <2>. QED  BY <1>3, <2>1, LengthIs
<1>6. /\ b \in Nat /\ e = b + n /\ b + n <= Len(f)
      /\ \A j \in 1..n : f[b + j] = [section |-> i, at |-> j]
  BY <1>1, <1>3, <1>5 DEF Holds
<1>7. f \in Seq(Byte \cup {"header"})
  <2>1. header.ok
    BY <1>2 DEF FileInv, LoaderInv
  <2>. QED  BY <1>1, <2>1 DEF FileInv, ImageInv, Image
<1>8. Read(c) = SubSeq(f, b + 1, b + n)
  <2>1. c.size = n
    BY <1>4, <1>5, <1>6
  <2>2. c.map # 0 => c.map \in 1..Len(regions) /\ regions[c.map].begin + c.at = b
    BY <1>4
  <2>3. c.map = 0 => c.at = b
    BY <1>4
  <2>. QED  BY <1>1, <2>1, <2>2, <2>3 DEF Read
<1>9. Read(c) = Content(i)
  <2>1. i \in Nat
    BY <1>3
  <2>2. SubSeq(f, b + 1, b + n) = Content(i)
    <3>1. /\ sections[i].length = n /\ f = bytes /\ b \in Nat /\ b + n <= Len(f)
          /\ \A j \in 1..n : f[b + j] = [section |-> i, at |-> j]
      BY <1>1, <1>5, <1>6
    <3>. QED  BY ONLY n \in Nat, <1>7, <2>1, <3>1, ShownIsContent
  <2>. QED  BY <1>8, <2>2
<1>. QED  BY <1>1, <1>4, <1>9

\* Whatever sections are added, of whatever lengths, and however a mapping must be
\* aligned: a buffer that a thread is given stays mapped and shows the bytes the
\* builder wrote for the last section added under its key.
\* (litertlm_builder.py, litert_lm_loader.cc)
THEOREM SectionsAreRead ==
    ASSUME Sizes
    PROVE  FileSpec => []SectionsRead
<1>1. ASSUME FileInv,
             [FileNext]_<<sections, onceAdded, system, bytes, header, loader, alignment,
                          locations, maps, regions, buffers, wants, handed>>
      PROVE  FileInv'
  <2>1. CASE FileNext
    BY <1>1, <2>1, FileInvNext
  <2>2. CASE UNCHANGED <<sections, onceAdded, system, bytes, header, loader, alignment,
                          locations, maps, regions, buffers, wants, handed>>
    BY <1>1, <2>2, LoaderStays DEF FileInv, BufferInv
  <2>. QED  BY <1>1, <2>1, <2>2
<1>. QED  BY <1>1, FileInvInit, FileInvRead, PTL DEF FileSpec


(***************************************************************************)
(* The text before a stop sequence.                                         *)
(***************************************************************************)
StopToken == Plain \cup {Lead, Trail}
StopSequence == Seq(Plain) \ {<<>>}

\* Stop sequences are made of whole characters.
WholeStops ==
    /\ StopChoice \subseteq StopSequence /\ MaxStream \in Seq(Nat)
    /\ Lead \notin Plain /\ Trail \notin Plain /\ Lead # Trail

\* The last p of the first n tokens of s are the first p of e.
Ended(s, n, e, p) == p \in 0..n /\ p <= Len(e) /\ \A j \in 1..p : s[n - p + j] = e[j]

\* The tokens u are s and one more.
OneMore(u, s, n, t) ==
    /\ u \in Seq(StopToken) /\ s \in Seq(StopToken) /\ n \in Nat /\ Len(s) = n /\ Len(u) = n + 1
    /\ t \in StopToken /\ u[n + 1] = t /\ \A i \in 1..n : u[i] = s[i]

LEMMA OneMoreIs ==
    ASSUME NEW s \in Seq(StopToken), NEW t \in StopToken, NEW u, u = Append(s, t), NEW n, n = Len(s)
    PROVE  OneMore(u, s, n, t)
<1>1. PICK T : T = StopToken
  OBVIOUS
<1>2. s \in Seq(T) /\ t \in T
  BY <1>1
<1>3. /\ u \in Seq(T) /\ n \in Nat /\ Len(u) = n + 1 /\ u[n + 1] = t
      /\ \A i \in 1..n : u[i] = s[i]
  BY <1>2
<1>. QED  BY <1>1, <1>2, <1>3 DEF OneMore

EndsOn(u, s, n, e, q, t) == Ended(u, n + 1, e, q + 1) <=> (Ended(s, n, e, q) /\ e[q + 1] = t)

LEMMA EndedNext ==
    ASSUME NEW u, NEW s, NEW n, NEW t, OneMore(u, s, n, t), NEW e, NEW l \in Nat, l = Len(e),
           NEW q \in Nat, q + 1 <= l
    PROVE  EndsOn(u, s, n, e, q, t)
<1>1. n \in Nat /\ u[n + 1] = t /\ \A i \in 1..n : u[i] = s[i]
  BY DEF OneMore
<1>2. ASSUME Ended(u, n + 1, e, q + 1) PROVE Ended(s, n, e, q) /\ e[q + 1] = t
  <2>1. q + 1 \in 0..(n + 1) /\ \A j \in 1..(q + 1) : u[(n + 1) - (q + 1) + j] = e[j]
    BY <1>2 DEF Ended
  <2>2. q \in 0..n /\ q <= Len(e)
    BY <1>1, <2>1
  <2>3. ASSUME NEW j \in 1..q PROVE s[n - q + j] = e[j]
    <3>1. j \in 1..(q + 1) /\ (n + 1) - (q + 1) + j = n - q + j /\ n - q + j \in 1..n
      BY <1>1, <2>2
    <3>. QED  BY <1>1, <2>1, <3>1
  <2>4. e[q + 1] = t
    <3>1. q + 1 \in 1..(q + 1) /\ (n + 1) - (q + 1) + (q + 1) = n + 1
      BY <1>1
    <3>. QED  BY <1>1, <2>1, <3>1
  <2>. QED  BY <2>2, <2>3, <2>4 DEF Ended
<1>3. ASSUME Ended(s, n, e, q), e[q + 1] = t PROVE Ended(u, n + 1, e, q + 1)
  <2>1. q \in 0..n /\ \A j \in 1..q : s[n - q + j] = e[j]
    BY <1>3 DEF Ended
  <2>2. q + 1 \in 0..(n + 1) /\ q + 1 <= Len(e)
    BY <1>1, <2>1
  <2>3. ASSUME NEW j \in 1..(q + 1) PROVE u[(n + 1) - (q + 1) + j] = e[j]
    <3>1. CASE j = q + 1
      <4>1. (n + 1) - (q + 1) + j = n + 1
        BY <1>1, <3>1
      <4>. QED  BY <1>1, <1>3, <3>1, <4>1
    <3>2. CASE j # q + 1
      <4>1. j \in 1..q /\ (n + 1) - (q + 1) + j = n - q + j /\ n - q + j \in 1..n
        BY <1>1, <2>1, <3>2
      <4>. QED  BY <1>1, <2>1, <4>1
    <3>. QED  BY <3>1, <3>2
  <2>. QED  BY <2>2, <2>3 DEF Ended
<1>. QED  BY <1>2, <1>3 DEF EndsOn

LEMMA EndedOld ==
    ASSUME NEW u, NEW s, NEW n, NEW t, OneMore(u, s, n, t), NEW e, NEW m \in 0..n, NEW p
    PROVE  Ended(u, m, e, p) <=> Ended(s, m, e, p)
<1>1. n \in Nat /\ \A i \in 1..n : u[i] = s[i]
  BY DEF OneMore
<1>2. ASSUME p \in 0..m, NEW j \in 1..p PROVE u[m - p + j] = s[m - p + j]
  <2>1. m - p + j \in 1..n
    BY <1>1, <1>2
  <2>. QED  BY <1>1, <2>1
<1>. QED  BY <1>2 DEF Ended

LEMMA EndedNone ==
    ASSUME NEW s, NEW n \in Nat, NEW e, NEW l \in Nat, l = Len(e) PROVE Ended(s, n, e, 0)
  BY DEF Ended

\* No stop sequence of ss begins inside another one, but for the end of it.
ApartIn(ss) ==
    \A a, b \in DOMAIN ss : \A p \in 2..Len(ss[a]) :
        ss[b][1] = ss[a][p] => p = Len(ss[a]) /\ Len(ss[b]) > 1

\* The one beginning of e that the first n tokens of s end with.
Follows(s, n, e, p) ==
    /\ p \in Nat /\ p < Len(e) /\ Ended(s, n, e, p)
    /\ \A q \in 1..Len(e) : Ended(s, n, e, q) => q = p

\* The detector follows e through one more token.
LEMMA ProgressIs ==
    ASSUME NEW u, NEW s, NEW n, NEW t, OneMore(u, s, n, t), NEW e \in StopSequence,
           \A j \in 2..Len(e) : e[1] = e[j] => j = Len(e),
           NEW p, Follows(s, n, e, p), NEW r, r = Progress(e, p, t)
    PROVE  /\ r \in 0..Len(e) /\ r <= p + 1 /\ Ended(u, n + 1, e, r)
           /\ r > 0 => t \in Plain
           /\ r = Len(e) => r = p + 1
           /\ Ended(u, n + 1, e, Len(e)) => r = Len(e)
           /\ r < Len(e) => Follows(u, n + 1, e, r)
<1>1. PICK l \in Nat : l = Len(e)
  BY DEF StopSequence
<1>2. l > 0 /\ \A j \in 1..l : e[j] \in Plain
  <2>1. e \in Seq(Plain) /\ e # <<>>
    BY DEF StopSequence
  <2>. QED  BY <1>1, <2>1
<1>3. /\ p \in Nat /\ p < l /\ Ended(s, n, e, p)
      /\ \A q \in 1..l : Ended(s, n, e, q) => q = p
  BY <1>1 DEF Follows
<1>4. n \in Nat
  BY DEF OneMore
<1>5. ASSUME NEW q \in 1..l PROVE Ended(u, n + 1, e, q) <=> (Ended(s, n, e, q - 1) /\ e[q] = t)
  <2>1. PICK h \in Nat : h = q - 1 /\ h + 1 = q /\ h + 1 <= l
    BY <1>5
  <2>2. Ended(u, n + 1, e, h + 1) <=> (Ended(s, n, e, h) /\ e[h + 1] = t)
    <3>1. EndsOn(u, s, n, e, h, t)
      BY <1>1, <2>1, EndedNext
    <3>. QED  BY <3>1 DEF EndsOn
  <2>. QED  BY <2>1, <2>2
<1>6. ASSUME NEW q \in 1..l, Ended(u, n + 1, e, q) PROVE (q = 1 \/ q = p + 1) /\ e[q] = t
  <2>1. Ended(s, n, e, q - 1) /\ e[q] = t
    BY <1>5, <1>6
  <2>2. q = 1 \/ q - 1 \in 1..l
    BY <1>6
  <2>3. q - 1 \in 1..l => q - 1 = p
    BY <1>3, <2>1
  <2>. QED  BY <1>3, <2>1, <2>2, <2>3
<1>7. r = IF e[p + 1] = t THEN p + 1 ELSE IF e[1] = t THEN 1 ELSE 0
  BY <1>1, <1>3 DEF Progress
<1>8. Ended(s, n, e, 0) /\ Ended(u, n + 1, e, 0)
  <2>1. n + 1 \in Nat
    BY <1>4
  <2>. QED  BY <1>1, <1>4, <2>1, EndedNone
<1>9. CASE e[p + 1] = t
  <2>1. r = p + 1 /\ p + 1 \in 1..l /\ (p + 1) - 1 = p
    BY <1>3, <1>7, <1>9
  <2>2. Ended(u, n + 1, e, r)
    BY <1>3, <1>5, <1>9, <2>1
  <2>3. t \in Plain
    BY <1>2, <1>9, <2>1
  <2>4. Ended(u, n + 1, e, l) => r = l
    <3>1. l \in 1..l
      BY <1>2
    <3>2. Ended(u, n + 1, e, l) => (l = 1 \/ l = p + 1)
      BY <1>6, <3>1
    <3>. QED  BY <1>3, <2>1, <3>2
  <2>5. ASSUME r < l PROVE Follows(u, n + 1, e, r)
    <3>1. ASSUME NEW q \in 1..l, Ended(u, n + 1, e, q) PROVE q = r
      <4>1. (q = 1 \/ q = p + 1) /\ e[q] = t
        BY <1>6, <3>1
      <4>2. CASE q = 1 /\ p + 1 # 1
        <5>1. p + 1 \in 2..l /\ e[1] = e[p + 1]
          BY <1>3, <1>9, <4>1, <4>2
        <5>2. p + 1 = l
          BY <1>1, <5>1
        <5>. QED  BY <2>1, <2>5, <5>2
      <4>. QED  BY <2>1, <4>1, <4>2
    <3>. QED  BY <1>1, <2>1, <2>2, <2>5, <3>1 DEF Follows
  <2>. QED  BY <1>1, <1>3, <2>1, <2>2, <2>3, <2>4, <2>5
<1>10. CASE e[p + 1] # t
  <2>1. \A q \in 1..l : Ended(u, n + 1, e, q) => q = 1 /\ e[1] = t /\ p # 0
    BY <1>3, <1>6, <1>10
  <2>2. CASE e[1] = t
    <3>1. r = 1 /\ p # 0 /\ 1 \in 1..l
      BY <1>2, <1>7, <1>10, <2>2
    <3>2. Ended(u, n + 1, e, 1)
      <4>1. 1 - 1 = 0
        OBVIOUS
      <4>. QED  BY <1>5, <1>8, <2>2, <3>1, <4>1
    <3>3. t \in Plain /\ 1 < l
      BY <1>2, <1>3, <2>2, <3>1
    <3>4. Follows(u, n + 1, e, 1)
      BY <1>1, <2>1, <3>2, <3>3 DEF Follows
    <3>5. Ended(u, n + 1, e, l) => l = 1
      BY <1>2, <2>1
    <3>. QED  BY <1>1, <1>3, <3>1, <3>2, <3>3, <3>4, <3>5
  <2>3. CASE e[1] # t
    <3>1. r = 0
      BY <1>7, <1>10, <2>3
    <3>2. \A q \in 1..l : ~Ended(u, n + 1, e, q)
      BY <2>1, <2>3
    <3>3. Follows(u, n + 1, e, 0) /\ ~Ended(u, n + 1, e, l)
      BY <1>1, <1>2, <1>8, <3>2 DEF Follows
    <3>. QED  BY <1>1, <1>2, <1>3, <1>8, <3>1, <3>3
  <2>. QED  BY <2>2, <2>3
<1>. QED  BY <1>9, <1>10

IsGreatest(K, m) == m \in K /\ \A y \in K : y <= m

LEMMA GreatestIs ==
    ASSUME NEW n \in Nat, NEW K \in SUBSET (0..n), K # {}, NEW m, m = Greatest(K)
    PROVE  IsGreatest(K, m)
<1>1. PICK x \in K : \A y \in K : y <= x
  BY NatMost
<1>2. m \in K /\ \A y \in K : y <= m
  BY <1>1 DEF Greatest
<1>. QED  BY <1>2 DEF IsGreatest

\* Stop sequences that end at one place are of one length.
LEMMA SameLength ==
    ASSUME NEW ss \in Seq(StopSequence), ApartIn(ss), NEW a \in DOMAIN ss, NEW b \in DOMAIN ss,
           NEW s, NEW n \in Nat, Ended(s, n, ss[a], Len(ss[a])), Ended(s, n, ss[b], Len(ss[b]))
    PROVE  Len(ss[a]) <= Len(ss[b])
<1>1. PICK x, y \in Nat : x = Len(ss[a]) /\ y = Len(ss[b])
  BY DEF StopSequence
<1>2. y > 0
  <2>1. ss[b] \in Seq(Plain) /\ ss[b] # <<>>
    BY DEF StopSequence
  <2>. QED  BY <1>1, <2>1
<1>3. SUFFICES ASSUME y < x PROVE FALSE
  BY <1>1
<1>4. x <= n /\ y <= n /\ (\A j \in 1..x : s[n - x + j] = ss[a][j])
      /\ \A j \in 1..y : s[n - y + j] = ss[b][j]
  <2>1. PICK e, f : e = ss[a] /\ f = ss[b]
    OBVIOUS
  <2>2. Ended(s, n, e, x) /\ Ended(s, n, f, y)
    BY <1>1, <2>1
  <2>3. x <= n /\ \A j \in 1..x : s[n - x + j] = e[j]
    BY <2>2 DEF Ended
  <2>4. y <= n /\ \A j \in 1..y : s[n - y + j] = f[j]
    BY <2>2 DEF Ended
  <2>. QED  BY <2>1, <2>3, <2>4
<1>5. PICK p \in Nat : p = x - y + 1
  BY <1>3
<1>6. p \in 2..x /\ n - x + p = n - y + 1 /\ 1 \in 1..y /\ p \in 1..x
  BY <1>1, <1>2, <1>3, <1>5
<1>7. ss[b][1] = ss[a][p]
  BY <1>4, <1>6
<1>8. p = x /\ y > 1
  BY <1>1, <1>6, <1>7 DEF ApartIn
<1>. QED  BY <1>3, <1>5, <1>8

FollowsAll(ss, s, n, pr) == \A k \in DOMAIN ss : Follows(s, n, ss[k], pr[k])

Longest(ss, pr, m) ==
    /\ m \in Nat /\ \A k \in DOMAIN ss : pr[k] <= m
    /\ m = 0 \/ \E k \in DOMAIN ss : pr[k] = m

EndsHere(ss, s, n) == \E k \in DOMAIN ss : Ended(s, n, ss[k], Len(ss[k]))

\* What the detector knows after one more token.
Detected(ss, u, o, t, pr, r) ==
    /\ r.found = EndsHere(ss, u, o)
    /\ ~r.found => /\ FollowsAll(ss, u, o, r.progress) /\ Longest(ss, r.progress, r.max)
                   /\ r.max > 0 => t \in Plain
                   /\ \A m \in Nat : (\A k \in DOMAIN ss : pr[k] <= m) => r.max <= m + 1
    /\ r.found => \E k \in DOMAIN ss :
                     /\ Ended(u, o, ss[k], Len(ss[k])) /\ r.matched = Len(ss[k])
                     /\ pr[k] + 1 = Len(ss[k]) /\ t \in Plain

LEMMA DetectorIs ==
    ASSUME NEW ss \in Seq(StopSequence), ss = stops, ApartIn(ss), NEW u, NEW s, NEW n, NEW t,
           OneMore(u, s, n, t), NEW pr, FollowsAll(ss, s, n, pr),
           NEW d, ~d.found, d.progress = pr, NEW r, r = ProcessToken(d, t)
    PROVE  Detected(ss, u, n + 1, t, pr, r)
<1>1. PICK pr2 : pr2 = [k \in DOMAIN ss |-> Progress(ss[k], pr[k], t)]
  OBVIOUS
<1>2. PICK complete, o, top : /\ complete = {k \in DOMAIN ss : pr2[k] = Len(ss[k])} /\ o = n + 1
                              /\ top = Greatest({0} \cup {pr2[k] : k \in DOMAIN ss})
  OBVIOUS
<1>3. /\ r.progress = pr2 /\ r.max = top /\ r.found = (complete # {})
      /\ r.matched = IF complete = {} THEN d.matched ELSE Len(ss[Greatest(complete)])
  BY <1>1, <1>2 DEF ProcessToken
<1>4. ASSUME NEW k \in DOMAIN ss
      PROVE  /\ pr2[k] \in 0..Len(ss[k]) /\ pr2[k] <= pr[k] + 1 /\ Ended(u, o, ss[k], pr2[k])
             /\ pr2[k] > 0 => t \in Plain
             /\ pr2[k] = Len(ss[k]) => pr2[k] = pr[k] + 1
             /\ Ended(u, o, ss[k], Len(ss[k])) => pr2[k] = Len(ss[k])
             /\ pr2[k] < Len(ss[k]) => Follows(u, o, ss[k], pr2[k])
             /\ Len(ss[k]) \in Nat /\ Len(ss[k]) > 0 /\ pr[k] \in Nat
  <2>1. PICK e, p, q : e = ss[k] /\ p = pr[k] /\ q = pr2[k]
    OBVIOUS
  <2>2. e \in StopSequence /\ Follows(s, n, e, p) /\ q = Progress(e, p, t)
    BY <1>1, <2>1 DEF FollowsAll
  <2>3. \A j \in 2..Len(e) : e[1] = e[j] => j = Len(e)
    BY <2>1 DEF ApartIn
  <2>4. /\ q \in 0..Len(e) /\ q <= p + 1 /\ Ended(u, n + 1, e, q)
        /\ q > 0 => t \in Plain
        /\ q = Len(e) => q = p + 1
        /\ Ended(u, n + 1, e, Len(e)) => q = Len(e)
        /\ q < Len(e) => Follows(u, n + 1, e, q)
    BY <2>2, <2>3, ProgressIs
  <2>5. Len(e) \in Nat /\ Len(e) > 0
    BY <2>2 DEF StopSequence
  <2>6. p \in Nat
    BY <2>2 DEF Follows
  <2>. QED  BY <1>2, <2>1, <2>4, <2>5, <2>6
<1>5. o \in Nat /\ n \in Nat
  BY <1>2 DEF OneMore
<1>6. top \in Nat /\ (\A k \in DOMAIN ss : pr2[k] <= top) /\ (top = 0 \/ \E k \in DOMAIN ss : pr2[k] = top)
  <2>1. PICK K : K = {0} \cup {pr2[k] : k \in DOMAIN ss}
    OBVIOUS
  <2>2. \A k \in DOMAIN ss : pr2[k] \in 0..o
    BY <1>4 DEF Ended
  <2>3. K \in SUBSET (0..o) /\ K # {}
    BY <1>5, <2>1, <2>2
  <2>4. top = Greatest(K)
    BY <1>2, <2>1
  <2>5. IsGreatest(K, top)
    BY ONLY <1>5, <2>3, <2>4, GreatestIs
  <2>6. top \in K /\ top \in Nat /\ \A y \in K : y <= top
    BY <2>3, <2>5 DEF IsGreatest
  <2>7. \A k \in DOMAIN ss : pr2[k] \in K
    BY <2>1
  <2>8. top = 0 \/ \E k \in DOMAIN ss : pr2[k] = top
    BY <2>1, <2>6
  <2>. QED  BY <2>6, <2>7, <2>8
<1>7. r.found = EndsHere(ss, u, o)
  <2>1. ASSUME NEW k \in complete PROVE EndsHere(ss, u, o)
    <3>1. k \in DOMAIN ss /\ pr2[k] = Len(ss[k])
      BY <1>2
    <3>2. Ended(u, o, ss[k], Len(ss[k]))
      BY <1>4, <3>1
    <3>. QED  BY <3>1, <3>2 DEF EndsHere
  <2>2. ASSUME EndsHere(ss, u, o) PROVE complete # {}
    <3>1. PICK k \in DOMAIN ss : Ended(u, o, ss[k], Len(ss[k]))
      BY <2>2 DEF EndsHere
    <3>2. pr2[k] = Len(ss[k])
      BY <1>4, <3>1
    <3>. QED  BY <1>2, <3>2
  <2>3. EndsHere(ss, u, o) \in BOOLEAN
    BY DEF EndsHere
  <2>. QED  BY <1>3, <2>1, <2>2, <2>3
<1>8. ASSUME ~r.found
      PROVE  /\ FollowsAll(ss, u, o, r.progress) /\ Longest(ss, r.progress, r.max)
             /\ r.max > 0 => t \in Plain
             /\ \A m \in Nat : (\A k \in DOMAIN ss : pr[k] <= m) => r.max <= m + 1
  <2>1. \A k \in DOMAIN ss : pr2[k] # Len(ss[k])
    BY <1>2, <1>3, <1>8
  <2>2. \A k \in DOMAIN ss : Follows(u, o, ss[k], pr2[k])
    BY <1>4, <2>1
  <2>3. r.max > 0 => t \in Plain
    BY <1>3, <1>4, <1>6
  <2>4. ASSUME NEW m \in Nat, \A k \in DOMAIN ss : pr[k] <= m PROVE top <= m + 1
    <3>1. CASE top = 0
      BY <3>1
    <3>2. CASE \E k \in DOMAIN ss : pr2[k] = top
      <4>1. PICK k \in DOMAIN ss : pr2[k] = top
        BY <3>2
      <4>2. top <= pr[k] + 1 /\ pr[k] <= m /\ pr[k] \in Nat
        BY <1>4, <2>4, <4>1
      <4>. QED  BY <1>6, <4>2
    <3>. QED  BY <1>6, <3>1, <3>2
  <2>. QED  BY <1>3, <1>6, <2>2, <2>3, <2>4 DEF FollowsAll, Longest
<1>9. ASSUME r.found
      PROVE  \E k \in DOMAIN ss : /\ Ended(u, o, ss[k], Len(ss[k])) /\ r.matched = Len(ss[k])
                                  /\ pr[k] + 1 = Len(ss[k]) /\ t \in Plain
  <2>1. PICK m \in Nat : m = Len(ss)
    OBVIOUS
  <2>2. complete \in SUBSET (0..m) /\ complete # {}
    <3>1. DOMAIN ss = 1..m
      BY <2>1
    <3>2. complete \subseteq 1..m
      BY <1>2, <3>1
    <3>3. complete # {}
      BY <1>3, <1>9
    <3>. QED  BY <3>2, <3>3
  <2>3. PICK k : k = Greatest(complete)
    OBVIOUS
  <2>4. k \in complete
    <3>1. IsGreatest(complete, k)
      BY ONLY <2>1, <2>2, <2>3, GreatestIs
    <3>. QED  BY <3>1 DEF IsGreatest
  <2>5. k \in DOMAIN ss /\ pr2[k] = Len(ss[k]) /\ r.matched = Len(ss[k])
    BY <1>2, <1>3, <2>2, <2>3, <2>4
  <2>6. Ended(u, o, ss[k], Len(ss[k])) /\ pr[k] + 1 = Len(ss[k]) /\ t \in Plain
    BY <1>4, <2>5
  <2>. QED  BY <2>5, <2>6
<1>. QED  BY <1>2, <1>7, <1>8, <1>9 DEF Detected

(***************************************************************************)
(* Texts of one token each, one after the other.                            *)
(***************************************************************************)
\* The sequence c is a and then b.
Joined(T, a, n, b, m, c) ==
    /\ c \in Seq(T) /\ Len(c) = n + m
    /\ (\A j \in 1..n : c[j] = a[j]) /\ \A j \in 1..m : c[n + j] = b[j]

LEMMA JoinIs ==
    ASSUME NEW T, NEW a \in Seq(T), NEW b \in Seq(T), NEW n \in Nat, n = Len(a),
           NEW m \in Nat, m = Len(b), NEW c, c = a \o b
    PROVE  Joined(T, a, n, b, m, c)
<1>1. c \in Seq(T) /\ Len(c) = n + m
  OBVIOUS
<1>2. \A j \in 1..n : c[j] = a[j]
  OBVIOUS
<1>3. ASSUME NEW j \in 1..m PROVE c[n + j] = b[j]
  <2>1. n + j \in 1..(n + m) /\ ~(n + j <= n) /\ (n + j) - n = j
    OBVIOUS
  <2>. QED  BY <2>1
<1>. QED  BY <1>1, <1>2, <1>3 DEF Joined

Single == {<<x>> : x \in StopToken}

Flattened(texts, r) ==
    r \in Seq(StopToken) /\ Len(r) = Len(texts) /\ \A j \in 1..Len(texts) : texts[j] = <<r[j]>>

IsFlat(f, n, texts) == f = [m \in 0..n |-> IF m = 0 THEN <<>> ELSE f[m - 1] \o texts[m]]

LEMMA FlatExists ==
    ASSUME NEW texts \in Seq(Single), NEW n \in Nat, n = Len(texts)
    PROVE  \E f : IsFlat(f, n, texts)
<1>1. PICK w : w = [j \in 1..n |-> CHOOSE x \in StopToken : texts[j] = <<x>>]
  OBVIOUS
<1>2. ASSUME NEW j \in 1..n PROVE w[j] \in StopToken /\ texts[j] = <<w[j]>>
  <2>1. texts[j] \in Single
    BY <1>2
  <2>2. \E x \in StopToken : texts[j] = <<x>>
    BY <2>1 DEF Single
  <2>. QED  BY <1>1, <2>2
<1>3. PICK f : f = [m \in 0..n |-> [j \in 1..m |-> w[j]]]
  OBVIOUS
<1>4. ASSUME NEW m \in 1..n PROVE f[m] = f[m - 1] \o texts[m]
  <2>1. PICK h \in Nat : h = m - 1 /\ m = h + 1 /\ h \in 0..n /\ h < n
    BY <1>4
  <2>2. PICK T : T = StopToken
    OBVIOUS
  <2>3. PICK a, b, c : a = f[h] /\ b = texts[m] /\ c = a \o b
    OBVIOUS
  <2>4. a = [j \in 1..h |-> w[j]] /\ a \in Seq(T) /\ Len(a) = h
    <3>1. a = [j \in 1..h |-> w[j]]
      BY <1>3, <2>1, <2>3
    <3>2. \A j \in 1..h : w[j] \in T
      BY <1>2, <2>1, <2>2
    <3>. QED  BY <2>1, <3>1, <3>2
  <2>5. b = <<w[m]>> /\ w[m] \in T
    BY <1>2, <1>4, <2>2, <2>3
  <2>6. c \in Seq(T) /\ Len(c) = h + 1 /\ (\A j \in 1..h : c[j] = a[j]) /\ c[h + 1] = w[m]
    <3>1. PICK z : z = w[m]
      OBVIOUS
    <3>2. b \in Seq(T) /\ Len(b) = 1 /\ 1 \in Nat /\ b[1] = z
      BY <2>5, <3>1
    <3>3. a \in Seq(T) /\ Len(a) = h /\ c = a \o b /\ h \in Nat
      BY <2>3, <2>4
    <3>4. Joined(T, a, h, b, 1, c)
      BY ONLY <3>2, <3>3, JoinIs
    <3>. QED  BY <3>1, <3>2, <3>4 DEF Joined
  <2>7. \A j \in 1..m : c[j] = w[j]
    BY <2>1, <2>4, <2>6
  <2>8. c = [j \in 1..m |-> w[j]]
    BY <2>1, <2>6, <2>7
  <2>9. f[m] = [j \in 1..m |-> w[j]]
    <3>1. m \in 0..n
      BY <1>4
    <3>. QED  BY <1>3, <3>1
  <2>. QED  BY <2>1, <2>3, <2>8, <2>9
<1>5. f[0] = <<>>
  BY <1>3
<1>6. f = [m \in 0..n |-> IF m = 0 THEN <<>> ELSE f[m - 1] \o texts[m]]
  <2>1. \A m \in 0..n : m = 0 \/ m \in 1..n
    OBVIOUS
  <2>2. \A m \in 0..n : f[m] = IF m = 0 THEN <<>> ELSE f[m - 1] \o texts[m]
    BY <1>4, <1>5, <2>1
  <2>. QED  BY <1>3, <2>2
<1>. QED  BY <1>6 DEF IsFlat

LEMMA FlatIs ==
    ASSUME NEW texts \in Seq(Single), NEW r, r = Flat(texts)
    PROVE  Flattened(texts, r)
<1>1. PICK n \in Nat : n = Len(texts)
  OBVIOUS
<1>2. PICK f : f = CHOOSE g : g = [m \in 0..n |-> IF m = 0 THEN <<>> ELSE g[m - 1] \o texts[m]]
  OBVIOUS
<1>3. r = f[n]
  BY <1>1, <1>2 DEF Flat
<1>4. f = [m \in 0..n |-> IF m = 0 THEN <<>> ELSE f[m - 1] \o texts[m]]
  <2>1. \E g : g = [m \in 0..n |-> IF m = 0 THEN <<>> ELSE g[m - 1] \o texts[m]]
    <3>1. \E g : IsFlat(g, n, texts)
      BY <1>1, FlatExists
    <3>. QED  BY <3>1 DEF IsFlat
  <2>. QED  BY <1>2, <2>1
<1>5. f[0] = <<>> /\ \A m \in 1..n : f[m] = f[m - 1] \o texts[m]
  <2>1. \A m \in 1..n : m \in 0..n /\ m # 0
    OBVIOUS
  <2>2. 0 \in 0..n
    OBVIOUS
  <2>. QED  BY <1>4, <2>1, <2>2
<1>6. PICK T, W : T = StopToken /\ W = Seq(T)
  OBVIOUS
<1>7. PICK S : S = {m \in Nat : m <= n => /\ f[m] \in W /\ Len(f[m]) = m
                                          /\ \A j \in 1..m : texts[j] = <<f[m][j]>>}
  OBVIOUS
<1>8. 0 \in S
  <2>1. <<>> \in W /\ Len(<<>>) = 0
    BY <1>6
  <2>. QED  BY <1>5, <1>7, <2>1
<1>9. ASSUME NEW m \in Nat, m \in S PROVE m + 1 \in S
  <2>1. SUFFICES ASSUME m + 1 <= n
                 PROVE  /\ f[m + 1] \in W /\ Len(f[m + 1]) = m + 1
                        /\ \A j \in 1..(m + 1) : texts[j] = <<f[m + 1][j]>>
    BY <1>7
  <2>2. PICK a, b, c : a = f[m] /\ b = texts[m + 1] /\ c = f[m + 1]
    OBVIOUS
  <2>3. a \in Seq(T) /\ Len(a) = m /\ \A j \in 1..m : texts[j] = <<a[j]>>
    BY <1>6, <1>7, <1>9, <2>1, <2>2
  <2>4. c = a \o b
    <3>1. m + 1 \in 1..n /\ (m + 1) - 1 = m
      BY <2>1
    <3>. QED  BY <1>5, <2>2, <3>1
  <2>5. PICK x \in T : b = <<x>>
    <3>1. m + 1 \in 1..n
      BY <2>1
    <3>2. texts[m + 1] \in Single
      BY <1>1, <3>1
    <3>. QED  BY <1>6, <2>2, <3>2 DEF Single
  <2>6. c \in Seq(T) /\ Len(c) = m + 1 /\ (\A j \in 1..m : c[j] = a[j]) /\ c[m + 1] = x
    BY <2>3, <2>4, <2>5
  <2>7. ASSUME NEW j \in 1..(m + 1) PROVE texts[j] = <<c[j]>>
    <3>1. CASE j = m + 1
      BY <2>2, <2>5, <2>6, <3>1
    <3>2. CASE j # m + 1
      <4>1. j \in 1..m
        BY <3>2
      <4>. QED  BY <2>3, <2>6, <4>1
    <3>. QED  BY <3>1, <3>2
  <2>. QED  BY <1>6, <2>2, <2>6, <2>7
<1>10. n \in S
  <2>1. Nat \subseteq S
    BY <1>8, <1>9, NatAll
  <2>. QED  BY <2>1
<1>. QED  BY <1>1, <1>3, <1>6, <1>7, <1>10 DEF Flattened

(***************************************************************************)
(* The tokens given away and held back.                                     *)
(***************************************************************************)
\* The first n tokens of s have been given away, and then held back.
Told(s, n, gi, he) ==
    /\ gi \in Seq(StopToken) /\ he \in Seq(Single) /\ Len(gi) + Len(he) = n
    /\ \A j \in 1..Len(gi) : gi[j] = s[j]
    /\ \A j \in 1..Len(he) : he[j] = <<s[Len(gi) + j]>>

\* What is held is given away, and all of text.
HoldsNone(u, m, gi, h) == Told(u, m, gi \o h.given, h.held) /\ Len(h.held) = 0

\* What HoldBack makes of the texts q, with the first p given away.
HoldOf(h, d, q, p, text) ==
    /\ h.held = SubSeq(q, p + 1, Len(q))
    /\ h.given = Flat(SubSeq(q, 1, p)) \o (IF d.max = 0 THEN text ELSE <<>>)

LEMMA HoldForm ==
    ASSUME NEW d, NEW he, NEW text, NEW q, q = (IF d.max > 0 THEN Append(he, text) ELSE he),
           NEW p, p = (IF Len(q) > d.max THEN Len(q) - d.max ELSE 0),
           NEW h, h = HoldBack(d, he, text)
    PROVE  HoldOf(h, d, q, p, text)
  BY DEF HoldBack, HoldOf

LEMMA HoldNone ==
    ASSUME NEW s, NEW n \in Nat, NEW gi, NEW he, Told(s, n, gi, he), NEW text \in Seq(StopToken),
           NEW u, \A j \in 1..n : u[j] = s[j], NEW m, m = n + Len(text),
           \A j \in 1..Len(text) : text[j] = u[n + j],
           NEW d, d.max = 0, NEW h, h = HoldBack(d, he, text)
    PROVE  HoldsNone(u, m, gi, h)
<1>1. PICK T : T = StopToken
  OBVIOUS
<1>2. PICK a, l, k \in Nat : a = Len(gi) /\ l = Len(he) /\ k = Len(text)
  BY DEF Told
<1>3. /\ gi \in Seq(T) /\ he \in Seq(Single) /\ a + l = n /\ text \in Seq(T)
      /\ \A j \in 1..a : gi[j] = s[j]
      /\ \A j \in 1..l : he[j] = <<s[a + j]>>
  BY <1>1, <1>2 DEF Told
<1>4. h.held = SubSeq(he, l + 1, l) /\ h.given = Flat(SubSeq(he, 1, l)) \o text
  <2>1. d.max = 0 /\ ~(d.max > 0) /\ h = HoldBack(d, he, text)
    OBVIOUS
  <2>2. he = IF d.max > 0 THEN Append(he, text) ELSE he
    BY ONLY <2>1
  <2>3. l = IF Len(he) > d.max THEN Len(he) - d.max ELSE 0
    BY ONLY l \in Nat, <1>2, <2>1
  <2>4. HoldOf(h, d, he, l, text)
    BY ONLY <2>1, <2>2, <2>3, HoldForm
  <2>. QED  BY ONLY <1>2, <2>1, <2>4 DEF HoldOf
<1>5. SubSeq(he, 1, l) = he /\ SubSeq(he, l + 1, l) = <<>>
  <2>1. PICK W : W = Single
    OBVIOUS
  <2>2. he \in Seq(W) /\ Len(he) = l
    BY <1>2, <1>3, <2>1
  <2>. QED  BY <1>2, <2>2
<1>6. PICK f, g : f = Flat(he) /\ g = f \o text
  OBVIOUS
<1>7. f \in Seq(T) /\ Len(f) = l /\ \A j \in 1..l : he[j] = <<f[j]>>
  <2>1. Flattened(he, f)
    BY <1>3, <1>6, FlatIs
  <2>. QED  BY <1>1, <1>2, <2>1 DEF Flattened
<1>8. \A j \in 1..l : f[j] = s[a + j]
  <2>. SUFFICES ASSUME NEW j \in 1..l PROVE f[j] = s[a + j]
    OBVIOUS
  <2>1. <<f[j]>> = <<s[a + j]>>
    BY <1>3, <1>7
  <2>. QED  BY <2>1
<1>9. /\ g \in Seq(T) /\ Len(g) = l + k /\ (\A j \in 1..l : g[j] = f[j])
      /\ \A j \in 1..k : g[l + j] = text[j]
  <2>1. Joined(T, f, l, text, k, g)
    BY ONLY l \in Nat, k \in Nat, <1>2, <1>3, <1>6, <1>7, JoinIs
  <2>. QED  BY <2>1 DEF Joined
<1>10. PICK o : o = gi \o g
  OBVIOUS
<1>11. /\ o \in Seq(T) /\ Len(o) = a + (l + k) /\ (\A j \in 1..a : o[j] = gi[j])
       /\ \A j \in 1..(l + k) : o[a + j] = g[j]
  <2>1. l + k \in Nat
    BY <1>2
  <2>2. Joined(T, gi, a, g, l + k, o)
    BY ONLY a \in Nat, <1>2, <1>3, <1>9, <1>10, <2>1, JoinIs
  <2>. QED  BY <2>2 DEF Joined
<1>12. ASSUME NEW j \in 1..Len(o) PROVE o[j] = u[j]
  <2>1. CASE j \in 1..a
    <3>1. j \in 1..n
      BY <1>2, <1>3, <2>1
    <3>. QED  BY <1>3, <1>11, <2>1, <3>1
  <2>2. CASE j \in (a + 1)..(a + l)
    <3>1. PICK i \in 1..l : j = a + i
      <4>1. j - a \in 1..l /\ j = a + (j - a)
        BY <1>2, <2>2
      <4>. QED  BY <4>1
    <3>2. i \in 1..(l + k) /\ j \in 1..n
      BY <1>2, <1>3, <2>2, <3>1
    <3>3. o[j] = g[i] /\ g[i] = f[i] /\ f[i] = s[j] /\ u[j] = s[j]
      BY <1>8, <1>9, <1>11, <3>1, <3>2
    <3>. QED  BY <3>3
  <2>3. CASE j \in (n + 1)..(n + k)
    <3>1. PICK i \in 1..k : j = n + i
      <4>1. j - n \in 1..k /\ j = n + (j - n)
        BY <1>2, <2>3
      <4>. QED  BY <4>1
    <3>2. l + i \in 1..(l + k) /\ a + (l + i) = j
      <4>1. a + l = n
        BY <1>3
      <4>. QED  BY ONLY a \in Nat, l \in Nat, k \in Nat, i \in 1..k, <3>1, <4>1
    <3>3. o[j] = g[l + i] /\ g[l + i] = text[i] /\ text[i] = u[n + i]
      BY <1>2, <1>9, <1>11, <3>1, <3>2
    <3>. QED  BY <3>1, <3>3
  <2>. QED  BY <1>2, <1>3, <1>11, <1>12, <2>1, <2>2, <2>3
<1>13. gi \o h.given = o /\ h.held = <<>>
  BY <1>4, <1>5, <1>6, <1>10
<1>14. <<>> \in Seq(Single) /\ Len(<<>>) = 0
  OBVIOUS
<1>15. Len(o) + 0 = m /\ 1..0 = {}
  BY <1>2, <1>3, <1>11
<1>. QED  BY <1>1, <1>11, <1>12, <1>13, <1>14, <1>15 DEF HoldsNone, Told

\* As much is held as the longest match under way.
HoldsSome(u, m, gi, h, max) == Told(u, m, gi \o h.given, h.held) /\ Len(h.held) = max

LEMMA HoldSome ==
    ASSUME NEW s, NEW n \in Nat, NEW gi, NEW he, Told(s, n, gi, he), NEW t \in StopToken,
           NEW u, \A j \in 1..n : u[j] = s[j], u[n + 1] = t,
           NEW d, NEW x \in Nat \ {0}, d.max = x, x <= Len(he) + 1,
           NEW h, h = HoldBack(d, he, <<t>>)
    PROVE  HoldsSome(u, n + 1, gi, h, x)
<1>1. PICK T, W : T = StopToken /\ W = Single
  OBVIOUS
<1>2. PICK a, l \in Nat : a = Len(gi) /\ l = Len(he)
  BY DEF Told
<1>3. /\ gi \in Seq(T) /\ he \in Seq(W) /\ a + l = n
      /\ \A j \in 1..a : gi[j] = s[j]
      /\ \A j \in 1..l : he[j] = <<s[a + j]>>
  BY <1>1, <1>2 DEF Told
<1>4. PICK line : line = Append(he, <<t>>)
  OBVIOUS
<1>5. /\ line \in Seq(W) /\ Len(line) = l + 1 /\ line[l + 1] = <<t>>
      /\ \A j \in 1..l : line[j] = he[j]
  <2>1. <<t>> \in W
    BY <1>1 DEF Single
  <2>. QED  BY <1>2, <1>3, <1>4, <2>1
<1>6. ASSUME NEW j \in 1..(l + 1) PROVE line[j] = <<u[a + j]>>
  <2>1. CASE j = l + 1
    <3>1. a + j = n + 1
      <4>1. a + l = n
        BY <1>3
      <4>. QED  BY ONLY a \in Nat, l \in Nat, <2>1, <4>1
    <3>. QED  BY <1>5, <2>1, <3>1
  <2>2. CASE j # l + 1
    <3>1. j \in 1..l /\ a + j \in 1..n
      BY <1>2, <1>3, <2>2
    <3>. QED  BY <1>3, <1>5, <3>1
  <2>. QED  BY <2>1, <2>2
<1>7. PICK over \in Nat : over = (l + 1) - x /\ over <= l
  <2>1. x <= l + 1 /\ x > 0 /\ x \in Nat
    BY <1>2
  <2>2. (l + 1) - x \in Nat /\ (l + 1) - x <= l
    BY <2>1
  <2>. QED  BY <2>2
<1>8. h.held = SubSeq(line, over + 1, l + 1) /\ h.given = Flat(SubSeq(line, 1, over)) \o <<>>
  <2>1. d.max = x /\ d.max > 0 /\ d.max # 0 /\ h = HoldBack(d, he, <<t>>)
    OBVIOUS
  <2>2. line = (IF d.max > 0 THEN Append(he, <<t>>) ELSE he) /\ Len(line) = l + 1
    BY ONLY <1>4, <1>5, <2>1
  <2>3. over = (IF Len(line) > d.max THEN Len(line) - d.max ELSE 0)
    BY ONLY over \in Nat, l \in Nat, x \in Nat, <1>7, <2>1, <2>2
  <2>4. HoldOf(h, d, line, over, <<t>>)
    BY ONLY <2>1, <2>2, <2>3, HoldForm
  <2>. QED  BY ONLY <2>1, <2>2, <2>4 DEF HoldOf
<1>9. PICK v, w : v = SubSeq(line, 1, over) /\ w = SubSeq(line, over + 1, l + 1)
  OBVIOUS
<1>10. v \in Seq(W) /\ Len(v) = over /\ \A j \in 1..over : v[j] = line[j]
  BY <1>2, <1>5, <1>7, <1>9
<1>11. w \in Seq(W) /\ Len(w) = x /\ \A j \in 1..x : w[j] = line[over + j]
  BY <1>2, <1>5, <1>7, <1>9
<1>12. PICK f : f = Flat(v)
  OBVIOUS
<1>13. f \in Seq(T) /\ Len(f) = over /\ \A j \in 1..over : v[j] = <<f[j]>>
  <2>1. Flattened(v, f)
    BY <1>1, <1>10, <1>12, FlatIs
  <2>. QED  BY <1>1, <1>10, <2>1 DEF Flattened
<1>14. \A j \in 1..over : f[j] = u[a + j]
  <2>. SUFFICES ASSUME NEW j \in 1..over PROVE f[j] = u[a + j]
    OBVIOUS
  <2>1. j \in 1..(l + 1)
    BY <1>2, <1>7
  <2>2. <<f[j]>> = <<u[a + j]>>
    BY <1>6, <1>10, <1>13, <2>1
  <2>. QED  BY <2>2
<1>15. PICK o : o = gi \o f
  OBVIOUS
<1>16. /\ o \in Seq(T) /\ Len(o) = a + over /\ (\A j \in 1..a : o[j] = gi[j])
       /\ \A j \in 1..over : o[a + j] = f[j]
  <2>1. Joined(T, gi, a, f, over, o)
    BY ONLY a \in Nat, over \in Nat, <1>2, <1>3, <1>13, <1>15, JoinIs
  <2>. QED  BY <2>1 DEF Joined
<1>17. ASSUME NEW j \in 1..Len(o) PROVE o[j] = u[j]
  <2>1. CASE j \in 1..a
    <3>1. j \in 1..n
      BY <1>2, <1>3, <2>1
    <3>. QED  BY <1>3, <1>16, <2>1, <3>1
  <2>2. CASE j \notin 1..a
    <3>1. PICK i \in 1..over : j = a + i
      <4>1. j - a \in 1..over /\ j = a + (j - a)
        BY <1>2, <1>7, <1>16, <2>2
      <4>. QED  BY <4>1
    <3>. QED  BY <1>14, <1>16, <3>1
  <2>. QED  BY <2>1, <2>2
<1>18. gi \o h.given = o /\ h.held = w
  <2>1. f \o <<>> = f
    BY <1>13
  <2>. QED  BY <1>8, <1>9, <1>12, <1>15, <2>1
<1>19. ASSUME NEW j \in 1..x PROVE w[j] = <<u[Len(o) + j]>>
  <2>1. over + j \in 1..(l + 1) /\ a + (over + j) = Len(o) + j
    BY <1>2, <1>7, <1>16
  <2>. QED  BY <1>6, <1>11, <2>1
<1>20. Len(o) + Len(w) = n + 1
  <2>1. a + l = n /\ Len(w) = x /\ Len(o) = a + over
    BY <1>3, <1>11, <1>16
  <2>. QED  BY ONLY a \in Nat, l \in Nat, x \in Nat, <1>7, <2>1
<1>. QED  BY <1>1, <1>11, <1>16, <1>17, <1>18, <1>19, <1>20 DEF HoldsSome, Told

(***************************************************************************)
(* What a candidate has come to.                                            *)
(***************************************************************************)
LeadLast(s, n) == n > 0 /\ s[n] = Lead

\* No stop sequence yet: all tokens but half a character are given away or held
\* back, and what is held is what the longest match under way has.
Running(ss, d, pa, he, gi, s) ==
    /\ d.found = FALSE
    /\ d.progress \in Seq(Nat) /\ Len(d.progress) = Len(ss)
    /\ FollowsAll(ss, s, Len(s), d.progress) /\ Longest(ss, d.progress, d.max)
    /\ \A m \in 1..Len(s) : ~EndsHere(ss, s, m)
    /\ IF LeadLast(s, Len(s)) THEN pa = <<Lead>> /\ Told(s, Len(s) - 1, gi, he)
       ELSE pa = <<>> /\ Told(s, Len(s), gi, he) /\ Len(he) = d.max

\* The tokens given away are among the first c; the rest of them is what a stop
\* sequence begins with.
CutAt(ss, s, gi, c) ==
    /\ c \in Nat /\ c <= Len(s) /\ gi \in Seq(StopToken) /\ Len(gi) <= c
    /\ \A j \in 1..Len(gi) : gi[j] = s[j]
    /\ \/ Len(gi) = c
       \/ \E a \in DOMAIN ss : /\ c - Len(gi) < Len(ss[a])
                               /\ \A j \in 1..(c - Len(gi)) : s[Len(gi) + j] = ss[a][j]

\* The first stop sequence ends at m.
StopsAt(ss, s, m, k) ==
    /\ m \in 1..Len(s) /\ k \in DOMAIN ss /\ Ended(s, m, ss[k], Len(ss[k]))
    /\ \A j \in 1..(m - 1) : ~EndsHere(ss, s, j)

Stopped(ss, d, gi, s) ==
    /\ d.found = TRUE
    /\ \E m, k : /\ StopsAt(ss, s, m, k)
                 /\ d.matched = (Len(s) - m) + Len(ss[k])
                 /\ CutAt(ss, s, gi, m - Len(ss[k]))

Fields(d) == DOMAIN d = {"progress", "max", "found", "matched"}

Candidate(ss, d, pa, he, gi, s) ==
    Fields(d) /\ (Running(ss, d, pa, he, gi, s) \/ Stopped(ss, d, gi, s))

\* What a step makes of a candidate.
Decoded(d, pa, he, gi, t, r, pa2, he2, gi2) ==
    /\ r = ProcessToken(d, t)
    /\ pa2 = IF t = Lead THEN Append(pa, t) ELSE IF ~r.found THEN <<>> ELSE pa
    /\ IF t # Lead /\ ~r.found
       THEN LET h == HoldBack(r, he, Append(pa, t)) IN he2 = h.held /\ gi2 = gi \o h.given
       ELSE he2 = he /\ gi2 = gi \o <<>>

DetectorForm(ss, r) ==
    Fields(r) /\ r.found \in BOOLEAN /\ \E f : r.progress = [k \in DOMAIN ss |-> f[k]]

LEMMA DetectorFormIs ==
    ASSUME NEW ss, ss = stops, NEW d, d.found = FALSE, NEW t, NEW r, r = ProcessToken(d, t)
    PROVE  DetectorForm(ss, r)
<1>1. PICK f : f = [k \in DOMAIN ss |-> Progress(ss[k], d.progress[k], t)]
  OBVIOUS
<1>2. /\ Fields(r) /\ r.progress = f
      /\ r.found = ({k \in DOMAIN ss : f[k] = Len(ss[k])} # {})
  BY <1>1 DEF ProcessToken, Fields
<1>3. f = [k \in DOMAIN ss |-> f[k]]
  BY <1>1
<1>. QED  BY <1>2, <1>3 DEF DetectorForm

LEMMA EndsHereOld ==
    ASSUME NEW u, NEW s, NEW n, NEW t, OneMore(u, s, n, t), NEW ss, NEW m \in 0..n
    PROVE  EndsHere(ss, u, m) <=> EndsHere(ss, s, m)
  BY EndedOld DEF EndsHere

LEMMA ToldMore ==
    ASSUME NEW u, NEW s, NEW n, NEW t, OneMore(u, s, n, t), NEW m \in 0..n, NEW gi, NEW he,
           Told(s, m, gi, he)
    PROVE  Told(u, m, gi, he)
<1>1. n \in Nat /\ \A i \in 1..n : u[i] = s[i]
  BY DEF OneMore
<1>2. PICK a, l \in Nat : a = Len(gi) /\ l = Len(he)
  BY DEF Told
<1>3. a + l = m /\ (\A j \in 1..a : gi[j] = s[j]) /\ \A j \in 1..l : he[j] = <<s[a + j]>>
  BY <1>2 DEF Told
<1>4. \A j \in 1..a : gi[j] = u[j]
  <2>1. \A j \in 1..a : j \in 1..n
    BY <1>1, <1>2, <1>3
  <2>. QED  BY <1>1, <1>3, <2>1
<1>5. \A j \in 1..l : he[j] = <<u[a + j]>>
  <2>1. \A j \in 1..l : a + j \in 1..n
    BY <1>1, <1>2, <1>3
  <2>. QED  BY <1>1, <1>3, <2>1
<1>. QED  BY <1>2, <1>3, <1>4, <1>5 DEF Told

\* The cut, when a stop sequence is complete.
LEMMA CutIs ==
    ASSUME NEW ss \in Seq(StopSequence), NEW u, NEW s, NEW n, NEW t, OneMore(u, s, n, t),
           NEW pr, FollowsAll(ss, s, n, pr), NEW x, Longest(ss, pr, x),
           NEW gi, NEW he, Told(s, n, gi, he), Len(he) = x,
           NEW k \in DOMAIN ss, Ended(u, n + 1, ss[k], Len(ss[k])), pr[k] + 1 = Len(ss[k])
    PROVE  CutAt(ss, u, gi, (n + 1) - Len(ss[k]))
<1>1. PICK l \in Nat : l = Len(ss[k])
  BY DEF StopSequence
<1>2. n \in Nat /\ Len(u) = n + 1 /\ \A i \in 1..n : u[i] = s[i]
  BY DEF OneMore
<1>3. PICK a \in Nat : a = Len(gi)
  BY DEF Told
<1>4. gi \in Seq(StopToken) /\ a + x = n /\ \A j \in 1..a : gi[j] = s[j]
  BY <1>3 DEF Told
<1>5. x \in Nat /\ l <= x + 1 /\ (x = 0 \/ \E b \in DOMAIN ss : pr[b] = x)
  <2>1. pr[k] <= x /\ x \in Nat /\ (x = 0 \/ \E b \in DOMAIN ss : pr[b] = x)
    BY DEF Longest
  <2>2. pr[k] \in Nat
    BY DEF FollowsAll, Follows
  <2>. QED  BY <1>1, <2>1, <2>2
<1>6. PICK c \in Nat : c = (n + 1) - l /\ a <= c /\ c <= n + 1
  <2>1. (n + 1) - l \in Nat /\ a <= (n + 1) - l /\ (n + 1) - l <= n + 1
    BY <1>1, <1>2, <1>3, <1>4, <1>5
  <2>. QED  BY <2>1
<1>7. \A j \in 1..a : gi[j] = u[j]
  <2>1. \A j \in 1..a : j \in 1..n
    BY <1>2, <1>3, <1>4, <1>5
  <2>. QED  BY <1>2, <1>4, <2>1
<1>8. l > 0
  <2>1. ss[k] \in Seq(Plain) /\ ss[k] # <<>>
    BY DEF StopSequence
  <2>. QED  BY <1>1, <2>1
<1>9. CASE x = 0
  <2>1. a = c
    BY <1>1, <1>2, <1>3, <1>4, <1>6, <1>8, <1>9
  <2>. QED  BY <1>1, <1>2, <1>3, <1>4, <1>6, <1>7, <2>1 DEF CutAt
<1>10. CASE x # 0
  <2>1. PICK b \in DOMAIN ss : pr[b] = x
    BY <1>5, <1>10
  <2>2. x < Len(ss[b]) /\ Ended(s, n, ss[b], x)
    BY <2>1 DEF FollowsAll, Follows
  <2>3. \A j \in 1..x : s[n - x + j] = ss[b][j]
    BY <2>2 DEF Ended
  <2>4. PICK v \in Nat : v = Len(ss[b])
    BY DEF StopSequence
  <2>5. c - a < v
    BY <1>1, <1>2, <1>3, <1>4, <1>5, <1>6, <1>8, <2>2, <2>4
  <2>6. ASSUME NEW j \in 1..(c - a) PROVE u[a + j] = ss[b][j]
    <3>1. j \in 1..x /\ a + j \in 1..n /\ n - x + j = a + j
      <4>1. a + x = n /\ c = (n + 1) - l /\ x \in Nat /\ n \in Nat
        BY <1>2, <1>4, <1>5, <1>6
      <4>. QED  BY ONLY a \in Nat, c \in Nat, l \in Nat, j \in 1..(c - a), <1>8, <4>1
    <3>. QED  BY <1>2, <2>3, <3>1
  <2>7. \E q \in DOMAIN ss : c - a < Len(ss[q]) /\ \A j \in 1..(c - a) : u[a + j] = ss[q][j]
    BY <2>4, <2>5, <2>6
  <2>. QED  BY <1>1, <1>2, <1>3, <1>4, <1>6, <1>7, <2>7 DEF CutAt
<1>. QED  BY <1>9, <1>10

Allowed(s, n, t) == t \in StopToken /\ (t = Trail <=> LeadLast(s, n))

\* One more token for a candidate that runs.
LEMMA HeadRuns ==
    ASSUME WholeStops, NEW ss \in Seq(StopSequence), ss = stops, ApartIn(ss),
           NEW s, NEW n, NEW t, NEW u, OneMore(u, s, n, t), Allowed(s, n, t),
           NEW d, NEW pa, NEW he, NEW gi, Running(ss, d, pa, he, gi, s),
           NEW r, NEW pa2, NEW he2, NEW gi2, Decoded(d, pa, he, gi, t, r, pa2, he2, gi2)
    PROVE  Candidate(ss, r, pa2, he2, gi2, u)
<1>1. PICK o, pr, x : o = n + 1 /\ pr = d.progress /\ x = d.max
  OBVIOUS
<1>2. /\ u \in Seq(StopToken) /\ s \in Seq(StopToken) /\ n \in Nat /\ o \in Nat
      /\ Len(s) = n /\ Len(u) = o /\ u[o] = t /\ \A i \in 1..n : u[i] = s[i]
  BY <1>1 DEF OneMore
<1>3. /\ d.found = FALSE /\ FollowsAll(ss, s, n, pr) /\ Longest(ss, pr, x)
      /\ \A m \in 1..n : ~EndsHere(ss, s, m)
      /\ IF LeadLast(s, n) THEN pa = <<Lead>> /\ Told(s, n - 1, gi, he)
         ELSE pa = <<>> /\ Told(s, n, gi, he) /\ Len(he) = x
  BY <1>1, <1>2 DEF Running
<1>4. Trail \notin Plain /\ Lead \notin Plain /\ Lead # Trail
  BY DEF WholeStops
<1>5. r = ProcessToken(d, t)
  BY DEF Decoded
<1>6. DetectorForm(ss, r)
  BY <1>3, <1>5, DetectorFormIs
<1>7. Fields(r) /\ r.found \in BOOLEAN
  BY <1>6 DEF DetectorForm
<1>8. Detected(ss, u, o, t, pr, r)
  <2>1. ~d.found
    BY <1>3
  <2>2. Detected(ss, u, n + 1, t, pr, r)
    BY <1>1, <1>3, <1>5, <2>1, DetectorIs
  <2>. QED  BY <1>1, <2>2
<1>9. \A m \in 1..n : ~EndsHere(ss, u, m)
  <2>. SUFFICES ASSUME NEW m \in 1..n PROVE ~EndsHere(ss, u, m)
    OBVIOUS
  <2>1. m \in 0..n
    BY <1>2
  <2>. QED  BY <1>3, <2>1, EndsHereOld
<1>10. gi \in Seq(StopToken) /\ gi \o <<>> = gi
  <2>1. gi \in Seq(StopToken)
    BY <1>3 DEF Told
  <2>2. PICK T : T = StopToken
    OBVIOUS
  <2>. QED  BY <2>1, <2>2
<1>11. CASE r.found
  <2>1. PICK k \in DOMAIN ss : /\ Ended(u, o, ss[k], Len(ss[k])) /\ r.matched = Len(ss[k])
                               /\ pr[k] + 1 = Len(ss[k]) /\ t \in Plain
    BY <1>8, <1>11 DEF Detected
  <2>2. ~LeadLast(s, n) /\ t # Lead
    BY <1>4, <2>1 DEF Allowed
  <2>3. Told(s, n, gi, he) /\ Len(he) = x
    BY <1>3, <2>2
  <2>4. CutAt(ss, u, gi, o - Len(ss[k]))
    BY <1>1, <1>3, <2>1, <2>3, CutIs
  <2>5. gi2 = gi
    BY <1>10, <1>11 DEF Decoded
  <2>6. StopsAt(ss, u, o, k)
    <3>1. o \in 1..o /\ o - 1 = n
      BY <1>1, <1>2
    <3>. QED  BY <1>2, <1>9, <2>1, <3>1 DEF StopsAt
  <2>7. r.matched = (o - o) + Len(ss[k])
    <3>1. Len(ss[k]) \in Nat
      BY DEF StopSequence
    <3>. QED  BY <1>2, <2>1, <3>1
  <2>8. Stopped(ss, r, gi2, u)
    BY <1>2, <1>7, <1>11, <2>4, <2>5, <2>6, <2>7 DEF Stopped
  <2>. QED  BY <1>7, <2>8 DEF Candidate
<1>12. CASE ~r.found
  <2>1. /\ ~EndsHere(ss, u, o) /\ FollowsAll(ss, u, o, r.progress) /\ Longest(ss, r.progress, r.max)
        /\ r.max > 0 => t \in Plain
        /\ \A m \in Nat : (\A k \in DOMAIN ss : pr[k] <= m) => r.max <= m + 1
    BY <1>8, <1>12 DEF Detected
  <2>2. r.max \in Nat /\ r.max <= x + 1
    <3>1. x \in Nat /\ \A k \in DOMAIN ss : pr[k] <= x
      BY <1>3 DEF Longest
    <3>2. r.max \in Nat
      BY <2>1 DEF Longest
    <3>. QED  BY <2>1, <3>1, <3>2
  <2>3. \A m \in 1..o : ~EndsHere(ss, u, m)
    <3>1. \A m \in 1..o : m = o \/ m \in 1..n
      BY <1>1, <1>2
    <3>. QED  BY <1>9, <2>1, <3>1
  <2>4. r.progress \in Seq(Nat) /\ Len(r.progress) = Len(ss)
    <3>1. PICK f : r.progress = [k \in DOMAIN ss |-> f[k]]
      BY <1>6 DEF DetectorForm
    <3>2. \A k \in DOMAIN ss : r.progress[k] \in Nat
      BY <2>1 DEF FollowsAll, Follows
    <3>3. PICK m \in Nat : m = Len(ss) /\ DOMAIN ss = 1..m
      OBVIOUS
    <3>4. \A k \in 1..m : f[k] \in Nat
      BY <3>1, <3>2, <3>3
    <3>. QED  BY <3>1, <3>3, <3>4
  <2>5. r.found = FALSE
    BY <1>7, <1>12
  <2>6. IF LeadLast(u, o) THEN pa2 = <<Lead>> /\ Told(u, o - 1, gi2, he2)
        ELSE pa2 = <<>> /\ Told(u, o, gi2, he2) /\ Len(he2) = r.max
    <3>1. o > 0 /\ o - 1 = n
      BY <1>1, <1>2
    <3>2. CASE t = Lead
      <4>1. LeadLast(u, o)
        BY <1>2, <3>1, <3>2 DEF LeadLast
      <4>2. ~LeadLast(s, n)
        BY <1>4, <3>2 DEF Allowed
      <4>3. pa = <<>> /\ Told(s, n, gi, he)
        BY <1>3, <4>2
      <4>4. pa2 = <<Lead>> /\ gi2 = gi /\ he2 = he
        BY <1>10, <3>2, <4>3 DEF Decoded
      <4>5. Told(u, n, gi, he)
        <5>1. n \in 0..n
          BY <1>2
        <5>. QED  BY <4>3, <5>1, ToldMore
      <4>. QED  BY <3>1, <4>1, <4>4, <4>5
    <3>3. CASE t # Lead
      <4>1. ~LeadLast(u, o)
        BY <1>2, <3>3 DEF LeadLast
      <4>2. PICK text, h : text = Append(pa, t) /\ h = HoldBack(r, he, text)
        OBVIOUS
      <4>3. pa2 = <<>> /\ he2 = h.held /\ gi2 = gi \o h.given
        BY <1>12, <3>3, <4>2 DEF Decoded
      <4>4. CASE r.max = 0
        <5>1. PICK m \in 0..n : /\ Told(s, m, gi, he) /\ text \in Seq(StopToken)
                                /\ o = m + Len(text) /\ \A j \in 1..Len(text) : text[j] = u[m + j]
          <6>1. CASE LeadLast(s, n)
            <7>1. pa = <<Lead>> /\ Told(s, n - 1, gi, he) /\ n > 0 /\ s[n] = Lead
              BY <1>3, <6>1 DEF LeadLast
            <7>2. Lead \in StopToken /\ t \in StopToken
              BY DEF StopToken, Allowed
            <7>3. PICK T, b : T = StopToken /\ b = <<Lead>>
              OBVIOUS
            <7>4. text \in Seq(T) /\ Len(text) = 2 /\ text[1] = Lead /\ text[2] = t
              <8>1. b \in Seq(T) /\ Len(b) = 1 /\ b[1] = Lead /\ t \in T
                BY <7>2, <7>3
              <8>2. text = Append(b, t) /\ b \in Seq(StopToken) /\ 1 = Len(b)
                BY <4>2, <7>1, <7>3, <8>1
              <8>3. OneMore(text, b, 1, t)
                BY ONLY <7>2, <8>2, OneMoreIs
              <8>4. 1 + 1 = 2 /\ 1 \in 1..1
                OBVIOUS
              <8>. QED  BY <7>3, <8>1, <8>3, <8>4 DEF OneMore
            <7>5. n - 1 \in 0..n /\ o = (n - 1) + 2 /\ (n - 1) + 1 = n /\ (n - 1) + 2 = n + 1 /\ n \in 1..n
              BY <1>1, <1>2, <7>1
            <7>6. ASSUME NEW j \in 1..2 PROVE text[j] = u[(n - 1) + j]
              <8>1. CASE j = 1
                BY <1>2, <7>1, <7>4, <7>5, <8>1
              <8>2. CASE j = 2
                BY <1>1, <1>2, <7>4, <7>5, <8>2
              <8>. QED  BY <8>1, <8>2
            <7>. QED  BY <7>1, <7>3, <7>4, <7>5, <7>6
          <6>2. CASE ~LeadLast(s, n)
            <7>1. pa = <<>> /\ Told(s, n, gi, he)
              BY <1>3, <6>2
            <7>2. text = <<t>>
              BY <4>2, <7>1
            <7>3. t \in StopToken
              BY DEF Allowed
            <7>4. text \in Seq(StopToken) /\ Len(text) = 1 /\ text[1] = t
              BY <7>2, <7>3
            <7>5. n \in 0..n /\ o = n + 1
              BY <1>1, <1>2
            <7>6. \A j \in 1..1 : text[j] = u[n + j]
              BY <1>2, <7>4, <7>5
            <7>. QED  BY <7>1, <7>4, <7>5, <7>6
          <6>. QED  BY <6>1, <6>2
        <5>2. m \in Nat /\ \A j \in 1..m : u[j] = s[j]
          BY <1>2
        <5>3. HoldsNone(u, o, gi, h)
          BY ONLY <4>2, <4>4, <5>1, <5>2, HoldNone
        <5>. QED  BY <4>1, <4>3, <4>4, <5>3 DEF HoldsNone
      <4>5. CASE r.max # 0
        <5>1. t \in Plain
          BY <2>1, <2>2, <4>5
        <5>2. ~LeadLast(s, n)
          BY <1>4, <5>1 DEF Allowed
        <5>3. pa = <<>> /\ Told(s, n, gi, he) /\ Len(he) = x
          BY <1>3, <5>2
        <5>4. text = <<t>>
          BY <4>2, <5>3
        <5>5. t \in StopToken
          BY DEF Allowed
        <5>6. PICK y \in Nat \ {0} : y = r.max /\ y <= Len(he) + 1
          BY <2>2, <4>5, <5>3
        <5>7. u[n + 1] = t
          BY <1>1, <1>2
        <5>8. HoldsSome(u, n + 1, gi, h, y)
          BY ONLY <1>2, <4>2, <5>3, <5>4, <5>5, <5>6, <5>7, HoldSome
        <5>. QED  BY <1>1, <4>1, <4>3, <5>6, <5>8 DEF HoldsSome
      <4>. QED  BY <4>4, <4>5
    <3>. QED  BY <3>2, <3>3
  <2>7. Running(ss, r, pa2, he2, gi2, u)
    BY <1>2, <2>1, <2>3, <2>4, <2>5, <2>6 DEF Running
  <2>. QED  BY <1>7, <2>7 DEF Candidate
<1>. QED  BY <1>7, <1>11, <1>12

\* One more token for a candidate that is stopped.
LEMMA HeadStays ==
    ASSUME NEW ss \in Seq(StopSequence), NEW s, NEW n, NEW t, NEW u, OneMore(u, s, n, t),
           NEW d, NEW pa, NEW he, NEW gi, Fields(d), Stopped(ss, d, gi, s),
           NEW r, NEW pa2, NEW he2, NEW gi2, Decoded(d, pa, he, gi, t, r, pa2, he2, gi2)
    PROVE  Candidate(ss, r, pa2, he2, gi2, u)
<1>1. /\ n \in Nat /\ Len(s) = n /\ Len(u) = n + 1 /\ \A i \in 1..n : u[i] = s[i]
  BY DEF OneMore
<1>2. d.found = TRUE
  BY DEF Stopped
<1>3. PICK m, k : /\ StopsAt(ss, s, m, k) /\ d.matched = (n - m) + Len(ss[k])
                  /\ CutAt(ss, s, gi, m - Len(ss[k]))
  BY <1>1 DEF Stopped
<1>4. r = [d EXCEPT !.matched = @ + 1]
  BY <1>2 DEF Decoded, ProcessToken
<1>5. Fields(r) /\ r.found = TRUE /\ r.matched = d.matched + 1
  BY <1>2, <1>4 DEF Fields
<1>6. PICK c : c = m - Len(ss[k])
  OBVIOUS
<1>7. /\ c \in Nat /\ c <= n /\ gi \in Seq(StopToken) /\ Len(gi) <= c
      /\ \A j \in 1..Len(gi) : gi[j] = s[j]
      /\ \/ Len(gi) = c
         \/ \E a \in DOMAIN ss : /\ c - Len(gi) < Len(ss[a])
                                 /\ \A j \in 1..(c - Len(gi)) : s[Len(gi) + j] = ss[a][j]
  BY <1>1, <1>3, <1>6 DEF CutAt
<1>8. gi2 = gi
  <2>1. PICK T : T = StopToken
    OBVIOUS
  <2>2. gi \o <<>> = gi
    BY <1>7, <2>1
  <2>. QED  BY <1>5, <2>2 DEF Decoded
<1>9. PICK g \in Nat : g = Len(gi)
  BY <1>7
<1>10. CutAt(ss, u, gi, c)
  <2>1. \A j \in 1..g : j \in 1..n
    BY <1>1, <1>7, <1>9
  <2>2. \A j \in 1..g : gi[j] = u[j]
    BY <1>1, <1>7, <1>9, <2>1
  <2>3. c <= n + 1
    BY <1>1, <1>7
  <2>4. \A j \in 1..(c - g) : u[g + j] = s[g + j]
    <3>1. \A j \in 1..(c - g) : g + j \in 1..n
      BY <1>1, <1>7, <1>9
    <3>. QED  BY <1>1, <3>1
  <2>5. g = c \/ \E a \in DOMAIN ss : c - g < Len(ss[a]) /\ \A j \in 1..(c - g) : u[g + j] = ss[a][j]
    <3>1. CASE \E a \in DOMAIN ss : c - g < Len(ss[a]) /\ \A j \in 1..(c - g) : s[g + j] = ss[a][j]
      <4>1. PICK a \in DOMAIN ss : c - g < Len(ss[a]) /\ \A j \in 1..(c - g) : s[g + j] = ss[a][j]
        BY <3>1
      <4>2. \A j \in 1..(c - g) : u[g + j] = ss[a][j]
        BY <2>4, <4>1
      <4>. QED  BY <4>1, <4>2
    <3>2. g = c \/ \E a \in DOMAIN ss : c - g < Len(ss[a]) /\ \A j \in 1..(c - g) : s[g + j] = ss[a][j]
      BY <1>7, <1>9
    <3>. QED  BY <3>1, <3>2
  <2>. QED  BY <1>1, <1>7, <1>9, <2>2, <2>3, <2>5 DEF CutAt
<1>11. /\ m \in 1..n /\ k \in DOMAIN ss /\ Ended(s, m, ss[k], Len(ss[k]))
       /\ \A j \in 1..(m - 1) : ~EndsHere(ss, s, j)
  BY <1>1, <1>3 DEF StopsAt
<1>12. StopsAt(ss, u, m, k)
  <2>1. m \in 0..n /\ m \in 1..(n + 1) /\ \A j \in 1..(m - 1) : j \in 0..n
    BY <1>1, <1>11
  <2>2. Ended(u, m, ss[k], Len(ss[k]))
    BY <1>11, <2>1, EndedOld
  <2>3. \A j \in 1..(m - 1) : ~EndsHere(ss, u, j)
    BY <1>11, <2>1, EndsHereOld
  <2>. QED  BY <1>1, <1>11, <2>1, <2>2, <2>3 DEF StopsAt
<1>13. r.matched = ((n + 1) - m) + Len(ss[k])
  <2>1. PICK l \in Nat : l = Len(ss[k])
    BY <1>11 DEF StopSequence
  <2>2. d.matched = (n - m) + l
    BY <1>3, <2>1
  <2>. QED  BY <1>1, <1>5, <1>11, <2>1, <2>2
<1>14. Stopped(ss, r, gi2, u)
  BY <1>1, <1>5, <1>6, <1>8, <1>10, <1>12, <1>13 DEF Stopped
<1>. QED  BY <1>5, <1>14 DEF Candidate

(***************************************************************************)
(* The invariant.                                                           *)
(***************************************************************************)
OfHeads(h, f) == DOMAIN f = 1..h

\* All candidates have as many tokens; when the stop sequences keep apart, each
\* runs or is stopped.
StopInv ==
    /\ stops \in Seq(StopSequence)
    /\ \E h \in Nat \ {0} :
         /\ OfHeads(h, detector) /\ OfHeads(h, partialIds) /\ OfHeads(h, heldText)
         /\ OfHeads(h, givenText) /\ OfHeads(h, sampledIds)
         /\ \A i \in 1..h : sampledIds[i] \in Seq(StopToken)
                            /\ Len(sampledIds[i]) = Len(sampledIds[1])
         /\ ApartIn(stops) => \A i \in 1..h :
              Candidate(stops, detector[i], partialIds[i], heldText[i], givenText[i], sampledIds[i])

LEMMA StopInvInit == ASSUME WholeStops PROVE StopInit => StopInv
<1>. SUFFICES ASSUME StopInit PROVE StopInv
  OBVIOUS
<1>1. stops = <<>> /\ stops \in Seq(StopSequence)
  BY DEF StopInit
<1>2. PICK h \in DOMAIN MaxStream :
         /\ detector   = [i \in 1..h |-> FreshDetector]
         /\ partialIds = [i \in 1..h |-> <<>>]
         /\ heldText   = [i \in 1..h |-> <<>>]
         /\ givenText  = [i \in 1..h |-> <<>>]
         /\ sampledIds = [i \in 1..h |-> <<>>]
  BY DEF StopInit
<1>3. h \in Nat \ {0}
  <2>1. MaxStream \in Seq(Nat)
    BY DEF WholeStops
  <2>2. PICK m \in Nat : DOMAIN MaxStream = 1..m
    BY <2>1
  <2>. QED  BY <1>2, <2>2
<1>4. /\ OfHeads(h, detector) /\ OfHeads(h, partialIds) /\ OfHeads(h, heldText)
      /\ OfHeads(h, givenText) /\ OfHeads(h, sampledIds)
  BY <1>2 DEF OfHeads
<1>5. \A i \in 1..h : sampledIds[i] = <<>>
  BY <1>2
<1>6. <<>> \in Seq(StopToken) /\ <<>> \in Seq(Single) /\ Len(<<>>) = 0
  OBVIOUS
<1>7. \A i \in 1..h : sampledIds[i] \in Seq(StopToken) /\ Len(sampledIds[i]) = Len(sampledIds[1])
  <2>1. 1 \in 1..h
    BY <1>3
  <2>. QED  BY <1>5, <1>6, <2>1
<1>8. PICK d : d = FreshDetector
  OBVIOUS
<1>9. /\ Fields(d) /\ d.found = FALSE /\ d.max = 0 /\ d.progress = <<>>
  <2>1. DOMAIN stops = {}
    BY <1>1
  <2>2. [k \in DOMAIN stops |-> 0] = <<>>
    BY <2>1
  <2>. QED  BY <1>8, <2>2 DEF FreshDetector, Fields
<1>10. Running(<<>>, d, <<>>, <<>>, <<>>, <<>>)
  <2>1. <<>> \in Seq(Nat) /\ 1..0 = {} /\ DOMAIN <<>> = {}
    OBVIOUS
  <2>2. Told(<<>>, 0, <<>>, <<>>)
    BY <1>6, <2>1 DEF Told
  <2>3. FollowsAll(<<>>, <<>>, 0, <<>>) /\ Longest(<<>>, <<>>, 0)
    BY <2>1 DEF FollowsAll, Longest
  <2>4. ~LeadLast(<<>>, 0)
    BY DEF LeadLast
  <2>. QED  BY <1>6, <1>9, <2>1, <2>2, <2>3, <2>4 DEF Running
<1>11. ASSUME NEW i \in 1..h
       PROVE  Candidate(stops, detector[i], partialIds[i], heldText[i], givenText[i], sampledIds[i])
  <2>1. /\ detector[i] = d /\ partialIds[i] = <<>> /\ heldText[i] = <<>> /\ givenText[i] = <<>>
        /\ sampledIds[i] = <<>>
    BY <1>2, <1>8
  <2>. QED  BY <1>1, <1>9, <1>10, <2>1 DEF Candidate
<1>. QED  BY <1>1, <1>3, <1>4, <1>7, <1>11 DEF StopInv

\* A stop sequence more, for a candidate without a token.
LEMMA HeadAdds ==
    ASSUME NEW ss \in Seq(StopSequence), NEW seq \in StopSequence, NEW ss2, ss2 = Append(ss, seq),
           NEW d, NEW pa, NEW he, NEW gi, NEW s \in Seq(StopToken), Len(s) = 0,
           Candidate(ss, d, pa, he, gi, s), NEW d2, d2 = [d EXCEPT !.progress = Append(@, 0)]
    PROVE  Candidate(ss2, d2, pa, he, gi, s)
<1>1. Fields(d) /\ Running(ss, d, pa, he, gi, s)
  <2>1. ~Stopped(ss, d, gi, s)
    BY DEF Stopped, StopsAt
  <2>. QED  BY <2>1 DEF Candidate
<1>2. PICK n \in Nat : n = Len(ss)
  OBVIOUS
<1>3. PICK V : V = StopSequence
  OBVIOUS
<1>4. /\ ss2 \in Seq(V) /\ Len(ss2) = n + 1 /\ DOMAIN ss2 = 1..(n + 1) /\ DOMAIN ss = 1..n
      /\ ss2[n + 1] = seq /\ \A k \in 1..n : ss2[k] = ss[k]
  BY <1>2, <1>3
<1>5. PICK pr, pr2 : pr = d.progress /\ pr2 = Append(pr, 0)
  OBVIOUS
<1>6. /\ d.found = FALSE /\ pr \in Seq(Nat) /\ Len(pr) = n
      /\ FollowsAll(ss, s, 0, pr) /\ Longest(ss, pr, d.max)
      /\ IF LeadLast(s, 0) THEN pa = <<Lead>> /\ Told(s, 0 - 1, gi, he)
         ELSE pa = <<>> /\ Told(s, 0, gi, he) /\ Len(he) = d.max
  BY <1>1, <1>2, <1>5 DEF Running
<1>7. Fields(d2) /\ d2.found = FALSE /\ d2.max = d.max /\ d2.progress = pr2
  BY <1>1, <1>5, <1>6 DEF Fields
<1>8. /\ pr2 \in Seq(Nat) /\ Len(pr2) = n + 1 /\ pr2[n + 1] = 0 /\ \A k \in 1..n : pr2[k] = pr[k]
  BY <1>5, <1>6
<1>9. Follows(s, 0, seq, 0)
  <2>1. PICK l \in Nat : l = Len(seq) /\ l > 0
    <3>1. seq \in Seq(Plain) /\ seq # <<>>
      BY DEF StopSequence
    <3>. QED  BY <3>1
  <2>2. Ended(s, 0, seq, 0)
    BY <2>1, EndedNone
  <2>3. \A q \in 1..l : ~Ended(s, 0, seq, q)
    BY DEF Ended
  <2>. QED  BY <2>1, <2>2, <2>3 DEF Follows
<1>10. \A k \in 1..(n + 1) : k = n + 1 \/ k \in 1..n
  OBVIOUS
<1>11. FollowsAll(ss2, s, 0, pr2)
  <2>1. \A k \in 1..n : Follows(s, 0, ss2[k], pr2[k])
    BY <1>4, <1>6, <1>8 DEF FollowsAll
  <2>2. Follows(s, 0, ss2[n + 1], pr2[n + 1])
    BY <1>4, <1>8, <1>9
  <2>. QED  BY <1>4, <1>10, <2>1, <2>2 DEF FollowsAll
<1>12. Longest(ss2, pr2, d.max)
  <2>1. /\ d.max \in Nat /\ \A k \in 1..n : pr[k] <= d.max
        /\ d.max = 0 \/ \E k \in 1..n : pr[k] = d.max
    BY <1>4, <1>6 DEF Longest
  <2>2. \A k \in 1..(n + 1) : pr2[k] <= d.max
    BY <1>8, <1>10, <2>1
  <2>3. d.max = 0 \/ \E k \in 1..(n + 1) : pr2[k] = d.max
    <3>1. \A k \in 1..n : k \in 1..(n + 1)
      OBVIOUS
    <3>. QED  BY <1>8, <2>1, <3>1
  <2>. QED  BY <1>4, <2>1, <2>2, <2>3 DEF Longest
<1>13. \A m \in 1..0 : ~EndsHere(ss2, s, m)
  OBVIOUS
<1>14. Running(ss2, d2, pa, he, gi, s)
  BY <1>4, <1>6, <1>7, <1>8, <1>11, <1>12, <1>13 DEF Running
<1>. QED  BY <1>7, <1>14 DEF Candidate

LEMMA ApartBefore ==
    ASSUME NEW ss \in Seq(StopSequence), NEW seq, NEW ss2, ss2 = Append(ss, seq), ApartIn(ss2)
    PROVE  ApartIn(ss)
<1>1. \A k \in DOMAIN ss : k \in DOMAIN ss2 /\ ss2[k] = ss[k]
  OBVIOUS
<1>. QED  BY <1>1 DEF ApartIn

LEMMA AddKeeps ==
    ASSUME WholeStops, StopInv, NEW seq \in StopChoice, AddStopTokenSequence(seq)
    PROVE  StopInv'
<1>1. PICK h \in Nat \ {0} :
         /\ OfHeads(h, detector) /\ OfHeads(h, partialIds) /\ OfHeads(h, heldText)
         /\ OfHeads(h, givenText) /\ OfHeads(h, sampledIds)
         /\ \A i \in 1..h : sampledIds[i] \in Seq(StopToken)
                            /\ Len(sampledIds[i]) = Len(sampledIds[1])
         /\ ApartIn(stops) => \A i \in 1..h :
              Candidate(stops, detector[i], partialIds[i], heldText[i], givenText[i], sampledIds[i])
  BY DEF StopInv
<1>2. stops \in Seq(StopSequence) /\ seq \in StopSequence
  BY DEF StopInv, WholeStops
<1>3. /\ stops' = Append(stops, seq)
      /\ detector' = [i \in DOMAIN detector |->
                        [detector[i] EXCEPT !.progress = Append(@, 0)]]
      /\ partialIds' = partialIds /\ heldText' = heldText /\ givenText' = givenText
      /\ sampledIds' = sampledIds /\ sampledIds[1] = <<>>
  BY DEF AddStopTokenSequence, Started
<1>4. stops' \in Seq(StopSequence)
  <2>1. PICK V : V = StopSequence
    OBVIOUS
  <2>. QED  BY <1>2, <1>3, <2>1
<1>5. ASSUME ApartIn(stops'), NEW i \in 1..h
      PROVE  Candidate(stops', detector'[i], partialIds[i], heldText[i], givenText[i], sampledIds[i])
  <2>1. ApartIn(stops)
    BY <1>2, <1>3, <1>5, ApartBefore
  <2>2. Candidate(stops, detector[i], partialIds[i], heldText[i], givenText[i], sampledIds[i])
    BY <1>1, <2>1
  <2>3. sampledIds[i] \in Seq(StopToken) /\ Len(sampledIds[i]) = 0
    BY <1>1, <1>3
  <2>4. detector'[i] = [detector[i] EXCEPT !.progress = Append(@, 0)]
    BY <1>1, <1>3 DEF OfHeads
  <2>. QED  BY ONLY <1>2, <1>3, <2>2, <2>3, <2>4, HeadAdds
<1>6. OfHeads(h, detector')
  BY <1>1, <1>3 DEF OfHeads
<1>. QED  BY <1>1, <1>3, <1>4, <1>5, <1>6 DEF StopInv

DecodeOf(i, t) ==
    Decoded(detector[i], partialIds[i], heldText[i], givenText[i], t,
            detector'[i], partialIds'[i], heldText'[i], givenText'[i])

LEMMA DecodeIs ==
    ASSUME NEW h, OfHeads(h, detector), NEW tokens, DecodeStep(tokens), NEW i \in 1..h
    PROVE  DecodeOf(i, tokens[i])
<1>1. PICK d : d = [k \in DOMAIN detector |-> ProcessToken(detector[k], tokens[k])]
  OBVIOUS
<1>2. PICK merged : merged = [k \in DOMAIN detector |-> Append(partialIds[k], tokens[k])]
  OBVIOUS
<1>3. PICK out : out = [k \in DOMAIN detector |->
                    IF tokens[k] # Lead /\ ~d[k].found THEN HoldBack(d[k], heldText[k], merged[k])
                    ELSE [held |-> heldText[k], given |-> <<>>]]
  OBVIOUS
<1>4. /\ detector' = d
      /\ partialIds' = [k \in DOMAIN detector |->
                          IF ~(tokens[k] # Lead) THEN merged[k]
                          ELSE IF ~d[k].found THEN <<>> ELSE partialIds[k]]
      /\ heldText'  = [k \in DOMAIN detector |-> out[k].held]
      /\ givenText' = [k \in DOMAIN detector |-> givenText[k] \o out[k].given]
  BY <1>1, <1>2, <1>3 DEF DecodeStep
<1>5. i \in DOMAIN detector
  BY DEF OfHeads
<1>6. PICK t, r, p, e : t = tokens[i] /\ r = d[i] /\ p = merged[i] /\ e = out[i]
  OBVIOUS
<1>7. /\ r = ProcessToken(detector[i], t) /\ p = Append(partialIds[i], t)
      /\ e = IF t # Lead /\ ~r.found THEN HoldBack(r, heldText[i], p)
             ELSE [held |-> heldText[i], given |-> <<>>]
  BY <1>1, <1>2, <1>3, <1>5, <1>6
<1>8. /\ detector'[i] = r /\ heldText'[i] = e.held /\ givenText'[i] = givenText[i] \o e.given
      /\ partialIds'[i] = IF ~(t # Lead) THEN p ELSE IF ~r.found THEN <<>> ELSE partialIds[i]
  BY <1>4, <1>5, <1>6
<1>9. CASE t # Lead /\ ~r.found
  <2>1. e = HoldBack(r, heldText[i], p)
    BY <1>7, <1>9
  <2>. QED  BY <1>6, <1>7, <1>8, <1>9, <2>1 DEF DecodeOf, Decoded
<1>10. CASE ~(t # Lead /\ ~r.found)
  <2>1. e.held = heldText[i] /\ e.given = <<>>
    BY <1>7, <1>10
  <2>. QED  BY <1>6, <1>7, <1>8, <1>10, <2>1 DEF DecodeOf, Decoded
<1>. QED  BY <1>9, <1>10

LEMMA DecodeKeeps ==
    ASSUME WholeStops, StopInv, NEW tokens \in [DOMAIN detector -> Plain \cup {Lead, Trail}],
           \A i \in DOMAIN tokens : tokens[i] \in Drawn(i), DecodeStep(tokens)
    PROVE  StopInv'
<1>1. PICK h \in Nat \ {0} :
         /\ OfHeads(h, detector) /\ OfHeads(h, partialIds) /\ OfHeads(h, heldText)
         /\ OfHeads(h, givenText) /\ OfHeads(h, sampledIds)
         /\ \A i \in 1..h : sampledIds[i] \in Seq(StopToken)
                            /\ Len(sampledIds[i]) = Len(sampledIds[1])
         /\ ApartIn(stops) => \A i \in 1..h :
              Candidate(stops, detector[i], partialIds[i], heldText[i], givenText[i], sampledIds[i])
  BY DEF StopInv
<1>2. stops \in Seq(StopSequence) /\ stops' = stops
  BY DEF StopInv, DecodeStep
<1>3. DOMAIN detector = 1..h /\ DOMAIN tokens = 1..h
  BY <1>1 DEF OfHeads
<1>4. sampledIds' = [i \in 1..h |-> Append(sampledIds[i], tokens[i])]
  BY <1>3 DEF DecodeStep
<1>5. /\ OfHeads(h, detector') /\ OfHeads(h, partialIds') /\ OfHeads(h, heldText')
      /\ OfHeads(h, givenText') /\ OfHeads(h, sampledIds')
  BY <1>3, <1>4 DEF DecodeStep, OfHeads
<1>6. ASSUME NEW i \in 1..h
      PROVE  /\ OneMore(sampledIds'[i], sampledIds[i], Len(sampledIds[i]), tokens[i])
             /\ Allowed(sampledIds[i], Len(sampledIds[i]), tokens[i])
  <2>1. PICK s, n, t, u : s = sampledIds[i] /\ n = Len(s) /\ t = tokens[i] /\ u = Append(s, t)
    OBVIOUS
  <2>2. s \in Seq(StopToken) /\ t \in StopToken /\ n \in Nat
    BY <1>1, <1>3, <2>1 DEF StopToken
  <2>3. OneMore(u, s, n, t)
    BY ONLY <2>1, <2>2, OneMoreIs
  <2>4. t \in Drawn(i)
    BY <1>3, <2>1
  <2>5. (s # <<>>) <=> n > 0
    <3>1. PICK T : T = StopToken
      OBVIOUS
    <3>. QED  BY <2>1, <2>2, <3>1
  <2>6. t \in (IF n > 0 /\ s[n] = Lead THEN {Trail} ELSE Plain \cup {Lead})
    BY <2>1, <2>4, <2>5 DEF Drawn
  <2>7. t = Trail <=> LeadLast(s, n)
    BY <2>6 DEF WholeStops, LeadLast
  <2>8. sampledIds'[i] = u
    BY <1>4, <2>1
  <2>. QED  BY <2>1, <2>2, <2>3, <2>7, <2>8 DEF Allowed
<1>7. ASSUME NEW i \in 1..h
      PROVE  sampledIds'[i] \in Seq(StopToken) /\ Len(sampledIds'[i]) = Len(sampledIds'[1])
  <2>1. 1 \in 1..h
    OBVIOUS
  <2>2. Len(sampledIds[i]) = Len(sampledIds[1])
    BY <1>1
  <2>3. /\ sampledIds'[i] \in Seq(StopToken) /\ Len(sampledIds'[i]) = Len(sampledIds[i]) + 1
        /\ Len(sampledIds'[1]) = Len(sampledIds[1]) + 1
    BY <1>6, <2>1 DEF OneMore
  <2>. QED  BY <2>2, <2>3
<1>8. ASSUME ApartIn(stops), NEW i \in 1..h
      PROVE  Candidate(stops, detector'[i], partialIds'[i], heldText'[i], givenText'[i],
                       sampledIds'[i])
  <2>1. PICK ss : ss = stops
    OBVIOUS
  <2>2. PICK s, n, t, u : s = sampledIds[i] /\ n = Len(s) /\ t = tokens[i] /\ u = sampledIds'[i]
    OBVIOUS
  <2>3. PICK d, pa, he, gi : d = detector[i] /\ pa = partialIds[i] /\ he = heldText[i] /\ gi = givenText[i]
    OBVIOUS
  <2>4. PICK r, pa2, he2, gi2 : /\ r = detector'[i] /\ pa2 = partialIds'[i]
                                /\ he2 = heldText'[i] /\ gi2 = givenText'[i]
    OBVIOUS
  <2>5. Decoded(d, pa, he, gi, t, r, pa2, he2, gi2)
    <3>1. DecodeOf(i, tokens[i])
      BY <1>1, DecodeIs
    <3>. QED  BY <2>2, <2>3, <2>4, <3>1 DEF DecodeOf
  <2>6. OneMore(u, s, n, t) /\ Allowed(s, n, t)
    BY <1>6, <2>2
  <2>7. ss \in Seq(StopSequence) /\ ApartIn(ss)
    BY <1>2, <1>8, <2>1
  <2>8. Candidate(ss, d, pa, he, gi, s)
    BY <1>1, <1>8, <2>1, <2>2, <2>3
  <2>9. Candidate(ss, r, pa2, he2, gi2, u)
    <3>1. CASE Running(ss, d, pa, he, gi, s)
      BY ONLY WholeStops, <2>1, <2>5, <2>6, <2>7, <3>1, HeadRuns
    <3>2. CASE Stopped(ss, d, gi, s)
      <4>1. Fields(d)
        BY <2>8 DEF Candidate
      <4>. QED  BY ONLY <2>5, <2>6, <2>7, <3>2, <4>1, HeadStays
    <3>. QED  BY <2>8, <3>1, <3>2 DEF Candidate
  <2>. QED  BY <2>1, <2>2, <2>4, <2>9
<1>. QED  BY <1>2, <1>5, <1>7, <1>8 DEF StopInv

(***************************************************************************)
(* The invariant says how the text is cut.                                  *)
(***************************************************************************)
LEMMA EndsAtIs ==
    ASSUME NEW ss \in Seq(StopSequence), ss = stops, NEW s \in Seq(StopToken),
           NEW n \in 1..Len(s), NEW k
    PROVE  k \in EndsAt(s, n) <=> k \in DOMAIN ss /\ Ended(s, n, ss[k], Len(ss[k]))
<1>1. k \in EndsAt(s, n) <=> /\ k \in DOMAIN ss /\ Len(ss[k]) <= n
                             /\ SubSeq(s, n - Len(ss[k]) + 1, n) = ss[k]
  BY DEF EndsAt
<1>2. ASSUME k \in DOMAIN ss
      PROVE  (Len(ss[k]) <= n /\ SubSeq(s, n - Len(ss[k]) + 1, n) = ss[k])
             <=> Ended(s, n, ss[k], Len(ss[k]))
  <2>1. PICK e, l : e = ss[k] /\ l = Len(e)
    OBVIOUS
  <2>2. e \in Seq(Plain) /\ l \in Nat
    BY <1>2, <2>1 DEF StopSequence
  <2>3. n \in Nat /\ n <= Len(s) /\ Len(s) \in Nat
    OBVIOUS
  <2>4. ASSUME l <= n PROVE SubSeq(s, n - l + 1, n) = e <=> \A j \in 1..l : s[n - l + j] = e[j]
    <3>1. PICK T, v : T = StopToken /\ v = SubSeq(s, n - l + 1, n)
      OBVIOUS
    <3>2. PICK b \in Nat : b = n - l
      BY <2>2, <2>3, <2>4
    <3>3. s \in Seq(T) /\ v = SubSeq(s, b + 1, b + l) /\ b + l <= Len(s)
      BY <2>2, <2>3, <3>1, <3>2
    <3>4. v \in Seq(T) /\ Len(v) = l /\ \A j \in 1..l : v[j] = s[b + j]
      BY <2>2, <2>3, <3>2, <3>3
    <3>5. v = e <=> \A j \in 1..l : v[j] = e[j]
      <4>1. v = [j \in 1..l |-> v[j]]
        BY <3>4
      <4>2. e = [j \in 1..l |-> e[j]]
        BY <2>1, <2>2
      <4>. QED  BY <4>1, <4>2
    <3>. QED  BY <3>1, <3>2, <3>4, <3>5
  <2>5. Ended(s, n, e, l) <=> l <= n /\ \A j \in 1..l : s[n - l + j] = e[j]
    <3>1. l <= n <=> l \in 0..n
      BY <2>2, <2>3
    <3>2. l <= Len(e)
      BY <2>1, <2>2
    <3>. QED  BY <3>1, <3>2 DEF Ended
  <2>. QED  BY <2>1, <2>4, <2>5
<1>. QED  BY <1>1, <1>2

LEMMA EndsAtSome ==
    ASSUME NEW ss \in Seq(StopSequence), ss = stops, NEW s \in Seq(StopToken), NEW n \in 1..Len(s)
    PROVE  EndsAt(s, n) # {} <=> EndsHere(ss, s, n)
<1>1. \A k : k \in EndsAt(s, n) <=> k \in DOMAIN ss /\ Ended(s, n, ss[k], Len(ss[k]))
  BY EndsAtIs
<1>. QED  BY <1>1 DEF EndsHere

\* What StopIsCut says of one candidate.
CutRight(d, pa, he, gi, s) ==
    LET ends == {n \in DOMAIN s : EndsAt(s, n) # {}}
        n    == Smallest(ends)
        cut  == n - Len(stops[CHOOSE k \in EndsAt(s, n) : TRUE])
        text == SubSeq(s, 1, IF ends = {} THEN Len(s) - Len(pa) ELSE cut)
        kept == Len(gi)
    IN /\ d.found = (ends # {})
       /\ ends # {} => d.matched = Len(s) - cut
       /\ gi = SubSeq(text, 1, kept)
       /\ ends = {} => text = gi \o Flat(he)
       /\ pa = <<>> => Beginning(SubSeq(text, kept + 1, Len(text)))

\* A sequence that agrees with the beginning of another one.
LEMMA FrontIs ==
    ASSUME NEW T, NEW s \in Seq(T), NEW c \in Nat, c <= Len(s), NEW v, v = SubSeq(s, 1, c)
    PROVE  v \in Seq(T) /\ Len(v) = c /\ \A j \in 1..c : v[j] = s[j]
  OBVIOUS

FrontOf(v, c, g, gi) == gi = SubSeq(v, 1, g)

LEMMA FrontGiven ==
    ASSUME NEW T, NEW v \in Seq(T), NEW gi \in Seq(T), NEW c \in Nat, c = Len(v),
           NEW g \in Nat, g = Len(gi), g <= c, \A j \in 1..g : gi[j] = v[j]
    PROVE  FrontOf(v, c, g, gi)
<1>1. PICK w : w = SubSeq(v, 1, g)
  OBVIOUS
<1>2. w \in Seq(T) /\ Len(w) = g /\ \A j \in 1..g : w[j] = v[j]
  BY <1>1, FrontIs
<1>3. w = [j \in 1..g |-> w[j]] /\ gi = [j \in 1..g |-> gi[j]]
  BY <1>2
<1>. QED  BY <1>1, <1>2, <1>3 DEF FrontOf

\* The rest of a text is what a stop sequence begins with.
LEMMA RestBegins ==
    ASSUME NEW ss \in Seq(StopSequence), ss = stops, NEW T, NEW v \in Seq(T),
           NEW c \in Nat, c = Len(v), NEW g \in Nat, g <= c,
           \/ g = c
           \/ \E a \in DOMAIN ss : /\ c - g < Len(ss[a]) /\ \A j \in 1..(c - g) : v[g + j] = ss[a][j]
    PROVE  Beginning(SubSeq(v, g + 1, c))
<1>1. PICK w, l : w = SubSeq(v, g + 1, c) /\ l = c - g
  OBVIOUS
<1>2. l \in Nat /\ g + l = c
  BY <1>1
<1>3. w \in Seq(T) /\ Len(w) = l /\ \A j \in 1..l : w[j] = v[g + j]
  BY <1>1, <1>2
<1>4. CASE g = c
  <2>1. w = <<>>
    BY <1>1, <1>3, <1>4
  <2>. QED  BY <1>1, <2>1 DEF Beginning
<1>5. CASE \E a \in DOMAIN ss : c - g < Len(ss[a]) /\ \A j \in 1..(c - g) : v[g + j] = ss[a][j]
  <2>1. PICK a \in DOMAIN ss : l < Len(ss[a]) /\ \A j \in 1..l : v[g + j] = ss[a][j]
    BY <1>1, <1>5
  <2>2. PICK e, m : e = ss[a] /\ m = Len(e)
    OBVIOUS
  <2>3. e \in Seq(Plain) /\ m \in Nat /\ l <= m
    BY <1>2, <2>1, <2>2 DEF StopSequence
  <2>4. PICK x : x = SubSeq(e, 1, l)
    OBVIOUS
  <2>5. x \in Seq(Plain) /\ Len(x) = l /\ \A j \in 1..l : x[j] = e[j]
    BY <1>2, <2>2, <2>3, <2>4, FrontIs
  <2>6. w = [j \in 1..l |-> w[j]] /\ x = [j \in 1..l |-> x[j]]
    BY <1>3, <2>5
  <2>7. w = x
    BY <1>3, <2>1, <2>2, <2>5, <2>6
  <2>. QED  BY <1>1, <1>3, <2>1, <2>2, <2>4, <2>7 DEF Beginning
<1>. QED  BY <1>4, <1>5

LEMMA RunningRight ==
    ASSUME NEW ss \in Seq(StopSequence), ss = stops, NEW s \in Seq(StopToken),
           NEW d, NEW pa, NEW he, NEW gi, Running(ss, d, pa, he, gi, s)
    PROVE  CutRight(d, pa, he, gi, s)
<1>1. PICK n \in Nat : n = Len(s) /\ DOMAIN s = 1..n
  OBVIOUS
<1>2. /\ d.found = FALSE /\ FollowsAll(ss, s, n, d.progress) /\ Longest(ss, d.progress, d.max)
      /\ \A m \in 1..n : ~EndsHere(ss, s, m)
      /\ IF LeadLast(s, n) THEN pa = <<Lead>> /\ Told(s, n - 1, gi, he)
         ELSE pa = <<>> /\ Told(s, n, gi, he) /\ Len(he) = d.max
  BY <1>1 DEF Running
<1>3. PICK ends : ends = {m \in DOMAIN s : EndsAt(s, m) # {}}
  OBVIOUS
<1>4. ends = {}
  <2>1. \A m \in 1..n : EndsAt(s, m) = {}
    BY <1>1, <1>2, EndsAtSome
  <2>. QED  BY <1>1, <1>3, <2>1
<1>5. PICK c \in 0..n : c = n - Len(pa) /\ Told(s, c, gi, he)
  <2>1. CASE LeadLast(s, n)
    <3>1. Len(pa) = 1 /\ Told(s, n - 1, gi, he)
      BY <1>2, <2>1
    <3>2. n - 1 \in 0..n
      BY <1>1, <2>1 DEF LeadLast
    <3>. QED  BY <3>1, <3>2
  <2>2. CASE ~LeadLast(s, n)
    <3>1. Len(pa) = 0 /\ Told(s, n, gi, he)
      BY <1>2, <2>2
    <3>2. n \in 0..n /\ n - 0 = n
      BY <1>1
    <3>. QED  BY <3>1, <3>2
  <2>. QED  BY <2>1, <2>2
<1>6. PICK T, W : T = StopToken /\ W = Single
  OBVIOUS
<1>7. PICK g, l \in Nat : g = Len(gi) /\ l = Len(he)
  BY <1>5 DEF Told
<1>8. /\ gi \in Seq(T) /\ he \in Seq(W) /\ g + l = c
      /\ \A j \in 1..g : gi[j] = s[j]
      /\ \A j \in 1..l : he[j] = <<s[g + j]>>
  BY <1>5, <1>6, <1>7 DEF Told
<1>9. c \in Nat /\ c <= n /\ g <= c
  <2>1. g + l = c
    BY <1>8
  <2>. QED  BY <1>1, <1>5, <1>7, <2>1
<1>10. PICK text : text = SubSeq(s, 1, c)
  OBVIOUS
<1>11. text \in Seq(T) /\ Len(text) = c /\ \A j \in 1..c : text[j] = s[j]
  BY <1>1, <1>6, <1>9, <1>10, FrontIs
<1>12. gi = SubSeq(text, 1, g)
  <2>1. \A j \in 1..g : gi[j] = text[j]
    <3>1. \A j \in 1..g : j \in 1..c
      BY <1>9
    <3>. QED  BY <1>8, <1>11, <3>1
  <2>2. FrontOf(text, c, g, gi)
    BY <1>7, <1>8, <1>9, <1>11, <2>1, FrontGiven
  <2>. QED  BY <2>2 DEF FrontOf
<1>13. text = gi \o Flat(he)
  <2>1. PICK f, o : f = Flat(he) /\ o = gi \o f
    OBVIOUS
  <2>2. f \in Seq(T) /\ Len(f) = l /\ \A j \in 1..l : he[j] = <<f[j]>>
    <3>1. Flattened(he, f)
      BY <1>6, <1>8, <2>1, FlatIs
    <3>. QED  BY <1>6, <1>7, <3>1 DEF Flattened
  <2>3. \A j \in 1..l : f[j] = s[g + j]
    <3>. SUFFICES ASSUME NEW j \in 1..l PROVE f[j] = s[g + j]
      OBVIOUS
    <3>1. <<f[j]>> = <<s[g + j]>>
      BY <1>8, <2>2
    <3>. QED  BY <3>1
  <2>4. Joined(T, gi, g, f, l, o)
    BY ONLY g \in Nat, l \in Nat, <1>7, <1>8, <2>1, <2>2, JoinIs
  <2>5. /\ o \in Seq(T) /\ Len(o) = c /\ (\A j \in 1..g : o[j] = gi[j])
        /\ \A j \in 1..l : o[g + j] = f[j]
    <3>1. g + l = c
      BY <1>8
    <3>. QED  BY <2>4, <3>1 DEF Joined
  <2>6. ASSUME NEW j \in 1..c PROVE o[j] = text[j]
    <3>1. CASE j \in 1..g
      BY <1>8, <1>11, <2>5, <3>1
    <3>2. CASE j \notin 1..g
      <4>1. PICK i \in 1..l : j = g + i
        <5>1. g + l = c
          BY <1>8
        <5>2. j - g \in 1..l /\ j = g + (j - g)
          BY ONLY g \in Nat, l \in Nat, c \in Nat, j \in 1..c, <3>2, <5>1
        <5>. QED  BY <5>2
      <4>. QED  BY <1>11, <2>3, <2>5, <4>1
    <3>. QED  BY <3>1, <3>2
  <2>7. o = [j \in 1..c |-> o[j]] /\ text = [j \in 1..c |-> text[j]]
    BY <1>11, <2>5
  <2>. QED  BY <2>1, <2>6, <2>7
<1>14. ASSUME pa = <<>> PROVE Beginning(SubSeq(text, g + 1, c))
  <2>1. ~LeadLast(s, n)
    <3>1. <<Lead>> # <<>>
      OBVIOUS
    <3>. QED  BY <1>2, <1>14, <3>1
  <2>2. c = n /\ d.max = l
    <3>1. Len(pa) = 0
      BY <1>14
    <3>. QED  BY <1>1, <1>2, <1>5, <1>7, <2>1, <3>1
  <2>3. g = c \/ \E a \in DOMAIN ss : c - g < Len(ss[a]) /\ \A j \in 1..(c - g) : text[g + j] = ss[a][j]
    <3>1. l = 0 \/ \E a \in DOMAIN ss : d.progress[a] = l
      BY <1>2, <2>2 DEF Longest
    <3>2. CASE l = 0
      BY <1>8, <3>2
    <3>3. CASE \E a \in DOMAIN ss : d.progress[a] = l
      <4>1. PICK a \in DOMAIN ss : d.progress[a] = l
        BY <3>3
      <4>2. l < Len(ss[a]) /\ Ended(s, n, ss[a], l)
        BY <1>2, <4>1 DEF FollowsAll, Follows
      <4>3. \A j \in 1..l : s[n - l + j] = ss[a][j]
        BY <4>2 DEF Ended
      <4>4. g + l = c
        BY <1>8
      <4>5. c - g = l /\ n - l = g
        BY <2>2, <4>4
      <4>6. \A j \in 1..l : g + j \in 1..c /\ n - l + j = g + j
        BY ONLY g \in Nat, l \in Nat, c \in Nat, n \in Nat, <2>2, <4>4
      <4>7. \A j \in 1..l : text[g + j] = ss[a][j]
        BY <1>11, <4>3, <4>6
      <4>. QED  BY <4>2, <4>5, <4>7
    <3>. QED  BY <3>1, <3>2, <3>3
  <2>. QED  BY <1>7, <1>9, <1>11, <2>3, RestBegins
<1>15. text = SubSeq(s, 1, Len(s) - Len(pa))
  BY <1>1, <1>5, <1>10
<1>. QED  BY <1>2, <1>3, <1>4, <1>7, <1>11, <1>12, <1>13, <1>14, <1>15 DEF CutRight

LEMMA StoppedRight ==
    ASSUME NEW ss \in Seq(StopSequence), ss = stops, ApartIn(ss), NEW s \in Seq(StopToken),
           NEW d, NEW pa, NEW he, NEW gi, Stopped(ss, d, gi, s)
    PROVE  CutRight(d, pa, he, gi, s)
<1>1. PICK n \in Nat : n = Len(s) /\ DOMAIN s = 1..n
  OBVIOUS
<1>2. PICK m, k : /\ StopsAt(ss, s, m, k) /\ d.matched = (n - m) + Len(ss[k])
                  /\ CutAt(ss, s, gi, m - Len(ss[k])) /\ d.found = TRUE
  BY <1>1 DEF Stopped
<1>3. /\ m \in 1..n /\ k \in DOMAIN ss /\ Ended(s, m, ss[k], Len(ss[k]))
      /\ \A j \in 1..(m - 1) : ~EndsHere(ss, s, j)
  BY <1>1, <1>2 DEF StopsAt
<1>4. PICK ends : ends = {j \in DOMAIN s : EndsAt(s, j) # {}}
  OBVIOUS
<1>5. \A j \in 1..n : j \in ends <=> EndsHere(ss, s, j)
  BY <1>1, <1>4, EndsAtSome
<1>6. m \in ends /\ \A j \in ends : m <= j
  <2>1. m \in ends
    BY <1>3, <1>5 DEF EndsHere
  <2>2. ASSUME NEW j \in ends PROVE m <= j
    <3>1. j \in 1..n /\ EndsHere(ss, s, j)
      BY <1>1, <1>4, <1>5
    <3>2. j \notin 1..(m - 1)
      BY <1>3, <3>1
    <3>. QED  BY <1>1, <1>3, <3>1, <3>2
  <2>. QED  BY <2>1, <2>2
<1>7. Smallest(ends) = m
  <2>1. ends \subseteq 1..n
    BY <1>1, <1>4
  <2>2. ASSUME NEW x \in ends, \A y \in ends : x <= y PROVE x = m
    <3>1. x <= m /\ m <= x /\ x \in Int /\ m \in Int
      BY <1>1, <1>3, <1>6, <2>1, <2>2
    <3>. QED  BY <3>1
  <2>3. PICK x : x = Smallest(ends)
    OBVIOUS
  <2>4. x \in ends /\ \A y \in ends : x <= y
    BY <1>6, <2>3 DEF Smallest
  <2>. QED  BY <2>2, <2>3, <2>4
<1>8. PICK q : q = CHOOSE i \in EndsAt(s, m) : TRUE
  OBVIOUS
<1>9. q \in DOMAIN ss /\ Ended(s, m, ss[q], Len(ss[q]))
  <2>1. EndsAt(s, m) # {}
    BY <1>4, <1>6
  <2>2. q \in EndsAt(s, m)
    BY <1>8, <2>1
  <2>3. m \in 1..Len(s)
    BY <1>1, <1>3
  <2>. QED  BY <2>2, <2>3, EndsAtIs
<1>10. Len(ss[q]) = Len(ss[k])
  <2>1. m \in Nat
    BY <1>1, <1>3
  <2>2. Len(ss[q]) <= Len(ss[k]) /\ Len(ss[k]) <= Len(ss[q])
    BY <1>3, <1>9, <2>1, SameLength
  <2>3. Len(ss[q]) \in Nat /\ Len(ss[k]) \in Nat
    BY <1>3, <1>9 DEF StopSequence
  <2>. QED  BY <2>2, <2>3
<1>11. PICK c, l : c = m - l /\ l = Len(ss[k])
  OBVIOUS
<1>12. /\ c \in Nat /\ c <= n /\ gi \in Seq(StopToken) /\ Len(gi) <= c
       /\ \A j \in 1..Len(gi) : gi[j] = s[j]
       /\ \/ Len(gi) = c
          \/ \E a \in DOMAIN ss : /\ c - Len(gi) < Len(ss[a])
                                  /\ \A j \in 1..(c - Len(gi)) : s[Len(gi) + j] = ss[a][j]
  BY <1>1, <1>2, <1>11 DEF CutAt
<1>13. d.matched = n - c
  <2>1. l \in Nat
    BY <1>3, <1>11 DEF StopSequence
  <2>. QED  BY <1>1, <1>2, <1>3, <1>11, <2>1
<1>14. PICK g \in Nat : g = Len(gi)
  BY <1>12
<1>15. PICK T, text : T = StopToken /\ text = SubSeq(s, 1, c)
  OBVIOUS
<1>16. text \in Seq(T) /\ Len(text) = c /\ \A j \in 1..c : text[j] = s[j]
  BY <1>1, <1>12, <1>15, FrontIs
<1>17. gi = SubSeq(text, 1, g)
  <2>1. \A j \in 1..g : gi[j] = text[j]
    <3>1. \A j \in 1..g : j \in 1..c
      BY <1>12, <1>14
    <3>. QED  BY <1>12, <1>14, <1>16, <3>1
  <2>2. gi \in Seq(T) /\ g <= c
    BY <1>12, <1>14, <1>15
  <2>3. FrontOf(text, c, g, gi)
    BY <1>12, <1>14, <1>16, <2>1, <2>2, FrontGiven
  <2>. QED  BY <2>3 DEF FrontOf
<1>18. Beginning(SubSeq(text, g + 1, c))
  <2>1. ASSUME NEW a \in DOMAIN ss, c - g < Len(ss[a]), \A j \in 1..(c - g) : s[g + j] = ss[a][j]
        PROVE  \A j \in 1..(c - g) : text[g + j] = ss[a][j]
    <3>1. \A j \in 1..(c - g) : g + j \in 1..c
      BY <1>12, <1>14
    <3>. QED  BY <1>16, <2>1, <3>1
  <2>2. g = c \/ \E a \in DOMAIN ss : c - g < Len(ss[a]) /\ \A j \in 1..(c - g) : s[g + j] = ss[a][j]
    BY <1>12, <1>14
  <2>3. g = c \/ \E a \in DOMAIN ss : c - g < Len(ss[a]) /\ \A j \in 1..(c - g) : text[g + j] = ss[a][j]
    <3>1. CASE g = c
      BY <3>1
    <3>2. CASE \E a \in DOMAIN ss : c - g < Len(ss[a]) /\ \A j \in 1..(c - g) : s[g + j] = ss[a][j]
      <4>1. PICK a \in DOMAIN ss : c - g < Len(ss[a]) /\ \A j \in 1..(c - g) : s[g + j] = ss[a][j]
        BY <3>2
      <4>2. \A j \in 1..(c - g) : text[g + j] = ss[a][j]
        BY <2>1, <4>1
      <4>. QED  BY <4>1, <4>2
    <3>. QED  BY <2>2, <3>1, <3>2
  <2>4. g <= c
    BY <1>12, <1>14
  <2>. QED  BY <1>12, <1>16, <2>3, <2>4, RestBegins
<1>19. m - Len(stops[q]) = c /\ ends # {}
  BY <1>6, <1>10, <1>11
<1>. QED  BY <1>1, <1>2, <1>4, <1>7, <1>8, <1>13, <1>14, <1>15, <1>16, <1>17, <1>18, <1>19 DEF CutRight

LEMMA StopInvCut == StopInv => StopIsCut
<1>. SUFFICES ASSUME StopInv PROVE StopIsCut
  OBVIOUS
<1>1. PICK h \in Nat \ {0} :
         /\ OfHeads(h, sampledIds)
         /\ \A i \in 1..h : sampledIds[i] \in Seq(StopToken)
         /\ ApartIn(stops) => \A i \in 1..h :
              Candidate(stops, detector[i], partialIds[i], heldText[i], givenText[i], sampledIds[i])
  BY DEF StopInv
<1>2. stops \in Seq(StopSequence)
  BY DEF StopInv
<1>3. Apart <=> ApartIn(stops)
  BY DEF Apart, ApartIn
<1>4. ASSUME Apart, NEW i \in DOMAIN sampledIds
      PROVE  CutRight(detector[i], partialIds[i], heldText[i], givenText[i], sampledIds[i])
  <2>1. i \in 1..h
    BY <1>1 DEF OfHeads
  <2>2. PICK ss, s, d, pa, he, gi : /\ ss = stops /\ s = sampledIds[i] /\ d = detector[i]
                                    /\ pa = partialIds[i] /\ he = heldText[i] /\ gi = givenText[i]
    OBVIOUS
  <2>3. /\ ss \in Seq(StopSequence) /\ ApartIn(ss) /\ s \in Seq(StopToken)
        /\ Candidate(ss, d, pa, he, gi, s)
    BY <1>1, <1>2, <1>3, <1>4, <2>1, <2>2
  <2>4. CutRight(d, pa, he, gi, s)
    <3>1. CASE Running(ss, d, pa, he, gi, s)
      BY ONLY <2>2, <2>3, <3>1, RunningRight
    <3>2. CASE Stopped(ss, d, gi, s)
      BY ONLY <2>2, <2>3, <3>2, StoppedRight
    <3>. QED  BY <2>3, <3>1, <3>2 DEF Candidate
  <2>. QED  BY <2>2, <2>4
<1>. QED  BY <1>4 DEF StopIsCut, CutRight

\* For any stop sequences that keep apart, any number of candidates and tokens: the
\* detector stops at the first of them and counts from there, and the caller is given
\* the text before it, with never more held back than a stop sequence begins with.
\* (stop_token_detector.cc, tasks.cc)
THEOREM TextsAreCut ==
    ASSUME WholeStops
    PROVE  StopSpec => []StopIsCut
<1>1. StopInit => StopInv
  BY StopInvInit
<1>2. ASSUME StopInv, [StopNext]_stopVars PROVE StopInv'
  <2>1. ASSUME NEW seq \in StopChoice, AddStopTokenSequence(seq) PROVE StopInv'
    BY <1>2, <2>1, AddKeeps
  <2>2. ASSUME NEW tokens \in [DOMAIN detector -> Plain \cup {Lead, Trail}],
               \A i \in DOMAIN tokens : tokens[i] \in Drawn(i), DecodeStep(tokens)
        PROVE  StopInv'
    BY <1>2, <2>2, DecodeKeeps
  <2>3. CASE UNCHANGED stopVars
    BY <1>2, <2>3 DEF stopVars, StopInv
  <2>. QED  BY <1>2, <2>1, <2>2, <2>3 DEF StopNext
<1>3. StopInv => StopIsCut
  BY StopInvCut
<1>. QED  BY <1>1, <1>2, <1>3, PTL DEF StopSpec
=============================================================================
