-------------------------- MODULE SessionBasicProofs --------------------------
(***************************************************************************)
(* The session keeps the executor sound: whatever is called in whatever     *)
(* order, the cache holds the tokens and the dynamic executor has room.     *)
(*                                                                          *)
(* LlmExecutorProofs says what each operation of the executor makes of a    *)
(* sound executor; some of them need more than that, a token pending or a   *)
(* step that is not past the tokens.  What is shown here is that each turn  *)
(* finds what it needs, whoever has queued it and whatever ran before.      *)
(* The predicates are over values, so that the lemmas are about one state.  *)
(***************************************************************************)
EXTENDS SessionBasic, LlmExecutorProofs, FiniteSetTheorems

(***************************************************************************)
(* The invariant.                                                           *)
(***************************************************************************)
SoundExec(c, e) == Sound(c, e, GetStep(e.tokens), Len(e.tokens[1].pending))

\* What is queued: a call that has not begun.
TurnSet ==
    [kind : {"prefill", "decode", "score"}, sync : {FALSE}, pc : {"run"},
     ids : Seq(Int), generate : BOOLEAN, given : {<<>>}, found : {{}},
     start : {0}, told : {<<>>}]

IsRecord(j) ==
    j = [kind |-> j.kind, sync |-> j.sync, pc |-> j.pc, ids |-> j.ids,
         generate |-> j.generate, given |-> j.given, found |-> j.found,
         start |-> j.start, told |-> j.told]

IsJob(j) ==
    /\ IsRecord(j)
    /\ j.sync \in BOOLEAN /\ j.generate \in BOOLEAN /\ j.ids \in Seq(Int)
    /\ \/ j = Idle
       \/ j.kind = "prefill" /\ j.pc \in {"run", "report", "next"}
       \/ j.kind = "decode" /\ j.pc \in {"run", "loop", "finish"}
       \/ j.kind = "score" /\ j.pc \in {"run", "loop"}
    /\ j.pc = "next" => j.generate

\* A prompt fits, and is no single token for the dynamic executor.
Fits(c, t) ==
    /\ t.kind = "prefill" => /\ t.ids # <<>> /\ Len(t.ids) < MaxTokens
                             /\ c.dynamic => Len(t.ids) >= 2
    /\ t.kind = "score" => c.heads = 1

Turns(c, j, qu) ==
    /\ IsJob(j) /\ Fits(c, j)
    /\ qu \in Seq(TurnSet) /\ \A i \in 1..Len(qu) : Fits(c, qu[i])

\* A turn that needs the token a prefill has left pending.
Needs(c, t) ==
    \/ t.kind = "score"
    \/ t.kind = "decode" /\ (c.sampler = "external" \/ c.heads # 1)

PrefillOrReady(e, j) == j.kind = "prefill" \/ (j = Idle /\ Ready(e))

\* A prefill comes right before every turn that needs one; `asked' says that
\* one has been called for that no decode or scoring has used.
Prompted(c, e, asked, j, qu) ==
    /\ \A i \in 1..Len(qu) : Needs(c, qu[i]) =>
         IF i = 1 THEN PrefillOrReady(e, j) ELSE qu[i - 1].kind = "prefill"
    /\ asked => IF qu = <<>> THEN PrefillOrReady(e, j) ELSE qu[Len(qu)].kind = "prefill"
    /\ Needs(c, j) /\ j.pc = "run" => Ready(e)
    /\ j.kind = "prefill" /\ j.pc # "run" => Ready(e)

\* Nothing comes behind a scoring, a stream or a synchronous call.
NothingBehind(asked, j, qu) ==
    /\ j.kind = "score" \/ j.generate \/ j.sync => qu = <<>>
    /\ \A i \in 1..Len(qu) : qu[i].kind = "score" \/ qu[i].generate => i = Len(qu)
    /\ j.generate => ~asked
    /\ \A i \in 1..Len(qu) : qu[i].generate => ~asked

\* What a turn that is under way has left of the executor.
UnderWay(c, e, j) ==
    /\ j.kind = "decode" /\ j.pc # "run" =>
         /\ c.sampler = "external" =>
              /\ j.given \in Seq(Int) /\ Len(j.given) = c.heads
              /\ \/ Ready(e) /\ j.pc = "loop"
                 \/ Past(e) /\ j.given[1] \in Nat
         /\ c.sampler # "external" /\ c.heads # 1 => e.step = TokenCount(e.tokens)
    /\ j.kind = "score" /\ j.pc = "loop" =>
         Past(e) /\ j.given \in Seq(Int) /\ Len(j.given) = 1

\* Who may find the step past the tokens: the turn that has put it there.
PastOnlyFor(c, e, j, qu) ==
    Past(e) =>
      \/ j = Idle /\ qu = <<>>
      \/ j.kind = "score" /\ j.pc = "loop"
      \/ j.kind = "decode" /\ j.pc # "run" /\ c.sampler = "external"

ValuesInv ==
    /\ conf \in Configs /\ lastId \in Int
    /\ phase \in {"fresh", "prefilled", "decoded"}
    /\ saved \in [Label -> Nat \cup {-1}]
    /\ open \in BOOLEAN /\ prompted \in BOOLEAN

ExecInv   == SoundExec(conf, exec)
TurnsInv  == Turns(conf, job, queue)
PromptInv == Prompted(conf, exec, open /\ prompted, job, queue)
LastInv   == NothingBehind(open /\ prompted, job, queue)
LoopInv   == UnderWay(conf, exec, job)
PastInv   == PastOnlyFor(conf, exec, job, queue)

IInv == ValuesInv /\ ExecInv /\ TurnsInv /\ PromptInv /\ LastInv /\ LoopInv /\ PastInv

(***************************************************************************)
(* The queue.                                                               *)
(***************************************************************************)
LEMMA IdleIs ==
    /\ IsRecord(Idle) /\ Idle.kind = "none" /\ Idle.pc = "end" /\ Idle.sync = FALSE
    /\ Idle.generate = FALSE /\ Idle.ids = <<>>
  BY DEF Idle, IsRecord

LEMMA ClosureIs ==
    ASSUME NEW kind \in {"prefill", "decode", "score"}, NEW ids \in Seq(Int),
           NEW generate \in BOOLEAN
    PROVE  /\ Closure(kind, ids, generate) \in TurnSet
           /\ Closure(kind, ids, generate).kind = kind
           /\ Closure(kind, ids, generate).ids = ids
           /\ Closure(kind, ids, generate).generate = generate
  BY DEF Closure, Idle, TurnSet

LEMMA TurnIs ==
    ASSUME NEW t \in TurnSet
    PROVE  /\ IsJob(t) /\ t.kind \in {"prefill", "decode", "score"} /\ t.pc = "run"
           /\ t.sync = FALSE /\ t.generate \in BOOLEAN /\ t.ids \in Seq(Int)
<1>1. /\ IsRecord(t) /\ t.kind \in {"prefill", "decode", "score"} /\ t.pc = "run"
      /\ t.sync = FALSE /\ t.generate \in BOOLEAN /\ t.ids \in Seq(Int)
  BY DEF TurnSet, IsRecord
<1>. QED  BY <1>1 DEF IsJob

\* The state of the session's turns, in one formula.
Fine(c, e, asked, j, qu) ==
    Turns(c, j, qu) /\ Prompted(c, e, asked, j, qu) /\ NothingBehind(asked, j, qu)

\* A call that is queued when nothing is under way that it must wait for.
LEMMA AppendIs ==
    ASSUME NEW c, NEW e, NEW asked \in BOOLEAN, NEW j, NEW qu, Fine(c, e, asked, j, qu),
           j.kind # "score", ~j.generate, ~j.sync,
           \A i \in 1..Len(qu) : qu[i].kind # "score" /\ ~qu[i].generate,
           NEW t \in TurnSet, Fits(c, t), Needs(c, t) => asked,
           NEW after \in BOOLEAN, after => t.kind = "prefill" /\ ~t.generate,
           NEW qu2, qu2 = Append(qu, t)
    PROVE  Fine(c, e, after, j, qu2)
<1>1. PICK n : n = Len(qu)
  OBVIOUS
<1>2. qu \in Seq(TurnSet) /\ n \in Nat
  BY <1>1 DEF Fine, Turns
<1>3. /\ qu2 \in Seq(TurnSet) /\ Len(qu2) = n + 1 /\ qu2 # <<>>
      /\ qu2[n + 1] = t /\ \A i \in 1..n : qu2[i] = qu[i]
  BY <1>1, <1>2
<1>4. \A i \in 1..(n + 1) : i \in 1..n \/ i = n + 1
  BY <1>2
<1>5. Turns(c, j, qu2)
  BY <1>1, <1>3, <1>4 DEF Fine, Turns
<1>6. NothingBehind(after, j, qu2)
  <2>1. \A i \in 1..n : qu2[i].kind # "score" /\ ~qu2[i].generate
    BY <1>1, <1>3
  <2>2. t.generate \in BOOLEAN /\ (t.generate => ~after)
    BY TurnIs
  <2>. QED  BY <1>3, <1>4, <2>1, <2>2 DEF NothingBehind
<1>7. Prompted(c, e, after, j, qu2)
  <2>1. ASSUME NEW i \in 1..(n + 1), Needs(c, qu2[i])
        PROVE  IF i = 1 THEN PrefillOrReady(e, j) ELSE qu2[i - 1].kind = "prefill"
    <3>1. CASE i \in 1..n
      <4>1. Needs(c, qu[i])
        BY <1>3, <2>1, <3>1
      <4>2. IF i = 1 THEN PrefillOrReady(e, j) ELSE qu[i - 1].kind = "prefill"
        BY <1>1, <3>1, <4>1 DEF Fine, Prompted
      <4>3. i # 1 => i - 1 \in 1..n
        BY <1>2, <3>1
      <4>. QED  BY <1>3, <4>2, <4>3
    <3>2. CASE i = n + 1
      <4>1. asked
        BY <1>3, <2>1, <3>2
      <4>2. IF qu = <<>> THEN PrefillOrReady(e, j) ELSE qu[n].kind = "prefill"
        BY <1>1, <4>1 DEF Fine, Prompted
      <4>3. CASE n = 0
        <5>1. qu = <<>>
          BY <1>1, <1>2, <4>3, EmptySeq
        <5>. QED  BY <3>2, <4>2, <4>3, <5>1
      <4>4. CASE n # 0
        <5>1. qu # <<>> /\ n \in 1..n /\ i - 1 = n /\ i # 1
          BY <1>1, <1>2, <3>2, <4>4
        <5>2. qu2[i - 1] = qu[n]
          BY <1>3, <5>1
        <5>. QED  BY <4>2, <5>1, <5>2
      <4>. QED  BY <4>3, <4>4
    <3>. QED  BY <1>4, <3>1, <3>2
  <2>2. after => qu2[n + 1].kind = "prefill"
    BY <1>3
  <2>3. /\ Needs(c, j) /\ j.pc = "run" => Ready(e)
        /\ j.kind = "prefill" /\ j.pc # "run" => Ready(e)
    BY DEF Fine, Prompted
  <2>. QED  BY <1>3, <2>1, <2>2, <2>3 DEF Prompted
<1>. QED  BY <1>5, <1>6, <1>7 DEF Fine

\* The pool takes the next call.
LEMMA TakeIs ==
    ASSUME NEW c, NEW e, NEW asked \in BOOLEAN, NEW qu, Fine(c, e, asked, Idle, qu),
           qu # <<>>
    PROVE  Fine(c, e, asked, Head(qu), Tail(qu)) /\ Head(qu) \in TurnSet
<1>1. PICK n, j, rest : n = Len(qu) /\ j = Head(qu) /\ rest = Tail(qu)
  OBVIOUS
<1>2. /\ qu \in Seq(TurnSet) /\ n \in Nat \ {0} /\ j \in TurnSet /\ j = qu[1]
      /\ rest \in Seq(TurnSet) /\ Len(rest) = n - 1 /\ Len(rest) \in Nat
      /\ \A i \in 1..(n - 1) : rest[i] = qu[i + 1] /\ i + 1 \in 1..n /\ i \in 1..n
  BY <1>1 DEF Fine, Turns
<1>3. 1 \in 1..n /\ (rest = <<>> <=> n = 1)
  BY <1>2
<1>4. Turns(c, j, rest)
  <2>1. \A i \in 1..n : Fits(c, qu[i])
    BY <1>1 DEF Fine, Turns
  <2>2. Fits(c, j) /\ \A i \in 1..(n - 1) : Fits(c, rest[i])
    BY <1>2, <1>3, <2>1
  <2>3. IsJob(j)
    BY <1>2, TurnIs
  <2>. QED  BY <1>2, <2>2, <2>3 DEF Turns
<1>5. NothingBehind(asked, j, rest)
  <2>1. /\ \A i \in 1..n : qu[i].kind = "score" \/ qu[i].generate => i = n
        /\ \A i \in 1..n : qu[i].generate => ~asked
    BY <1>1 DEF Fine, NothingBehind
  <2>2. /\ \A i \in 1..(n - 1) : rest[i].kind = "score" \/ rest[i].generate => i + 1 = n
        /\ \A i \in 1..(n - 1) : rest[i].generate => ~asked
    BY <1>2, <2>1
  <2>3. \A i \in 1..(n - 1) : i + 1 = n => i = n - 1
    BY <1>2
  <2>4. j.kind = "score" \/ j.generate => n = 1
    BY <1>2, <1>3, <2>1
  <2>5. j.generate => ~asked
    BY <1>2, <1>3, <2>1
  <2>6. j.sync = FALSE
    BY <1>2, TurnIs
  <2>. QED  BY <1>2, <1>3, <2>2, <2>3, <2>4, <2>5, <2>6 DEF NothingBehind
<1>6. Prompted(c, e, asked, j, rest)
  <2>1. /\ \A i \in 1..n : Needs(c, qu[i]) =>
             IF i = 1 THEN PrefillOrReady(e, Idle) ELSE qu[i - 1].kind = "prefill"
        /\ asked => qu[n].kind = "prefill"
    BY <1>1 DEF Fine, Prompted
  <2>2. PrefillOrReady(e, Idle) => Ready(e)
    BY IdleIs DEF PrefillOrReady
  <2>3. Needs(c, j) => Ready(e)
    BY <1>2, <1>3, <2>1, <2>2
  <2>4. ASSUME NEW i \in 1..(n - 1), Needs(c, rest[i])
        PROVE  IF i = 1 THEN PrefillOrReady(e, j) ELSE rest[i - 1].kind = "prefill"
    <3>1. Needs(c, qu[i + 1]) /\ i + 1 \in 1..n /\ i + 1 # 1 /\ (i + 1) - 1 = i
      BY <1>2, <2>4
    <3>2. qu[i].kind = "prefill"
      BY <2>1, <3>1
    <3>3. CASE i = 1
      BY <1>2, <3>2, <3>3 DEF PrefillOrReady
    <3>4. CASE i # 1
      <4>1. i - 1 \in 1..(n - 1) /\ (i - 1) + 1 = i
        BY <1>2, <3>4
      <4>2. rest[i - 1] = qu[i]
        BY <1>2, <4>1
      <4>. QED  BY <3>2, <3>4, <4>2
    <3>. QED  BY <3>3, <3>4
  <2>5. asked => IF rest = <<>> THEN PrefillOrReady(e, j) ELSE rest[n - 1].kind = "prefill"
    <3>1. CASE n = 1
      BY <1>2, <1>3, <2>1, <3>1 DEF PrefillOrReady
    <3>2. CASE n # 1
      <4>1. n - 1 \in 1..(n - 1) /\ (n - 1) + 1 = n
        BY <1>2, <3>2
      <4>2. rest[n - 1] = qu[n]
        BY <1>2, <4>1
      <4>. QED  BY <1>3, <2>1, <3>2, <4>2
    <3>. QED  BY <3>1, <3>2
  <2>6. j.pc = "run"
    BY <1>2, TurnIs
  <2>. QED  BY <1>2, <2>3, <2>4, <2>5, <2>6 DEF Prompted
<1>. QED  BY <1>1, <1>2, <1>4, <1>5, <1>6 DEF Fine

(***************************************************************************)
(* The turn that runs.                                                      *)
(***************************************************************************)
\* Nothing is queued and nothing is asked for.
LEMMA AloneIs ==
    ASSUME NEW c, NEW e, NEW j, IsJob(j), Fits(c, j), NEW qu, qu = <<>>,
           Needs(c, j) /\ j.pc = "run" => Ready(e),
           j.kind = "prefill" /\ j.pc # "run" => Ready(e),
           NEW asked \in BOOLEAN, asked => PrefillOrReady(e, j) /\ ~j.generate
    PROVE  Fine(c, e, asked, j, qu)
<1>1. qu \in Seq(TurnSet) /\ Len(qu) = 0
  OBVIOUS
<1>2. \A i \in 1..Len(qu) : FALSE
  BY <1>1
<1>3. Turns(c, j, qu)
  BY <1>1, <1>2 DEF Turns
<1>4. Prompted(c, e, asked, j, qu)
  BY <1>2 DEF Prompted
<1>5. NothingBehind(asked, j, qu)
  BY <1>2 DEF NothingBehind
<1>. QED  BY <1>3, <1>4, <1>5 DEF Fine

LEMMA NoneIs ==
    ASSUME NEW c, NEW e
    PROVE  IsJob(Idle) /\ Fits(c, Idle) /\ ~Needs(c, Idle) /\ UnderWay(c, e, Idle)
<1>1. IsJob(Idle)
  <2>1. <<>> \in Seq(Int)
    OBVIOUS
  <2>. QED  BY <2>1, IdleIs DEF IsJob
<1>. QED  BY <1>1, IdleIs DEF Fits, Needs, UnderWay

\* A decode or a scoring goes on, or ends: who is queued behind it brings a
\* prefill along.
LEMMA GoesOn ==
    ASSUME NEW c, NEW e, NEW asked \in BOOLEAN, NEW j, NEW qu, Fine(c, e, asked, j, qu),
           j.kind \in {"decode", "score"},
           NEW k, IsJob(k), k.kind = j.kind, k.pc # "run", k.generate = j.generate,
           k.sync = j.sync, NEW x
    PROVE  Fine(c, x, asked, k, qu)
<1>1. ~PrefillOrReady(e, j)
  BY IdleIs DEF PrefillOrReady
<1>2. Prompted(c, x, asked, k, qu)
  BY <1>1 DEF Fine, Prompted
<1>3. NothingBehind(asked, k, qu)
  BY DEF Fine, NothingBehind
<1>4. Turns(c, k, qu)
  BY DEF Fine, Turns, Fits
<1>. QED  BY <1>2, <1>3, <1>4 DEF Fine

LEMMA EndsIs ==
    ASSUME NEW c, NEW e, NEW asked \in BOOLEAN, NEW j, NEW qu, Fine(c, e, asked, j, qu),
           NEW x, j.kind \in {"decode", "score"} \/ (j.kind = "prefill" /\ Ready(x))
    PROVE  Fine(c, x, asked, Idle, qu)
<1>1. j.kind \in {"decode", "score"} => ~PrefillOrReady(e, j)
  BY IdleIs DEF PrefillOrReady
<1>2. j.kind = "prefill" => PrefillOrReady(x, Idle)
  BY DEF PrefillOrReady
<1>3. Prompted(c, x, asked, Idle, qu)
  <2>1. ~Needs(c, Idle) /\ Idle.kind # "prefill"
    BY NoneIs, IdleIs
  <2>2. ASSUME NEW i \in 1..Len(qu), Needs(c, qu[i])
        PROVE  IF i = 1 THEN PrefillOrReady(x, Idle) ELSE qu[i - 1].kind = "prefill"
    <3>1. IF i = 1 THEN PrefillOrReady(e, j) ELSE qu[i - 1].kind = "prefill"
      BY <2>2 DEF Fine, Prompted
    <3>. QED  BY <1>1, <1>2, <3>1
  <2>3. asked => IF qu = <<>> THEN PrefillOrReady(x, Idle) ELSE qu[Len(qu)].kind = "prefill"
    <3>1. asked => IF qu = <<>> THEN PrefillOrReady(e, j) ELSE qu[Len(qu)].kind = "prefill"
      BY DEF Fine, Prompted
    <3>. QED  BY <1>1, <1>2, <3>1
  <2>. QED  BY <2>1, <2>2, <2>3 DEF Prompted
<1>4. NothingBehind(asked, Idle, qu)
  <2>1. Idle.kind # "score" /\ ~Idle.generate /\ ~Idle.sync
    BY IdleIs
  <2>. QED  BY <2>1 DEF Fine, NothingBehind
<1>5. Turns(c, Idle, qu)
  BY NoneIs DEF Fine, Turns
<1>. QED  BY <1>3, <1>4, <1>5 DEF Fine

\* A prefill that has succeeded.
LEMMA FilledIs ==
    ASSUME NEW c, NEW e, NEW asked \in BOOLEAN, NEW j, NEW qu, Fine(c, e, asked, j, qu),
           j.kind = "prefill", NEW x, Ready(x),
           NEW k, IsJob(k), k.kind = j.kind, k.generate = j.generate, k.sync = j.sync,
           k.ids = j.ids
    PROVE  Fine(c, x, asked, k, qu)
<1>1. PrefillOrReady(x, k)
  BY DEF PrefillOrReady
<1>2. Prompted(c, x, asked, k, qu)
  <2>1. ASSUME NEW i \in 1..Len(qu), Needs(c, qu[i])
        PROVE  IF i = 1 THEN PrefillOrReady(x, k) ELSE qu[i - 1].kind = "prefill"
    <3>1. IF i = 1 THEN PrefillOrReady(e, j) ELSE qu[i - 1].kind = "prefill"
      BY <2>1 DEF Fine, Prompted
    <3>. QED  BY <1>1, <3>1
  <2>2. asked => IF qu = <<>> THEN PrefillOrReady(x, k) ELSE qu[Len(qu)].kind = "prefill"
    <3>1. asked => IF qu = <<>> THEN PrefillOrReady(e, j) ELSE qu[Len(qu)].kind = "prefill"
      BY DEF Fine, Prompted
    <3>. QED  BY <1>1, <3>1
  <2>. QED  BY <2>1, <2>2 DEF Prompted
<1>3. NothingBehind(asked, k, qu)
  BY DEF Fine, NothingBehind
<1>4. Turns(c, k, qu)
  BY DEF Fine, Turns, Fits
<1>. QED  BY <1>2, <1>3, <1>4 DEF Fine

(***************************************************************************)
(* The record of the turn.                                                  *)
(***************************************************************************)
\* k is j, further on.
Moved(j, k, pc, ids, given) ==
    /\ IsRecord(k) /\ k.kind = j.kind /\ k.sync = j.sync /\ k.generate = j.generate
    /\ k.pc = pc /\ k.ids = ids /\ k.given = given

LEMMA MovedIs ==
    ASSUME NEW j, IsRecord(j), NEW pc, NEW ids, NEW given, NEW found, NEW start, NEW told,
           NEW k, k = [kind |-> j.kind, sync |-> j.sync, pc |-> pc, ids |-> ids,
                       generate |-> j.generate, given |-> given, found |-> found,
                       start |-> start, told |-> told]
    PROVE  Moved(j, k, pc, ids, given)
  BY DEF Moved, IsRecord

LEMMA GoToIs ==
    ASSUME NEW j, IsRecord(j), NEW pc, NEW k, k = [j EXCEPT !.pc = pc]
    PROVE  Moved(j, k, pc, j.ids, j.given)
<1>1. PICK a, b, d, f, g, h, l, m, n :
        j = [kind |-> a, sync |-> b, pc |-> d, ids |-> f, generate |-> g, given |-> h,
             found |-> l, start |-> m, told |-> n]
  BY DEF IsRecord
<1>2. k = [kind |-> a, sync |-> b, pc |-> pc, ids |-> f, generate |-> g, given |-> h,
           found |-> l, start |-> m, told |-> n]
  BY <1>1
<1>. QED  BY <1>1, <1>2 DEF Moved, IsRecord

LEMMA StartIs ==
    ASSUME NEW j, IsRecord(j), NEW pc, NEW start, NEW given,
           NEW k, k = [j EXCEPT !.pc = pc, !.start = start, !.given = given]
    PROVE  Moved(j, k, pc, j.ids, given)
<1>1. PICK a, b, d, f, g, h, l, m, n :
        j = [kind |-> a, sync |-> b, pc |-> d, ids |-> f, generate |-> g, given |-> h,
             found |-> l, start |-> m, told |-> n]
  BY DEF IsRecord
<1>2. k = [kind |-> a, sync |-> b, pc |-> pc, ids |-> f, generate |-> g, given |-> given,
           found |-> l, start |-> start, told |-> n]
  BY <1>1
<1>. QED  BY <1>1, <1>2 DEF Moved, IsRecord

LEMMA StepIs ==
    ASSUME NEW j, IsRecord(j), NEW pc, NEW found, NEW more, NEW given,
           NEW k, k = [j EXCEPT !.found = found, !.told = @ \o more, !.given = given, !.pc = pc]
    PROVE  Moved(j, k, pc, j.ids, given)
<1>1. PICK a, b, d, f, g, h, l, m, n :
        j = [kind |-> a, sync |-> b, pc |-> d, ids |-> f, generate |-> g, given |-> h,
             found |-> l, start |-> m, told |-> n]
  BY DEF IsRecord
<1>2. PICK t : t = n \o more
  OBVIOUS
<1>3. k = [kind |-> a, sync |-> b, pc |-> pc, ids |-> f, generate |-> g, given |-> given,
           found |-> found, start |-> m, told |-> t]
  BY <1>1, <1>2
<1>. QED  BY <1>1, <1>3 DEF Moved, IsRecord

LEMMA ScoredIs ==
    ASSUME NEW j, IsRecord(j), NEW pc, NEW given,
           NEW k, k = [j EXCEPT !.pc = pc, !.ids = Tail(@), !.given = given]
    PROVE  Moved(j, k, pc, Tail(j.ids), given)
<1>1. PICK a, b, d, f, g, h, l, m, n :
        j = [kind |-> a, sync |-> b, pc |-> d, ids |-> f, generate |-> g, given |-> h,
             found |-> l, start |-> m, told |-> n]
  BY DEF IsRecord
<1>2. PICK t : t = Tail(f)
  OBVIOUS
<1>3. k = [kind |-> a, sync |-> b, pc |-> pc, ids |-> t, generate |-> g, given |-> given,
           found |-> l, start |-> m, told |-> n]
  BY <1>1, <1>2
<1>. QED  BY <1>1, <1>2, <1>3 DEF Moved, IsRecord

Called(k, kind, ids, generate) ==
    IsJob(k) /\ k.kind = kind /\ k.pc = "run" /\ k.ids = ids /\ k.generate = generate

\* A synchronous call, on the caller's thread.
LEMMA SyncIs ==
    ASSUME NEW kind \in {"prefill", "decode"}, NEW ids \in Seq(Int), NEW generate \in BOOLEAN,
           NEW k, k = [Closure(kind, ids, generate) EXCEPT !.sync = TRUE]
    PROVE  Called(k, kind, ids, generate)
<1>1. k = [kind |-> kind, sync |-> TRUE, pc |-> "run", ids |-> ids, generate |-> generate,
           given |-> <<>>, found |-> {}, start |-> 0, told |-> <<>>]
  BY DEF Closure, Idle
<1>2. IsRecord(k)
  BY <1>1 DEF IsRecord
<1>. QED  BY <1>1, <1>2 DEF IsJob, Called

(***************************************************************************)
(* The executor.                                                            *)
(***************************************************************************)
LEMMA SoundIs ==
    ASSUME NEW c, Built(c), NEW e, NEW g, NEW q, Sound(c, e, g, q)
    PROVE  SoundExec(c, e) /\ Counts(c, e, g, q)
<1>1. Counts(c, e, g, q)
  BY SoundCounts
<1>2. GetStep(e.tokens) = g /\ Len(e.tokens[1].pending) = q
  BY <1>1 DEF Counts
<1>. QED  BY <1>1, <1>2 DEF SoundExec

LEMMA FreshIs ==
    ASSUME NEW c, Built(c)
    PROVE  SoundExec(c, FreshExecutor) /\ ~Past(FreshExecutor) /\ FreshExecutor.step = 0
<1>1. PICK ts, kv : ts = NoTokens /\ kv = << <<>> >>
  OBVIOUS
<1>2. ts \in Seq(TokSet) /\ Len(ts) = 1 /\ ts[1].ids = <<>> /\ ts[1].pending = <<>>
  BY <1>1 DEF NoTokens, TokSet
<1>3. kv \in Seq(Seq(Mark)) /\ Len(kv) = 1 /\ kv[1] = <<>>
  BY <1>1
<1>4. \A i \in 1..1 : i = 1
  OBVIOUS
<1>5. Holding(ts, kv, 1, 0, 0)
  <2>1. Len(<<>>) = 0 /\ 1..0 = {}
    OBVIOUS
  <2>2. Held(<<>>, <<>>)
    BY <2>1 DEF Held
  <2>. QED  BY <1>2, <1>3, <1>4, <2>1, <2>2 DEF Holding
<1>6. PICK x : x = FreshExecutor
  OBVIOUS
<1>7. /\ x.tokens = ts /\ x.kv = kv /\ x.step = 0 /\ x.ranDecode = FALSE /\ x.room = 0
      /\ x.ahead = FALSE
      /\ x = [tokens |-> ts, step |-> 0, ranDecode |-> FALSE, kv |-> kv, room |-> 0, ahead |-> FALSE]
  BY <1>1, <1>6 DEF FreshExecutor
<1>8. x \in ExecSet
  BY <1>2, <1>3, <1>7 DEF ExecSet
<1>9. Width(c, x) = 1
  BY <1>7 DEF Width
<1>10. \A i \in 1..Len(x.kv) : Len(x.kv[i]) <= x.room
  <2>1. Len(x.kv) = 1 /\ x.room = 0 /\ x.kv[1] = <<>>
    BY <1>3, <1>7
  <2>2. Len(x.kv[1]) = 0
    BY <2>1
  <2>3. Len(x.kv[1]) <= x.room
    BY <2>1, <2>2
  <2>. QED  BY <1>4, <2>1, <2>3, Zenon
<1>11. Sound(c, x, 0, 0)
  BY <1>5, <1>7, <1>8, <1>9, <1>10 DEF Sound
<1>12. Counts(c, x, 0, 0) /\ SoundExec(c, x)
  BY <1>11, SoundIs
<1>. QED  BY <1>6, <1>7, <1>12 DEF Counts

\* What a prefill leaves, of the executor of either kind.
Refilled(c, e, ids, cut, failAt, r) ==
    /\ r.ok \in BOOLEAN /\ SoundExec(c, r.e) /\ ~Past(r.e) /\ r.e.step \in Nat
    /\ failAt = 0 => r.ok = TRUE
    /\ ~c.dynamic \/ (Len(ids) >= 2 /\ cut # 1) \/ Ready(e) => Ready(r.e)

LEMMA PrefillLeaves ==
    ASSUME NEW c, Built(c), c.sampler # "npu", NEW e, SoundExec(c, e), ~Past(e),
           NEW ids \in Seq(Int), NEW cut \in Nat, cut < Len(ids),
           NEW failAt, NEW r, r = Prefill(c, e, ids, cut, failAt)
    PROVE  Refilled(c, e, ids, cut, failAt, r)
<1>1. PICK g, q : Sound(c, e, g, q)
  BY DEF SoundExec
<1>2. Counts(c, e, g, q)
  BY <1>1, SoundCounts
<1>3. e.step <= g + q
  BY <1>2 DEF Counts
<1>4a. PICK h : PrefillLeft(c, e, g, q, ids, cut, failAt, r, h)
  BY <1>1, <1>3, PrefillIs
<1>4. /\ Prefilled(c, r, h) /\ (failAt = 0 => r.ok = TRUE)
      /\ \/ ~c.dynamic
         \/ Len(ids) >= 2 /\ cut # 1
         \/ e.step = g + q /\ q = 1
         => r.e.step = h + 1
  BY <1>4a DEF PrefillLeft
<1>5. /\ r.ok \in BOOLEAN /\ h \in Nat /\ Sound(c, r.e, h, 1)
      /\ r.e.step = h \/ r.e.step = h + 1
      /\ r.e.ahead = FALSE
  BY <1>4 DEF Prefilled
<1>6. SoundExec(c, r.e) /\ Counts(c, r.e, h, 1)
  BY <1>5, SoundIs
<1>7. ~Past(r.e) /\ r.e.step \in Nat /\ (r.e.step = h + 1 => Ready(r.e))
  BY <1>5, <1>6 DEF Counts
<1>8. Ready(e) => e.step = g + q /\ q = 1
  BY <1>2 DEF Counts
<1>. QED  BY <1>4, <1>5, <1>6, <1>7, <1>8 DEF Refilled

LEMMA NpuPrefillLeaves ==
    ASSUME NEW c, Built(c), c.sampler = "npu", NEW e, SoundExec(c, e),
           NEW ids \in Seq(Int), NEW cut \in Nat, cut < Len(ids),
           NEW failAt, NEW r, r = NpuPrefill(e, ids, cut, failAt)
    PROVE  Refilled(c, e, ids, cut, failAt, r)
<1>1. PICK g, q : Sound(c, e, g, q)
  BY DEF SoundExec
<1>2. PICK h : Filled(c, r, h) /\ (failAt = 0 => r.ok = TRUE)
  BY <1>1, NpuPrefillIs
<1>3. /\ r.ok \in BOOLEAN /\ h \in Nat /\ Sound(c, r.e, h, 1) /\ r.e.step = h + 1
      /\ r.e.ahead = FALSE
  BY <1>2 DEF Filled
<1>4. SoundExec(c, r.e) /\ Counts(c, r.e, h, 1)
  BY <1>3, SoundIs
<1>5. ~Past(r.e) /\ r.e.step \in Nat /\ Ready(r.e)
  BY <1>3, <1>4 DEF Counts
<1>. QED  BY <1>2, <1>3, <1>4, <1>5 DEF Refilled

LEMMA ExecutorPrefillLeaves ==
    ASSUME Built(conf), NEW e, SoundExec(conf, e), ~Past(e),
           NEW ids \in Seq(Int), NEW cut \in Nat, cut < Len(ids),
           NEW failAt, NEW r, r = ExecutorPrefill(e, ids, cut, failAt)
    PROVE  Refilled(conf, e, ids, cut, failAt, r)
<1>1. PICK c : c = conf
  OBVIOUS
<1>2. CASE c.sampler = "npu"
  <2>1. r = NpuPrefill(e, ids, cut, failAt)
    BY <1>1, <1>2 DEF ExecutorPrefill, Npu
  <2>. QED  BY <1>1, <1>2, <2>1, NpuPrefillLeaves
<1>3. CASE c.sampler # "npu"
  <2>1. r = Prefill(c, e, ids, cut, failAt)
    BY <1>1, <1>3 DEF ExecutorPrefill, Npu
  <2>. QED  BY <1>1, <1>3, <2>1, PrefillLeaves
<1>. QED  BY <1>2, <1>3

(***************************************************************************)
(* One state after the other.                                               *)
(***************************************************************************)
\* The dynamic executor stores a first prompt of one token, or a first chunk of
\* one, without counting it, so that it is not ready after it, and a decode that
\* follows overwrites the cache: TLC finds KvHolds violated by such prompts.
Counted ==
    \A c \in Configs :
        c.dynamic => c.chunk # 1 /\ \A ids \in Prompts : Len(ids) >= 2

Consistent(c, e, asked, j, qu) ==
    /\ SoundExec(c, e) /\ Fine(c, e, asked, j, qu)
    /\ UnderWay(c, e, j) /\ PastOnlyFor(c, e, j, qu)

LEMMA TakesInv ==
    ASSUME IInv
    PROVE  /\ \A a : a = (open /\ prompted) => a \in BOOLEAN /\ Consistent(conf, exec, a, job, queue)
           /\ Built(conf) /\ ValuesInv
<1>1. \A a : a = (open /\ prompted) => a \in BOOLEAN /\ Consistent(conf, exec, a, job, queue)
  BY DEF IInv, ExecInv, TurnsInv, PromptInv, LastInv, LoopInv, PastInv, Consistent, Fine
<1>2. Built(conf) /\ ValuesInv
  BY ConfigsAreBuilt DEF IInv, ValuesInv, Built
<1>. QED  BY <1>1, <1>2

LEMMA GivesInv ==
    ASSUME ValuesInv', NEW c, NEW e, NEW a, NEW j, NEW qu, Consistent(c, e, a, j, qu),
           conf' = c, exec' = e, a = (open' /\ prompted'), job' = j, queue' = qu
    PROVE  IInv'
  BY DEF IInv, ExecInv, TurnsInv, PromptInv, LastInv, LoopInv, PastInv, Consistent, Fine

LEMMA InitOK == Init => IInv
<1>. SUFFICES ASSUME Init PROVE IInv
  OBVIOUS
<1>1. /\ conf \in Configs /\ exec = FreshExecutor /\ open = FALSE /\ phase = "fresh"
      /\ lastId = 0 /\ queue = <<>> /\ job = Idle /\ saved = NoCheckpoints /\ prompted = FALSE
  BY DEF Init
<1>2. Built(conf)
  BY <1>1, ConfigsAreBuilt DEF Built
<1>3. SoundExec(conf, exec) /\ ~Past(exec)
  BY <1>1, <1>2, FreshIs
<1>4. PICK a \in BOOLEAN : a = FALSE
  OBVIOUS
<1>5. Fine(conf, exec, a, job, queue) /\ UnderWay(conf, exec, job)
  <2>1. IsJob(job) /\ Fits(conf, job) /\ ~Needs(conf, job) /\ UnderWay(conf, exec, job)
    BY <1>1, NoneIs
  <2>2. job.kind # "prefill"
    BY <1>1, IdleIs
  <2>3. Fine(conf, exec, a, job, queue)
    BY <1>1, <1>4, <2>1, <2>2, AloneIs
  <2>. QED  BY <2>1, <2>3
<1>6. ValuesInv
  <2>1. saved \in [Label -> Nat \cup {-1}]
    BY <1>1 DEF NoCheckpoints
  <2>2. lastId \in Int /\ phase \in {"fresh", "prefilled", "decoded"}
    BY <1>1
  <2>3. open \in BOOLEAN /\ prompted \in BOOLEAN
    BY <1>1, Zenon
  <2>. QED  BY <1>1, <2>1, <2>2, <2>3 DEF ValuesInv
<1>7. a = (open /\ prompted)
  BY <1>1, <1>4
<1>. QED  BY <1>1, <1>3, <1>5, <1>6, <1>7
       DEF IInv, ExecInv, TurnsInv, PromptInv, LastInv, LoopInv, PastInv, Fine, PastOnlyFor

(***************************************************************************)
(* The caller.                                                              *)
(***************************************************************************)
\* What a caller that waits finds when it calls.
Waited(c, e, j, qu) ==
    /\ ~Past(e) /\ j.kind # "score" /\ ~j.generate
    /\ \A i \in 1..Len(qu) : qu[i].kind # "score" /\ ~qu[i].generate

LEMMA MayGoOnIs ==
    ASSUME ~Careless, IInv, MayGoOn
    PROVE  Waited(conf, exec, job, queue)
<1>1. ~Dangling /\ ~Unfinished
  BY DEF MayGoOn
<1>2. ~Past(exec)
  <2>1. exec.step \in Nat /\ TokenCount(exec.tokens) \in Nat
    <3>1. PICK g, q : Sound(conf, exec, g, q)
      BY DEF IInv, ExecInv, SoundExec
    <3>2. Counts(conf, exec, g, q)
      BY <3>1, TakesInv, SoundCounts
    <3>. QED  BY <3>2 DEF Counts
  <2>. QED  BY <1>1, <2>1 DEF Dangling, Past
<1>3. job.kind # "score" /\ ~job.generate
  BY <1>1 DEF Unfinished
<1>4. queue \in Seq(TurnSet)
  BY DEF IInv, TurnsInv, Turns
<1>5. \A i \in 1..Len(queue) : queue[i].kind # "score" /\ ~queue[i].generate
  <2>1. DOMAIN queue = 1..Len(queue)
    BY <1>4
  <2>. QED  BY <1>1, <2>1 DEF Unfinished
<1>. QED  BY <1>2, <1>3, <1>5 DEF Waited

\* A call that is queued.
LEMMA ScheduleIs ==
    ASSUME ~Careless, IInv, MayGoOn, ~job.sync, conf' = conf, exec' = exec, job' = job,
           open' = open, UNCHANGED <<lastId, phase, saved>>, prompted' \in BOOLEAN,
           NEW kind \in {"prefill", "decode", "score"}, NEW ids \in Seq(Int),
           NEW generate \in BOOLEAN, Schedule(Closure(kind, ids, generate)),
           \A t : t.kind = kind /\ t.ids = ids => Fits(conf, t),
           \A t : t.kind = kind /\ Needs(conf, t) => open /\ prompted,
           open' /\ prompted' => kind = "prefill" /\ ~generate
    PROVE  IInv'
<1>1. PICK a : a = (open /\ prompted)
  OBVIOUS
<1>2. PICK b : b = (open' /\ prompted')
  OBVIOUS
<1>3. PICK c, e, j, qu, t, qu2 : /\ c = conf /\ e = exec /\ j = job /\ qu = queue
                                 /\ t = Closure(kind, ids, generate) /\ qu2 = Append(qu, t)
  OBVIOUS
<1>4. a \in BOOLEAN /\ b \in BOOLEAN /\ Consistent(c, e, a, j, qu) /\ ~j.sync
  BY <1>1, <1>2, <1>3, TakesInv
<1>5. Waited(c, e, j, qu)
  BY <1>3, MayGoOnIs
<1>6. t \in TurnSet /\ t.kind = kind /\ t.ids = ids /\ t.generate = generate
  BY <1>3, ClosureIs
<1>7. Fits(c, t) /\ (Needs(c, t) => a) /\ (b => t.kind = "prefill" /\ ~t.generate)
  BY <1>1, <1>2, <1>3, <1>6
<1>8. Fine(c, e, a, j, qu)
  BY <1>4 DEF Consistent
<1>9. /\ j.kind # "score" /\ ~j.generate
      /\ \A i \in 1..Len(qu) : qu[i].kind # "score" /\ ~qu[i].generate
  BY <1>5 DEF Waited
<1>10. Fine(c, e, b, j, qu2)
  BY <1>3, <1>4, <1>6, <1>7, <1>8, <1>9, AppendIs
<1>11. Consistent(c, e, b, j, qu2)
  BY <1>4, <1>5, <1>10 DEF Consistent, Waited, PastOnlyFor
<1>12. queue' = qu2
  BY <1>3 DEF Schedule
<1>13. ValuesInv'
  BY TakesInv DEF ValuesInv
<1>. QED  BY <1>2, <1>3, <1>11, <1>12, <1>13, GivesInv

\* A call on the caller's thread.
LEMMA CallIs ==
    ASSUME ~Careless, IInv, MayGoOn, Quiet, conf' = conf, exec' = exec, queue' = queue,
           open' = open, UNCHANGED <<lastId, phase, saved>>, prompted' \in BOOLEAN,
           NEW kind \in {"prefill", "decode"}, NEW ids \in Seq(Int),
           NEW generate \in BOOLEAN,
           job' = [Closure(kind, ids, generate) EXCEPT !.sync = TRUE],
           \A t : t.kind = kind /\ t.ids = ids => Fits(conf, t),
           \A t : t.kind = kind /\ Needs(conf, t) => open /\ prompted,
           open' /\ prompted' => kind = "prefill" /\ ~generate
    PROVE  IInv'
<1>1. PICK a : a = (open /\ prompted)
  OBVIOUS
<1>2. PICK b : b = (open' /\ prompted')
  OBVIOUS
<1>3. PICK c, e, j, qu, k : /\ c = conf /\ e = exec /\ j = job /\ qu = queue
                            /\ k = [Closure(kind, ids, generate) EXCEPT !.sync = TRUE]
  OBVIOUS
<1>4. a \in BOOLEAN /\ b \in BOOLEAN /\ Consistent(c, e, a, j, qu) /\ j = Idle /\ qu = <<>>
  BY <1>1, <1>2, <1>3, TakesInv DEF Quiet
<1>5. ~Past(e)
  BY <1>3, MayGoOnIs DEF Waited
<1>6. IsJob(k) /\ k.kind = kind /\ k.pc = "run" /\ k.ids = ids /\ k.generate = generate
  <2>1. k = [Closure(kind, ids, generate) EXCEPT !.sync = TRUE]
    BY <1>3
  <2>2. Called(k, kind, ids, generate)
    BY <2>1, SyncIs
  <2>. QED  BY <2>2 DEF Called
<1>7. Fits(c, k) /\ (Needs(c, k) => a) /\ (b => k.kind = "prefill" /\ ~k.generate)
  BY <1>1, <1>2, <1>3, <1>6
<1>8. a => Ready(e)
  BY <1>4, IdleIs DEF Consistent, Fine, Prompted, PrefillOrReady
<1>9. b => PrefillOrReady(e, k)
  BY <1>7 DEF PrefillOrReady
<1>10. Fine(c, e, b, k, qu)
  BY <1>4, <1>6, <1>7, <1>8, <1>9, AloneIs
<1>11. Consistent(c, e, b, k, qu)
  BY <1>4, <1>5, <1>6, <1>10 DEF Consistent, PastOnlyFor, UnderWay
<1>12. ValuesInv'
  BY TakesInv DEF ValuesInv
<1>. QED  BY <1>2, <1>3, <1>11, <1>12, GivesInv

LEMMA MayCallIs ==
    ASSUME NEW ids, MayCall(ids)
    PROVE  /\ open /\ ~job.sync /\ MayGoOn /\ exec.step + Len(ids) < MaxTokens
           /\ conf' = conf /\ exec' = exec /\ open' = open
           /\ UNCHANGED <<lastId, phase, saved>>
  BY DEF MayCall

\* A prompt that is called for fits.
LEMMA PromptFits ==
    ASSUME IInv, Counted, NEW ids \in Prompts, exec.step + Len(ids) < MaxTokens
    PROVE  ids \in Seq(Int) /\ \A t : t.kind = "prefill" /\ t.ids = ids => Fits(conf, t)
<1>1. ids \in Seq(Int) /\ ids # <<>> /\ Len(ids) \in Nat /\ MaxTokens \in Nat
  BY InputsAreTokens, Bounds
<1>2. exec.step \in Nat
  <2>1. PICK g, q : Sound(conf, exec, g, q)
    BY DEF IInv, ExecInv, SoundExec
  <2>2. Counts(conf, exec, g, q)
    BY <2>1, TakesInv, SoundCounts
  <2>. QED  BY <2>2 DEF Counts
<1>3. Len(ids) < MaxTokens
  BY <1>1, <1>2
<1>4. conf.dynamic => Len(ids) >= 2
  BY DEF Counted, IInv, ValuesInv
<1>. QED  BY <1>1, <1>3, <1>4 DEF Fits

LEMMA RunPrefillAsyncOK ==
    ASSUME ~Careless, Counted, IInv, NEW ids \in Prompts, NEW generate \in BOOLEAN,
           RunPrefillAsync(ids, generate)
    PROVE  IInv'
<1>1. /\ MayCall(ids) /\ Schedule(Closure("prefill", ids, generate))
      /\ prompted' = ~generate /\ job' = job
  BY DEF RunPrefillAsync
<1>2. /\ ~job.sync /\ MayGoOn /\ exec.step + Len(ids) < MaxTokens
      /\ conf' = conf /\ exec' = exec /\ open' = open
      /\ UNCHANGED <<lastId, phase, saved>>
  BY <1>1, MayCallIs
<1>3. ids \in Seq(Int) /\ \A t : t.kind = "prefill" /\ t.ids = ids => Fits(conf, t)
  BY <1>2, PromptFits
<1>4. \A t : t.kind = "prefill" /\ Needs(conf, t) => open /\ prompted
  BY DEF Needs
<1>5. prompted' \in BOOLEAN /\ (open' /\ prompted' => "prefill" = "prefill" /\ ~generate)
  BY <1>1, Zenon
<1>. QED  BY <1>1, <1>2, <1>3, <1>4, <1>5, ScheduleIs

LEMMA RunPrefillOK ==
    ASSUME ~Careless, Counted, IInv, NEW ids \in Prompts, NEW generate \in BOOLEAN,
           RunPrefill(ids, generate)
    PROVE  IInv'
<1>1. /\ MayCall(ids) /\ Quiet
      /\ job' = [Closure("prefill", ids, generate) EXCEPT !.sync = TRUE]
      /\ prompted' = ~generate /\ queue' = queue
  BY DEF RunPrefill
<1>2. /\ MayGoOn /\ exec.step + Len(ids) < MaxTokens
      /\ conf' = conf /\ exec' = exec /\ open' = open
      /\ UNCHANGED <<lastId, phase, saved>>
  BY <1>1, MayCallIs
<1>3. ids \in Seq(Int) /\ \A t : t.kind = "prefill" /\ t.ids = ids => Fits(conf, t)
  BY <1>2, PromptFits
<1>4. \A t : t.kind = "prefill" /\ Needs(conf, t) => open /\ prompted
  BY DEF Needs
<1>5. prompted' \in BOOLEAN /\ (open' /\ prompted' => "prefill" = "prefill" /\ ~generate)
  BY <1>1, Zenon
<1>. QED  BY <1>1, <1>2, <1>3, <1>4, <1>5, CallIs

LEMMA CanDecodeIs ==
    ASSUME open, CanDecode
    PROVE  \A t : t.kind = "decode" /\ Needs(conf, t) => open /\ prompted
  BY DEF CanDecode, Needs

LEMMA RunDecodeAsyncOK ==
    ASSUME ~Careless, IInv, RunDecodeAsync
    PROVE  IInv'
<1>1. /\ MayCall(<<>>) /\ CanDecode /\ Schedule(Closure("decode", <<>>, FALSE))
      /\ prompted' = FALSE /\ job' = job
  BY DEF RunDecodeAsync
<1>2. /\ open /\ ~job.sync /\ MayGoOn /\ conf' = conf /\ exec' = exec /\ open' = open
      /\ UNCHANGED <<lastId, phase, saved>>
  BY <1>1, MayCallIs
<1>3. <<>> \in Seq(Int) /\ FALSE \in BOOLEAN /\ prompted' \in BOOLEAN /\ ~prompted'
  <2>1. <<>> \in Seq(Int)
    OBVIOUS
  <2>2. FALSE \in BOOLEAN /\ prompted' \in BOOLEAN /\ ~prompted'
    BY <1>1, Zenon
  <2>. QED  BY <2>1, <2>2
<1>4. \A t : t.kind = "decode" /\ t.ids = <<>> => Fits(conf, t)
  BY DEF Fits
<1>5. \A t : t.kind = "decode" /\ Needs(conf, t) => open /\ prompted
  BY <1>1, <1>2, CanDecodeIs
<1>. QED  BY <1>1, <1>2, <1>3, <1>4, <1>5, ScheduleIs

LEMMA RunDecodeOK ==
    ASSUME ~Careless, IInv, RunDecode
    PROVE  IInv'
<1>1. MayCall(<<>>) /\ Quiet /\ CanDecode /\ queue' = queue
  BY DEF RunDecode
<1>2. /\ open /\ ~job.sync /\ MayGoOn /\ conf' = conf /\ exec' = exec /\ open' = open
      /\ UNCHANGED <<lastId, phase, saved>>
  BY <1>1, MayCallIs
<1>3. CASE phase = "prefilled"
  <2>1. /\ job' = [Closure("decode", <<>>, FALSE) EXCEPT !.sync = TRUE]
        /\ prompted' = FALSE
    BY <1>3 DEF RunDecode
  <2>2. <<>> \in Seq(Int) /\ FALSE \in BOOLEAN /\ prompted' \in BOOLEAN /\ ~prompted'
    <3>1. <<>> \in Seq(Int)
      OBVIOUS
    <3>2. FALSE \in BOOLEAN /\ prompted' \in BOOLEAN /\ ~prompted'
      BY <2>1, Zenon
    <3>. QED  BY <3>1, <3>2
  <2>3. \A t : t.kind = "decode" /\ t.ids = <<>> => Fits(conf, t)
    BY DEF Fits
  <2>4. \A t : t.kind = "decode" /\ Needs(conf, t) => open /\ prompted
    BY <1>1, <1>2, CanDecodeIs
  <2>. QED  BY <1>1, <1>2, <2>1, <2>2, <2>3, <2>4, CallIs
<1>4. CASE phase # "prefilled"
  <2>1. job' = job /\ prompted' = prompted
    BY <1>4 DEF RunDecode
  <2>. QED  BY <1>1, <1>2, <2>1 DEF IInv, ValuesInv, ExecInv, TurnsInv, PromptInv, LastInv, LoopInv, PastInv
<1>. QED  BY <1>3, <1>4

LEMMA RunTextScoringAsyncOK ==
    ASSUME ~Careless, IInv, NEW ids \in Targets, RunTextScoringAsync(ids)
    PROVE  IInv'
<1>1. /\ MayCall(ids) /\ conf.heads = 1 /\ prompted
      /\ Schedule(Closure("score", ids, FALSE)) /\ prompted' = FALSE /\ job' = job
  BY DEF RunTextScoringAsync
<1>2. /\ open /\ ~job.sync /\ MayGoOn /\ conf' = conf /\ exec' = exec /\ open' = open
      /\ UNCHANGED <<lastId, phase, saved>>
  BY <1>1, MayCallIs
<1>3. ids \in Seq(Int) /\ FALSE \in BOOLEAN /\ prompted' \in BOOLEAN /\ ~prompted'
  BY <1>1, InputsAreTokens
<1>4. \A t : t.kind = "score" /\ t.ids = ids => Fits(conf, t)
  BY <1>1 DEF Fits
<1>5. \A t : t.kind = "score" /\ Needs(conf, t) => open /\ prompted
  BY <1>1, <1>2
<1>. QED  BY <1>1, <1>2, <1>3, <1>4, <1>5, ScheduleIs

LEMMA CreateOK ==
    ASSUME IInv, Create
    PROVE  IInv'
<1>1. /\ ~open /\ open' = TRUE /\ phase' = "fresh" /\ lastId' = 0 /\ saved' = NoCheckpoints
      /\ prompted' = FALSE /\ conf' = conf /\ exec' = exec /\ queue' = queue /\ job' = job
  BY DEF Create
<1>2. PICK c, e, j, qu, a : c = conf /\ e = exec /\ j = job /\ qu = queue /\ a = FALSE
  OBVIOUS
<1>3. a = (open /\ prompted) /\ a = (open' /\ prompted')
  BY <1>1, <1>2
<1>4. Consistent(c, e, a, j, qu)
  BY <1>2, <1>3, TakesInv
<1>5. ValuesInv'
  <2>1. saved' \in [Label -> Nat \cup {-1}]
    BY <1>1 DEF NoCheckpoints
  <2>2. conf' \in Configs /\ lastId' \in Int /\ phase' \in {"fresh", "prefilled", "decoded"}
    BY <1>1, TakesInv DEF ValuesInv
  <2>3. open' \in BOOLEAN /\ prompted' \in BOOLEAN
    BY <1>1, Zenon
  <2>. QED  BY <2>1, <2>2, <2>3 DEF ValuesInv
<1>. QED  BY <1>1, <1>2, <1>3, <1>4, <1>5, GivesInv

\* The session is alone with the executor, of which nothing more is asked.
LEMMA ResetIs ==
    ASSUME IInv, Quiet, NEW x, SoundExec(conf, x), conf' = conf, exec' = x, queue' = queue,
           job' = job, ~(open' /\ prompted'), ValuesInv'
    PROVE  IInv'
<1>1. PICK c, j, qu, a : c = conf /\ j = Idle /\ qu = <<>> /\ a = FALSE
  OBVIOUS
<1>2. IsJob(j) /\ Fits(c, j) /\ ~Needs(c, j) /\ UnderWay(c, x, j) /\ j.kind # "prefill"
  BY <1>1, NoneIs, IdleIs
<1>3. a \in BOOLEAN /\ ~a
  BY <1>1
<1>4. Fine(c, x, a, j, qu)
  BY <1>1, <1>2, <1>3, AloneIs
<1>5. Consistent(c, x, a, j, qu)
  BY <1>1, <1>2, <1>4 DEF Consistent, PastOnlyFor
<1>6. job' = j /\ queue' = qu /\ a = (open' /\ prompted')
  BY <1>1 DEF Quiet
<1>. QED  BY <1>1, <1>5, <1>6, GivesInv

\* The step is set back.
LEMMA SetBack ==
    ASSUME NEW c, Built(c), c.sampler # "npu", NEW e, SoundExec(c, e), NEW n,
           NEW r, r = SetCurrentStep(e, n)
    PROVE  SoundExec(c, r.e) /\ SetTo(e, n, r)
<1>1. PICK g, q : Sound(c, e, g, q)
  BY DEF SoundExec
<1>2. Sound(c, r.e, g, q) /\ SetTo(e, n, r)
  BY <1>1, SetStepIs
<1>. QED  BY <1>2, SoundIs

LEMMA CloseOK ==
    ASSUME IInv, Close
    PROVE  IInv'
<1>1. /\ Quiet /\ exec' = (IF Npu THEN NpuReset(exec) ELSE Reset(exec)) /\ open' = FALSE
      /\ saved' = NoCheckpoints /\ conf' = conf /\ phase' = phase /\ lastId' = lastId
      /\ queue' = queue /\ job' = job /\ prompted' = prompted
  BY DEF Close
<1>2. Built(conf) /\ SoundExec(conf, exec) /\ ValuesInv
  BY TakesInv DEF Consistent, IInv, ExecInv
<1>3. SoundExec(conf, exec')
  <2>1. CASE Npu
    <3>1. exec' = FreshExecutor
      BY <1>1, <2>1 DEF NpuReset
    <3>. QED  BY <1>2, <3>1, FreshIs
  <2>2. CASE ~Npu
    <3>1. PICK c, e, r : c = conf /\ e = exec /\ r = SetCurrentStep(e, 0)
      OBVIOUS
    <3>2. e.step \in Nat /\ c.sampler # "npu" /\ Built(c) /\ SoundExec(c, e)
      <4>1. PICK g, q : Sound(c, e, g, q)
        BY <1>2, <3>1 DEF SoundExec
      <4>2. Counts(c, e, g, q)
        BY <1>2, <3>1, <4>1, SoundCounts
      <4>. QED  BY <1>2, <2>2, <3>1, <4>2 DEF Counts, Npu
    <3>3. SoundExec(c, r.e)
      BY <3>1, <3>2, SetBack
    <3>4. 0 \in 0..e.step
      BY <3>2
    <3>5. r.e = [e EXCEPT !.step = 0]
      BY <3>1, <3>4 DEF SetCurrentStep, Ok
    <3>6. exec' = [e EXCEPT !.step = 0]
      BY <1>1, <2>2, <3>1 DEF Reset
    <3>. QED  BY <3>1, <3>3, <3>5, <3>6
  <2>. QED  BY <2>1, <2>2
<1>4. ValuesInv'
  <2>1. saved' \in [Label -> Nat \cup {-1}]
    BY <1>1 DEF NoCheckpoints
  <2>2. /\ conf' \in Configs /\ lastId' \in Int /\ phase' \in {"fresh", "prefilled", "decoded"}
        /\ prompted' \in BOOLEAN
    BY <1>1, <1>2 DEF ValuesInv
  <2>3. open' \in BOOLEAN
    BY <1>1, Zenon
  <2>. QED  BY <2>1, <2>2, <2>3 DEF ValuesInv
<1>5. ~(open' /\ prompted')
  BY <1>1
<1>6. PICK x : x = exec'
  OBVIOUS
<1>. QED  BY <1>1, <1>3, <1>4, <1>5, <1>6, ResetIs

LEMMA RewindOK ==
    ASSUME IInv, NEW l \in Label, RewindToCheckpoint(l)
    PROVE  IInv'
<1>1. PICK r : r = ExecutorSetCurrentStep(exec, saved[l])
  OBVIOUS
<1>2. /\ Quiet /\ r.ok /\ exec' = r.e
      /\ saved' = [k \in Label |-> IF saved[k] > saved[l] THEN -1 ELSE saved[k]]
      /\ prompted' = FALSE /\ conf' = conf /\ open' = open /\ phase' = phase
      /\ lastId' = lastId /\ queue' = queue /\ job' = job
  BY <1>1 DEF RewindToCheckpoint
<1>3. Built(conf) /\ SoundExec(conf, exec) /\ ValuesInv
  BY TakesInv DEF IInv, ExecInv
<1>4. conf.sampler # "npu" /\ r = SetCurrentStep(exec, saved[l])
  BY <1>1, <1>2 DEF ExecutorSetCurrentStep, Npu, Err
<1>5. SoundExec(conf, r.e)
  BY <1>3, <1>4, SetBack
<1>6. ValuesInv'
  <2>1. saved' \in [Label -> Nat \cup {-1}]
    BY <1>2, <1>3 DEF ValuesInv
  <2>2. /\ conf' \in Configs /\ lastId' \in Int /\ phase' \in {"fresh", "prefilled", "decoded"}
        /\ open' \in BOOLEAN
    BY <1>2, <1>3 DEF ValuesInv
  <2>3. prompted' \in BOOLEAN
    BY <1>2, Zenon
  <2>. QED  BY <2>1, <2>2, <2>3 DEF ValuesInv
<1>7. PICK x : x = r.e
  OBVIOUS
<1>. QED  BY <1>2, <1>5, <1>6, <1>7, ResetIs

LEMMA SaveOK ==
    ASSUME IInv, NEW l \in Label, SaveCheckpoint(l)
    PROVE  IInv'
<1>1. /\ saved' = [saved EXCEPT ![l] = exec.step]
      /\ UNCHANGED <<conf, exec, open, phase, lastId, queue, job, prompted>>
  BY DEF SaveCheckpoint
<1>2. exec.step \in Nat
  <2>1. PICK g, q : Sound(conf, exec, g, q)
    BY DEF IInv, ExecInv, SoundExec
  <2>2. Counts(conf, exec, g, q)
    BY <2>1, TakesInv, SoundCounts
  <2>. QED  BY <2>2 DEF Counts
<1>3. saved' \in [Label -> Nat \cup {-1}]
  BY <1>1, <1>2 DEF IInv, ValuesInv
<1>. QED  BY <1>1, <1>3 DEF IInv, ValuesInv, ExecInv, TurnsInv, PromptInv, LastInv, LoopInv, PastInv

LEMMA CancelProcessOK ==
    ASSUME IInv, CancelProcess
    PROVE  IInv'
<1>1. UNCHANGED <<conf, exec, open, phase, lastId, queue, job, prompted, saved>>
  BY DEF CancelProcess, session
<1>. QED  BY <1>1 DEF IInv, ValuesInv, ExecInv, TurnsInv, PromptInv, LastInv, LoopInv, PastInv

(***************************************************************************)
(* The worker.                                                              *)
(***************************************************************************)
LEMMA SameValues ==
    ASSUME IInv, UNCHANGED session, prompted' = prompted
    PROVE  /\ ValuesInv' /\ conf' = conf /\ open' = open /\ phase' = phase /\ saved' = saved
           /\ lastId' = lastId
  BY DEF IInv, ValuesInv, session

LEMMA TakeClosureOK ==
    ASSUME IInv, TakeClosure
    PROVE  IInv'
<1>1. PICK c, e, j, qu, a : /\ c = conf /\ e = exec /\ j = Head(queue) /\ qu = Tail(queue)
                            /\ a = (open /\ prompted)
  OBVIOUS
<1>2. /\ job = Idle /\ queue # <<>> /\ job' = j /\ queue' = qu /\ exec' = e
      /\ prompted' = prompted /\ UNCHANGED session
  BY <1>1 DEF TakeClosure
<1>3. a \in BOOLEAN /\ Consistent(c, e, a, Idle, queue)
  BY <1>1, <1>2, TakesInv
<1>4. SoundExec(c, e) /\ Fine(c, e, a, Idle, queue) /\ PastOnlyFor(c, e, Idle, queue)
  BY <1>3 DEF Consistent
<1>5. Fine(c, e, a, j, qu) /\ j \in TurnSet
  BY <1>1, <1>2, <1>3, <1>4, TakeIs
<1>6. ~Past(e)
  BY <1>2, <1>4, IdleIs DEF PastOnlyFor
<1>7. j.pc = "run"
  BY <1>5, TurnIs
<1>8. Consistent(c, e, a, j, qu)
  BY <1>4, <1>5, <1>6, <1>7 DEF Consistent, UnderWay, PastOnlyFor
<1>9. ValuesInv' /\ conf' = c /\ a = (open' /\ prompted')
  BY <1>1, <1>2, SameValues
<1>. QED  BY <1>1, <1>2, <1>8, <1>9, GivesInv

\* A job under way, and what is known of it.
LEMMA JobIs ==
    ASSUME IInv, NEW kind, job.kind = kind, kind # "none"
    PROVE  /\ IsRecord(job) /\ IsJob(job) /\ Fits(conf, job) /\ job.ids \in Seq(Int)
           /\ SoundExec(conf, exec) /\ Built(conf)
           /\ UnderWay(conf, exec, job) /\ PastOnlyFor(conf, exec, job, queue)
           /\ job # Idle
  BY TakesInv, IdleIs DEF IInv, TurnsInv, Turns, IsJob, ExecInv, LoopInv, PastInv

\* Where a chunk ends.
LEMMA CutIs ==
    ASSUME NEW c, Built(c), NEW ids \in Seq(Int), ids # <<>>, NEW cut \in Cuts(c, ids)
    PROVE  cut \in Nat /\ cut < Len(ids) /\ (c.dynamic /\ c.chunk # 1 => cut # 1)
<1>1. Len(ids) \in Nat \ {0} /\ c.chunk \in Nat /\ 0 # 1
  BY EmptySeq DEF Built
<1>2. CASE ~c.dynamic
  <2>1. cut \in 0..(Len(ids) - 1)
    BY <1>2 DEF Cuts
  <2>. QED  BY <1>1, <1>2, <2>1
<1>3. CASE c.dynamic
  <2>1. CASE c.chunk \in 1..(Len(ids) - 1)
    <3>1. cut = c.chunk
      BY <1>3, <2>1 DEF Cuts
    <3>. QED  BY <1>1, <2>1, <3>1
  <2>2. CASE c.chunk \notin 1..(Len(ids) - 1)
    <3>1. cut = 0
      BY <1>3, <2>2 DEF Cuts
    <3>. QED  BY <1>1, <3>1
  <2>. QED  BY <2>1, <2>2
<1>. QED  BY <1>2, <1>3

\* A run that fails has no turn queued behind it.
LEMMA FailureIs ==
    ASSUME ~Careless, NEW failAt \in Failure
    PROVE  failAt # 0 => queue = <<>>
  BY DEF Failure

LEMMA PrefillJobOK ==
    ASSUME ~Careless, Counted, IInv, PrefillJob
    PROVE  IInv'
<1>1. PICK cut \in Cuts(conf, job.ids), failAt \in Failure :
        LET r == IF Len(job.ids) >= MaxTokens THEN Err(exec)
                 ELSE ExecutorPrefill(exec, job.ids, cut, failAt)
        IN /\ exec' = r.e
           /\ IF r.ok
              THEN /\ lastId' = job.ids[Len(job.ids)] /\ phase' = "prefilled"
                   /\ GoTo("report")
              ELSE UNCHANGED <<lastId, phase>> /\ JobEnds
           /\ prompted' = (prompted /\ r.ok)
  BY DEF PrefillJob
<1>2. job.kind = "prefill" /\ job.pc = "run" /\ UNCHANGED <<conf, open, saved, queue>>
  BY DEF PrefillJob, At
<1>3. PICK c, e, j, qu, ids : /\ c = conf /\ e = exec /\ j = job /\ qu = queue /\ ids = job.ids
  OBVIOUS
<1>4. PICK a : a = (open /\ prompted)
  OBVIOUS
<1>5. PICK b : b = (open' /\ prompted')
  OBVIOUS
<1>6. /\ a \in BOOLEAN /\ b \in BOOLEAN /\ Consistent(c, e, a, j, qu) /\ ValuesInv /\ Built(c)
  BY <1>3, <1>4, <1>5, TakesInv
<1>7. /\ IsRecord(j) /\ Fits(c, j) /\ ids \in Seq(Int) /\ SoundExec(c, e)
      /\ PastOnlyFor(c, e, j, qu) /\ j # Idle
  BY <1>2, <1>3, JobIs
<1>8. /\ ids # <<>> /\ Len(ids) < MaxTokens /\ (c.dynamic => Len(ids) >= 2)
      /\ ~(Len(ids) >= MaxTokens)
  <2>1. ids # <<>> /\ Len(ids) < MaxTokens /\ (c.dynamic => Len(ids) >= 2)
    BY <1>2, <1>3, <1>7 DEF Fits
  <2>2. Len(ids) \in Nat /\ MaxTokens \in Nat
    BY <1>7, Bounds
  <2>. QED  BY <2>1, <2>2
<1>9. cut \in Nat /\ cut < Len(ids) /\ (c.dynamic => cut # 1)
  <2>1. c.dynamic => c.chunk # 1
    BY <1>3, <1>6 DEF Counted, ValuesInv
  <2>. QED  BY <1>1, <1>3, <1>6, <1>7, <1>8, <2>1, CutIs
<1>10. PICK r : r = ExecutorPrefill(exec, ids, cut, failAt)
  OBVIOUS
<1>11. /\ exec' = r.e
       /\ r.ok => /\ lastId' = ids[Len(ids)] /\ phase' = "prefilled"
                  /\ job' = [j EXCEPT !.pc = "report"]
       /\ ~r.ok => UNCHANGED <<lastId, phase>> /\ job' = Idle
       /\ prompted' = (prompted /\ r.ok)
  BY <1>1, <1>3, <1>8, <1>10 DEF GoTo, JobEnds
<1>12. ~Past(e)
  BY <1>2, <1>3, <1>7 DEF PastOnlyFor
<1>13. Refilled(c, e, ids, cut, failAt, r)
  <2>1. SoundExec(conf, exec) /\ ~Past(exec) /\ Built(conf)
    BY <1>3, <1>6, <1>7, <1>12
  <2>2. Refilled(conf, exec, ids, cut, failAt, r)
    BY <1>7, <1>9, <1>10, <2>1, ExecutorPrefillLeaves
  <2>. QED  BY <1>3, <2>2
<1>14. /\ r.ok \in BOOLEAN /\ SoundExec(c, r.e) /\ ~Past(r.e) /\ (failAt = 0 => r.ok = TRUE)
       /\ Ready(r.e)
  BY <1>8, <1>9, <1>13 DEF Refilled
<1>15. PICK x : x = r.e
  OBVIOUS
<1>16. CASE r.ok
  <2>1. PICK k : k = [j EXCEPT !.pc = "report"]
    OBVIOUS
  <2>2. Moved(j, k, "report", j.ids, j.given)
    BY <1>7, <2>1, GoToIs
  <2>3. /\ IsRecord(k) /\ k.kind = j.kind /\ k.sync = j.sync /\ k.generate = j.generate
        /\ k.pc = "report" /\ k.ids = j.ids
    BY <2>2 DEF Moved
  <2>4. IsJob(j) /\ j.kind = "prefill"
    BY <1>2, <1>3, JobIs
  <2>5. IsJob(k)
    BY <2>3, <2>4, IdleIs DEF IsJob
  <2>6. Fine(c, x, a, k, qu)
    BY <1>6, <1>14, <1>15, <2>3, <2>4, <2>5, FilledIs DEF Consistent
  <2>7. Consistent(c, x, a, k, qu)
    BY <1>14, <1>15, <2>3, <2>4, <2>6 DEF Consistent, UnderWay, PastOnlyFor
  <2>8. a = (open' /\ prompted')
    BY <1>2, <1>4, <1>11, <1>16
  <2>9. ValuesInv'
    <3>1. Len(ids) \in 1..Len(ids)
      BY <1>7, <1>8, EmptySeq
    <3>2. lastId' \in Int
      BY <1>7, <1>11, <1>16, <3>1
    <3>3. /\ conf' \in Configs /\ phase' \in {"fresh", "prefilled", "decoded"}
          /\ saved' \in [Label -> Nat \cup {-1}] /\ open' \in BOOLEAN
      BY <1>2, <1>6, <1>11, <1>16 DEF ValuesInv
    <3>4. prompted' \in BOOLEAN
      BY <1>11
    <3>. QED  BY <3>2, <3>3, <3>4 DEF ValuesInv
  <2>. QED  BY <1>2, <1>3, <1>11, <1>15, <1>16, <2>1, <2>7, <2>8, <2>9, GivesInv
<1>17. CASE ~r.ok
  <2>1. qu = <<>>
    BY <1>1, <1>3, <1>14, <1>17, FailureIs
  <2>2. PICK k, f : k = Idle /\ f = FALSE
    OBVIOUS
  <2>3. IsJob(k) /\ Fits(c, k) /\ ~Needs(c, k) /\ UnderWay(c, x, k) /\ k.kind # "prefill"
    BY <2>2, NoneIs, IdleIs
  <2>4. f \in BOOLEAN /\ ~f
    BY <2>2
  <2>5. Fine(c, x, f, k, qu)
    BY <2>1, <2>3, <2>4, AloneIs
  <2>6. Consistent(c, x, f, k, qu)
    BY <1>14, <1>15, <2>3, <2>5 DEF Consistent, PastOnlyFor
  <2>7. f = (open' /\ prompted')
    BY <1>11, <1>17, <2>2
  <2>8. ValuesInv'
    <3>1. /\ conf' \in Configs /\ phase' \in {"fresh", "prefilled", "decoded"} /\ lastId' \in Int
          /\ saved' \in [Label -> Nat \cup {-1}] /\ open' \in BOOLEAN
      BY <1>2, <1>6, <1>11, <1>17 DEF ValuesInv
    <3>2. prompted' \in BOOLEAN
      BY <1>11
    <3>. QED  BY <3>1, <3>2 DEF ValuesInv
  <2>. QED  BY <1>2, <1>3, <1>11, <1>15, <1>17, <2>2, <2>6, <2>7, <2>8, GivesInv
<1>. QED  BY <1>14, <1>16, <1>17

LEMMA PrefillReportOK ==
    ASSUME IInv, PrefillReport
    PROVE  IInv'
<1>1. PICK c, e, j, qu : c = conf /\ e = exec /\ j = job /\ qu = queue
  OBVIOUS
<1>2. PICK a : a = (open /\ prompted)
  OBVIOUS
<1>3. /\ j.kind = "prefill" /\ j.pc = "report" /\ exec' = e /\ queue' = qu
      /\ prompted' = prompted /\ UNCHANGED session
      /\ IF ~j.generate \/ (~j.sync /\ cancelled) THEN job' = Idle
         ELSE job' = [j EXCEPT !.pc = "next"]
  BY <1>1 DEF PrefillReport, At, JobEnds, GoTo
<1>4. a \in BOOLEAN /\ Consistent(c, e, a, j, qu)
  BY <1>1, <1>2, TakesInv
<1>5. /\ SoundExec(c, e) /\ Fine(c, e, a, j, qu) /\ PastOnlyFor(c, e, j, qu) /\ Ready(e)
  BY <1>3, <1>4 DEF Consistent, Fine, Prompted
<1>6. IsRecord(j) /\ IsJob(j) /\ j # Idle
  BY <1>1, <1>3, JobIs
<1>7. ~Past(e)
  BY <1>3, <1>5, <1>6 DEF PastOnlyFor
<1>8. ValuesInv' /\ conf' = c /\ a = (open' /\ prompted')
  BY <1>1, <1>2, <1>3, SameValues
<1>9. CASE ~j.generate \/ (~j.sync /\ cancelled)
  <2>1. PICK k : k = Idle
    OBVIOUS
  <2>2. Fine(c, e, a, k, qu) /\ UnderWay(c, e, k)
    BY <1>3, <1>4, <1>5, <2>1, EndsIs, NoneIs
  <2>3. Consistent(c, e, a, k, qu)
    BY <1>5, <1>7, <2>2 DEF Consistent, PastOnlyFor
  <2>. QED  BY <1>3, <1>8, <1>9, <2>1, <2>3, GivesInv
<1>10. CASE ~(~j.generate \/ (~j.sync /\ cancelled))
  <2>1. PICK k : k = [j EXCEPT !.pc = "next"]
    OBVIOUS
  <2>2. Moved(j, k, "next", j.ids, j.given)
    BY <1>6, <2>1, GoToIs
  <2>3. /\ IsRecord(k) /\ k.kind = j.kind /\ k.sync = j.sync /\ k.generate = j.generate
        /\ k.pc = "next" /\ k.ids = j.ids
    BY <2>2 DEF Moved
  <2>4. IsJob(k)
    BY <1>3, <1>6, <1>10, <2>3, IdleIs DEF IsJob
  <2>5. Fine(c, e, a, k, qu)
    BY <1>3, <1>4, <1>5, <2>3, <2>4, FilledIs
  <2>6. Consistent(c, e, a, k, qu)
    BY <1>3, <1>5, <1>7, <2>3, <2>5 DEF Consistent, UnderWay, PastOnlyFor
  <2>. QED  BY <1>3, <1>8, <1>10, <2>1, <2>6, GivesInv
<1>. QED  BY <1>9, <1>10

LEMMA PrefillThenDecodeOK ==
    ASSUME IInv, PrefillThenDecode
    PROVE  IInv'
<1>1. PICK c, e, j, qu : c = conf /\ e = exec /\ j = job /\ qu = queue
  OBVIOUS
<1>2. PICK a : a = (open /\ prompted)
  OBVIOUS
<1>3. /\ j.kind = "prefill" /\ j.pc = "next" /\ exec' = e /\ prompted' = prompted
      /\ UNCHANGED session
      /\ IF j.sync THEN /\ job' = [Closure("decode", <<>>, FALSE) EXCEPT !.sync = TRUE]
                        /\ queue' = qu
         ELSE Schedule(Closure("decode", <<>>, FALSE)) /\ job' = Idle
  BY <1>1 DEF PrefillThenDecode, At
<1>4. a \in BOOLEAN /\ Consistent(c, e, a, j, qu)
  BY <1>1, <1>2, TakesInv
<1>5. /\ SoundExec(c, e) /\ Fine(c, e, a, j, qu) /\ PastOnlyFor(c, e, j, qu) /\ Ready(e)
  BY <1>3, <1>4 DEF Consistent, Fine, Prompted
<1>6. IsJob(j) /\ j # Idle
  BY <1>1, <1>3, JobIs
<1>7. ~Past(e)
  BY <1>3, <1>5, <1>6 DEF PastOnlyFor
<1>8. ValuesInv' /\ conf' = c /\ a = (open' /\ prompted')
  BY <1>1, <1>2, <1>3, SameValues
<1>9. j.generate /\ qu = <<>> /\ ~a
  BY <1>3, <1>5, <1>6 DEF IsJob, Fine, NothingBehind
<1>10. <<>> \in Seq(Int)
  OBVIOUS
<1>11. CASE j.sync
  <2>1. PICK k : k = [Closure("decode", <<>>, FALSE) EXCEPT !.sync = TRUE]
    OBVIOUS
  <2>2. Called(k, "decode", <<>>, FALSE)
    BY <1>10, <2>1, SyncIs
  <2>3. IsJob(k) /\ k.kind = "decode" /\ k.pc = "run"
    BY <2>2 DEF Called
  <2>4. Fits(c, k)
    BY <2>3 DEF Fits
  <2>5. Fine(c, e, a, k, qu)
    BY <1>4, <1>5, <1>9, <2>3, <2>4, AloneIs
  <2>6. Consistent(c, e, a, k, qu)
    BY <1>5, <1>7, <2>3, <2>5 DEF Consistent, UnderWay, PastOnlyFor
  <2>. QED  BY <1>3, <1>8, <1>11, <2>1, <2>6, GivesInv
<1>12. CASE ~j.sync
  <2>1. PICK t, k, qu2 : /\ t = Closure("decode", <<>>, FALSE) /\ k = Idle
                         /\ qu2 = Append(qu, t)
    OBVIOUS
  <2>2. t \in TurnSet /\ t.kind = "decode" /\ t.generate = FALSE
    BY <1>10, <2>1, ClosureIs
  <2>3. qu2 = <<t>>
    BY <1>9, <2>1
  <2>4. qu2 \in Seq(TurnSet) /\ Len(qu2) = 1 /\ qu2[1] = t /\ qu2 # <<>> /\ \A i \in 1..1 : i = 1
    BY <2>2, <2>3
  <2>5. /\ IsJob(k) /\ Fits(c, k) /\ ~Needs(c, k) /\ UnderWay(c, e, k) /\ k.kind = "none"
        /\ ~k.generate /\ ~k.sync
    BY <2>1, NoneIs, IdleIs
  <2>6. Turns(c, k, qu2)
    BY <2>2, <2>4, <2>5 DEF Turns, Fits
  <2>7. PrefillOrReady(e, k)
    BY <1>5, <2>1 DEF PrefillOrReady
  <2>8. Prompted(c, e, a, k, qu2)
    BY <1>9, <2>4, <2>5, <2>7 DEF Prompted
  <2>9. NothingBehind(a, k, qu2)
    BY <1>9, <2>2, <2>4, <2>5 DEF NothingBehind
  <2>10. Consistent(c, e, a, k, qu2)
    BY <1>5, <1>7, <2>5, <2>6, <2>8, <2>9 DEF Consistent, Fine, PastOnlyFor
  <2>11. queue' = qu2 /\ job' = k
    BY <1>1, <1>3, <1>12, <2>1 DEF Schedule
  <2>. QED  BY <1>3, <1>8, <2>10, <2>11, GivesInv
<1>. QED  BY <1>11, <1>12

\* A decode that begins.
LEMMA BegunIs ==
    ASSUME NEW c, Built(c), NEW e, NEW asked \in BOOLEAN, NEW j, NEW qu,
           Fine(c, e, asked, j, qu), j.kind = "decode", j.pc = "run", IsJob(j),
           NEW x, SoundExec(c, x), ~Past(x), Ready(e) => Ready(x),
           NEW last \in Int, NEW k,
           Moved(j, k, "loop", j.ids, [i \in 1..c.heads |-> last])
    PROVE  Consistent(c, x, asked, k, qu)
<1>1. PICK given : given = [i \in 1..c.heads |-> last]
  OBVIOUS
<1>2. given \in Seq(Int) /\ Len(given) = c.heads
  <2>1. c.heads \in Nat
    BY DEF Built
  <2>. QED  BY <1>1, <2>1
<1>3. /\ IsRecord(k) /\ k.kind = "decode" /\ k.sync = j.sync /\ k.generate = j.generate
      /\ k.pc = "loop" /\ k.ids = j.ids /\ k.given = given
  BY <1>1 DEF Moved
<1>4. IsJob(k)
  BY <1>3, IdleIs DEF IsJob
<1>5. Fine(c, x, asked, k, qu)
  BY <1>3, <1>4, GoesOn
<1>6. c.sampler = "external" \/ c.heads # 1 => Ready(x)
  BY DEF Fine, Prompted, Needs
<1>7. UnderWay(c, x, k)
  BY <1>2, <1>3, <1>6 DEF UnderWay, Ready
<1>. QED  BY <1>5, <1>7 DEF Consistent, PastOnlyFor

\* A turn that ends with the step at the tokens, or with nothing queued.
LEMMA EndedIs ==
    ASSUME NEW c, NEW e, NEW asked \in BOOLEAN, NEW j, NEW qu, Fine(c, e, asked, j, qu),
           j.kind \in {"decode", "score"}, NEW x, SoundExec(c, x), ~Past(x) \/ qu = <<>>
    PROVE  Consistent(c, x, asked, Idle, qu)
<1>1. Fine(c, x, asked, Idle, qu)
  BY EndsIs
<1>2. UnderWay(c, x, Idle)
  BY NoneIs
<1>. QED  BY <1>1, <1>2 DEF Consistent, PastOnlyFor

LEMMA DecodeStartOK ==
    ASSUME ~Careless, IInv, DecodeStart
    PROVE  IInv'
<1>1. PICK c, e, j, qu : c = conf /\ e = exec /\ j = job /\ qu = queue
  OBVIOUS
<1>2. PICK a : a = (open /\ prompted)
  OBVIOUS
<1>3. PICK failAt \in IF job.sync /\ conf.suffix # <<>> THEN Failure \ {2} ELSE {0} :
        LET r == IF job.sync /\ conf.suffix # <<>>
                 THEN ExecutorPrefill(exec, conf.suffix, 0, failAt) ELSE Ok(exec)
            last == IF job.sync /\ conf.suffix # <<>>
                    THEN conf.suffix[Len(conf.suffix)] ELSE lastId
        IN /\ exec' = r.e
           /\ IF r.ok
              THEN /\ lastId' = last
                   /\ phase' = IF job.sync THEN "decoded" ELSE phase
                   /\ job' = [job EXCEPT !.pc = "loop", !.start = exec'.step,
                                         !.given = [i \in 1..conf.heads |-> last]]
              ELSE UNCHANGED <<lastId, phase>> /\ JobEnds
  BY DEF DecodeStart
<1>4. PICK r : r = IF job.sync /\ conf.suffix # <<>>
                   THEN ExecutorPrefill(exec, conf.suffix, 0, failAt) ELSE Ok(exec)
  OBVIOUS
<1>5. PICK last : last = IF job.sync /\ conf.suffix # <<>>
                         THEN conf.suffix[Len(conf.suffix)] ELSE lastId
  OBVIOUS
<1>6. /\ exec' = r.e
      /\ r.ok => /\ lastId' = last
                 /\ phase' = IF job.sync THEN "decoded" ELSE phase
                 /\ job' = [job EXCEPT !.pc = "loop", !.start = exec'.step,
                                       !.given = [i \in 1..conf.heads |-> last]]
      /\ ~r.ok => lastId' = lastId /\ phase' = phase /\ job' = Idle
  BY <1>3, <1>4, <1>5 DEF JobEnds
<1>7. j.kind = "decode" /\ j.pc = "run" /\ UNCHANGED <<conf, open, saved, queue, prompted>>
  BY <1>1 DEF DecodeStart, At
<1>8. a \in BOOLEAN /\ Consistent(c, e, a, j, qu) /\ Built(c) /\ ValuesInv
  BY <1>1, <1>2, TakesInv
<1>9. /\ IsRecord(j) /\ IsJob(j) /\ SoundExec(c, e) /\ PastOnlyFor(c, e, j, qu) /\ j # Idle
      /\ Fine(c, e, a, j, qu)
  BY <1>1, <1>7, <1>8, JobIs DEF Consistent
<1>10. ~Past(e)
  BY <1>7, <1>9 DEF PastOnlyFor
<1>11. /\ SoundExec(c, r.e) /\ ~Past(r.e) /\ (Ready(e) => Ready(r.e)) /\ last \in Int
       /\ r.ok \in BOOLEAN /\ (~r.ok => qu = <<>>)
  <2>1. CASE job.sync /\ conf.suffix # <<>>
    <3>1. PICK ids : ids = c.suffix
      OBVIOUS
    <3>2. ids \in Seq(Int) /\ ids # <<>> /\ Len(ids) \in Nat \ {0} /\ 0 \in Nat /\ 0 < Len(ids)
      <4>1. ids \in Seq(Int) /\ ids # <<>>
        BY <1>1, <1>8, <2>1, <3>1 DEF Built
      <4>. QED  BY <4>1, EmptySeq
    <3>3. r = ExecutorPrefill(exec, ids, 0, failAt)
      BY <1>1, <1>4, <2>1, <3>1
    <3>4. SoundExec(conf, exec) /\ ~Past(exec) /\ Built(conf)
      BY <1>1, <1>8, <1>9, <1>10
    <3>5. Refilled(conf, exec, ids, 0, failAt, r)
      BY <3>2, <3>3, <3>4, ExecutorPrefillLeaves
    <3>6. /\ r.ok \in BOOLEAN /\ SoundExec(c, r.e) /\ ~Past(r.e) /\ (failAt = 0 => r.ok = TRUE)
          /\ Ready(e) => Ready(r.e)
      BY <1>1, <3>5 DEF Refilled
    <3>7. last \in Int
      <4>1. last = ids[Len(ids)]
        BY <1>1, <1>5, <2>1, <3>1
      <4>2. Len(ids) \in 1..Len(ids)
        BY <3>2
      <4>. QED  BY <3>2, <4>1, <4>2
    <3>8. qu = <<>>
      BY <1>1, <1>9, <2>1 DEF Fine, NothingBehind
    <3>. QED  BY <3>6, <3>7, <3>8
  <2>2. CASE ~(job.sync /\ conf.suffix # <<>>)
    <3>1. r = Ok(e) /\ last = lastId
      BY <1>1, <1>4, <1>5, <2>2
    <3>2. r.e = e /\ r.ok = TRUE
      BY <3>1 DEF Ok
    <3>. QED  BY <1>8, <1>9, <1>10, <3>1, <3>2 DEF ValuesInv
  <2>. QED  BY <2>1, <2>2
<1>12. PICK x : x = r.e
  OBVIOUS
<1>13. /\ conf' = c /\ a = (open' /\ prompted') /\ queue' = qu /\ exec' = x
  BY <1>1, <1>2, <1>6, <1>7, <1>12
<1>14. CASE r.ok
  <2>1. PICK k : k = [j EXCEPT !.pc = "loop", !.start = x.step,
                               !.given = [i \in 1..c.heads |-> last]]
    OBVIOUS
  <2>2. PICK given, start : given = [i \in 1..c.heads |-> last] /\ start = x.step
    OBVIOUS
  <2>3. Moved(j, k, "loop", j.ids, given)
    BY <1>9, <2>1, <2>2, StartIs
  <2>4. Moved(j, k, "loop", j.ids, [i \in 1..c.heads |-> last])
    BY <2>2, <2>3
  <2>5. Consistent(c, x, a, k, qu)
    BY <1>7, <1>8, <1>9, <1>11, <1>12, <2>4, BegunIs
  <2>6. job' = k
    BY <1>1, <1>6, <1>12, <1>14, <2>1
  <2>7. ValuesInv'
    <3>1. phase' \in {"fresh", "prefilled", "decoded"}
      BY <1>6, <1>8, <1>14 DEF ValuesInv
    <3>2. lastId' \in Int
      BY <1>6, <1>11, <1>14
    <3>. QED  BY <1>7, <1>8, <3>1, <3>2 DEF ValuesInv
  <2>. QED  BY <1>13, <2>5, <2>6, <2>7, GivesInv
<1>15. CASE ~r.ok
  <2>1. PICK k : k = Idle
    OBVIOUS
  <2>2. Consistent(c, x, a, k, qu)
    BY <1>7, <1>8, <1>9, <1>11, <1>12, <2>1, EndedIs
  <2>3. ValuesInv'
    BY <1>6, <1>7, <1>8, <1>15 DEF ValuesInv
  <2>. QED  BY <1>6, <1>13, <1>15, <2>1, <2>2, <2>3, GivesInv
<1>. QED  BY <1>14, <1>15

\* The last token is given back, and is pending.
LEMMA GiveBackIs ==
    ASSUME IInv, job.kind = "decode", job.pc # "run", NEW failAt, NEW r, r = GiveBack(failAt)
    PROVE  SoundExec(conf, r.e) /\ ~Past(r.e)
<1>1. PICK c, e, j, qu : c = conf /\ e = exec /\ j = job /\ qu = queue
  OBVIOUS
<1>2. /\ SoundExec(c, e) /\ Built(c) /\ UnderWay(c, e, j) /\ PastOnlyFor(c, e, j, qu)
      /\ j # Idle /\ j.kind = "decode" /\ j.pc # "run"
  BY <1>1, JobIs
<1>3. CASE c.sampler # "external"
  <2>1. r = Ok(e)
    BY <1>1, <1>3 DEF GiveBack
  <2>2. r.e = e
    BY <2>1 DEF Ok
  <2>. QED  BY <1>1, <1>2, <1>3, <2>2 DEF PastOnlyFor
<1>4. CASE c.sampler = "external"
  <2>1. /\ j.given \in Seq(Int) /\ Len(j.given) = c.heads
        /\ Ready(e) \/ Past(e)
    BY <1>2, <1>4 DEF UnderWay
  <2>2. PICK n, back : n = e.step - 1 /\ back = SetCurrentStep(e, n)
    OBVIOUS
  <2>3. c.sampler # "npu"
    BY <1>4
  <2>4. SoundExec(c, back.e) /\ SetTo(e, n, back)
    BY <1>2, <2>2, <2>3, SetBack
  <2>5. PICK g, q : Sound(c, e, g, q)
    BY <1>2 DEF SoundExec
  <2>6. Counts(c, e, g, q)
    BY <1>2, <2>5, SoundCounts
  <2>7. e.step \in Nat /\ e.step >= 1 /\ n \in 0..e.step
    <3>1. g \in Nat /\ q \in 0..1 /\ e.step \in Nat /\ (e.step = g + 1 \/ e.step = g + q + 1)
      BY <2>1, <2>6 DEF Counts
    <3>. QED  BY <2>2, <3>1
  <2>8. back.e.step = n /\ back.ok = TRUE
    BY <2>4, <2>7 DEF SetTo
  <2>9. ~Past(back.e)
    <3>1. back.e.tokens = e.tokens
      BY <2>4, <2>7 DEF SetTo
    <3>2. TokenCount(back.e.tokens) = g + q
      BY <2>6, <3>1 DEF Counts
    <3>3. n <= g + q /\ g + q \in Nat /\ n \in Nat
      BY <2>2, <2>6, <2>7 DEF Counts
    <3>. QED  BY <2>8, <3>2, <3>3 DEF Past
  <2>10. PICK ids, z : ids = <<j.given[1]>> /\ z = back.e
    OBVIOUS
  <2>11. ids \in Seq(Int) /\ 0 \in Nat /\ 0 < Len(ids)
    <3>1. c.heads \in Nat \ {0}
      BY <1>2 DEF Built
    <3>2. 1 \in 1..Len(j.given)
      BY <2>1, <3>1
    <3>3. j.given[1] \in Int
      BY <2>1, <3>2
    <3>. QED  BY <2>10, <3>3
  <2>12. r = Prefill(c, z, ids, 0, failAt)
    BY <1>1, <1>4, <2>2, <2>8, <2>10 DEF GiveBack
  <2>13. Refilled(c, z, ids, 0, failAt, r)
    BY <1>2, <2>3, <2>4, <2>9, <2>10, <2>11, <2>12, PrefillLeaves
  <2>. QED  BY <1>1, <2>13 DEF Refilled
<1>. QED  BY <1>3, <1>4

\* A decode that ends, cancelled or not.
LEMMA DecodeEnds ==
    ASSUME IInv, job.kind = "decode", job.pc # "run", NEW failAt,
           exec' = GiveBack(failAt).e, job' = Idle,
           queue' = queue, prompted' = prompted, UNCHANGED session
    PROVE  IInv'
<1>1. PICK c, e, j, qu, r, x : /\ c = conf /\ e = exec /\ j = job /\ qu = queue
                               /\ r = GiveBack(failAt) /\ x = r.e
  OBVIOUS
<1>2. PICK a : a = (open /\ prompted)
  OBVIOUS
<1>3. a \in BOOLEAN /\ Consistent(c, e, a, j, qu)
  BY <1>1, <1>2, TakesInv
<1>4. Fine(c, e, a, j, qu) /\ j.kind \in {"decode", "score"}
  BY <1>1, <1>3 DEF Consistent
<1>5. SoundExec(c, x) /\ ~Past(x)
  BY <1>1, GiveBackIs
<1>6. PICK k : k = Idle
  OBVIOUS
<1>7. Consistent(c, x, a, k, qu)
  BY <1>3, <1>4, <1>5, <1>6, EndedIs
<1>8. ValuesInv' /\ conf' = c /\ a = (open' /\ prompted')
  BY <1>1, <1>2, SameValues
<1>. QED  BY <1>1, <1>6, <1>7, <1>8, GivesInv

LEMMA DecodeCancelledOK ==
    ASSUME IInv, DecodeCancelled
    PROVE  IInv'
<1>1. PICK failAt : exec' = GiveBack(failAt).e
  BY DEF DecodeCancelled
<1>2. /\ job.kind = "decode" /\ job.pc = "loop" /\ job' = Idle /\ queue' = queue
      /\ prompted' = prompted /\ UNCHANGED session
  BY DEF DecodeCancelled, At, JobEnds
<1>. QED  BY <1>1, <1>2, DecodeEnds

LEMMA DecodeFinishOK ==
    ASSUME IInv, DecodeFinish
    PROVE  IInv'
<1>1. PICK failAt : exec' = GiveBack(failAt).e
  BY DEF DecodeFinish
<1>2. /\ job.kind = "decode" /\ job.pc = "finish" /\ job' = Idle /\ queue' = queue
      /\ prompted' = prompted /\ UNCHANGED session
  BY DEF DecodeFinish, At, JobEnds
<1>. QED  BY <1>1, <1>2, DecodeEnds

(***************************************************************************)
(* One step of a decode, with each kind of sampler.                         *)
(***************************************************************************)
LEMMA SampledAre ==
    ASSUME NEW n \in Nat \ {0}, NEW out \in [1..n -> Sampled]
    PROVE  out \in Seq(Int) /\ Len(out) = n /\ out[1] \in Nat
<1>1. PICK u : u = out
  OBVIOUS
<1>2. u = [i \in 1..n |-> u[i]] /\ \A i \in 1..n : u[i] \in Nat
  BY <1>1, InputsAreTokens
<1>3. n \in Nat /\ \A i \in 1..n : u[i] \in Int
  BY <1>2
<1>4. u \in Seq(Int) /\ Len(u) = n
  BY <1>2, <1>3, IsSequence
<1>. QED  BY <1>1, <1>2, <1>4

LEMMA OutputsAre ==
    ASSUME IInv, NEW out \in Outputs
    PROVE  /\ out \in Seq(Int) /\ Len(out) \in Nat \ {0} /\ out[1] \in Nat
           /\ conf.sampler = "draft" =>
                Len(out) <= conf.draft + (IF exec.ranDecode THEN 1 ELSE 2)
           /\ conf.sampler # "draft" => Len(out) = conf.heads
<1>1. Built(conf)
  BY TakesInv
<1>2. CASE conf.sampler = "draft"
  <2>1. PICK lo : lo = IF exec.ranDecode THEN 1 ELSE 2
    OBVIOUS
  <2>2. lo \in {1, 2} /\ conf.draft \in Nat
    BY <1>1, <2>1 DEF Built
  <2>3. PICK n \in lo..(conf.draft + lo) : out \in [1..n -> Sampled]
    BY <1>2, <2>1 DEF Outputs
  <2>4. n \in Nat \ {0} /\ n <= conf.draft + lo
    BY <2>2, <2>3
  <2>5. out \in Seq(Int) /\ Len(out) = n /\ out[1] \in Nat
    BY <2>3, <2>4, SampledAre
  <2>. QED  BY <1>2, <2>1, <2>4, <2>5
<1>3. CASE conf.sampler # "draft"
  <2>1. out \in [1..conf.heads -> Sampled] /\ conf.heads \in Nat \ {0}
    BY <1>1, <1>3 DEF Outputs, Built
  <2>2. out \in Seq(Int) /\ Len(out) = conf.heads /\ out[1] \in Nat
    BY <2>1, SampledAre
  <2>. QED  BY <1>3, <2>1, <2>2
<1>. QED  BY <1>2, <1>3

\* What a decode leaves.
Stepped(c, failAt, r) ==
    /\ r.ok \in BOOLEAN /\ SoundExec(c, r.e)
    /\ r.ok /\ c.sampler = "external" => Past(r.e)
    /\ r.ok /\ c.sampler # "external" => ~Past(r.e)
    /\ r.ok /\ c.sampler # "external" /\ c.heads # 1 => r.e.step = TokenCount(r.e.tokens)
    /\ ~r.ok => ~Past(r.e) \/ failAt # 0

LEMMA FailedIs ==
    ASSUME NEW c, Built(c), NEW x, NEW past, Failed(c, x, past)
    PROVE  SoundExec(c, x) /\ (~Past(x) \/ past = TRUE)
<1>1. PICK h, p : Sound(c, x, h, p) /\ (x.step = h + p + 1 => past = TRUE)
  BY DEF Failed
<1>2. SoundExec(c, x) /\ Counts(c, x, h, p)
  BY <1>1, SoundIs
<1>3. Past(x) <=> x.step = h + p + 1
  BY <1>2 DEF Counts
<1>. QED  BY <1>1, <1>2, <1>3

LEMMA DraftStep ==
    ASSUME NEW c, Built(c), c.sampler = "draft", NEW e, SoundExec(c, e), ~Past(e),
           NEW out \in Seq(Int), Len(out) >= 1,
           Len(out) <= c.draft + (IF e.ranDecode THEN 1 ELSE 2),
           NEW failAt, NEW r, r = DecodeDrafted(c, e, out, failAt)
    PROVE  Stepped(c, failAt, r)
<1>1. PICK g, q : Sound(c, e, g, q)
  BY DEF SoundExec
<1>2. Counts(c, e, g, q)
  BY <1>1, SoundCounts
<1>3. PICK past : past = FALSE
  OBVIOUS
<1>4. past \in BOOLEAN /\ (e.step = g + q + 1 => past = TRUE)
  BY <1>2, <1>3 DEF Counts
<1>5. Drafting(c, past, failAt, r)
  BY <1>1, <1>4, DecodeDraftedIs
<1>6. c.heads = 1
  BY DEF Built
<1>7. CASE r.ok = TRUE
  <2>1. PICK h : Sound(c, r.e, h, 1) /\ r.e.step <= h + 1
    BY <1>5, <1>7 DEF Drafting
  <2>2. SoundExec(c, r.e) /\ Counts(c, r.e, h, 1)
    BY <2>1, SoundIs
  <2>3. ~Past(r.e)
    BY <2>1, <2>2 DEF Counts
  <2>. QED  BY <1>6, <1>7, <2>2, <2>3 DEF Stepped
<1>8. CASE r.ok # TRUE
  <2>1. r.ok = FALSE
    BY <1>5, <1>8 DEF Drafting
  <2>2. SoundExec(c, r.e) /\ (~Past(r.e) \/ failAt # 0)
    <3>1. CASE Failed(c, r.e, past)
      BY <1>3, <3>1, FailedIs
    <3>2. CASE failAt # 0 /\ \E h, p : Sound(c, r.e, h, p)
      BY <3>2, SoundIs
    <3>. QED  BY <1>5, <1>8, <3>1, <3>2 DEF Drafting
  <2>. QED  BY <1>8, <2>1, <2>2 DEF Stepped
<1>. QED  BY <1>7, <1>8

LEMMA SampledStep ==
    ASSUME NEW c, Built(c), c.sampler \in {"internal", "ahead"}, NEW e, SoundExec(c, e), ~Past(e),
           c.heads = 1 \/ e.step = TokenCount(e.tokens),
           NEW out \in Seq(Int), Len(out) = c.heads,
           NEW failAt, NEW fail \in BOOLEAN, NEW r, r = DecodeSampled(c, e, out, fail)
    PROVE  Stepped(c, failAt, r)
<1>1. PICK g, q : Sound(c, e, g, q)
  BY DEF SoundExec
<1>2. Counts(c, e, g, q)
  BY <1>1, SoundCounts
<1>3. PICK past : past = FALSE
  OBVIOUS
<1>4. past \in BOOLEAN /\ (e.step = g + q + 1 => past = TRUE) /\ c.sampler # "npu"
      /\ (c.heads = 1 \/ e.step >= g + q) /\ Len(out) >= c.heads
  <2>1. e.step # g + q + 1 /\ TokenCount(e.tokens) = g + q /\ g + q \in Nat
    BY <1>2 DEF Counts
  <2>2. c.heads \in Nat
    BY DEF Built
  <2>3. past \in BOOLEAN /\ (e.step = g + q + 1 => past = TRUE)
    BY <1>3, <2>1, Zenon
  <2>4. c.heads = 1 \/ e.step >= g + q
    BY <2>1
  <2>5. Len(out) >= c.heads
    BY <2>2
  <2>6. c.sampler # "npu"
    OBVIOUS
  <2>. QED  BY <2>3, <2>4, <2>5, <2>6
<1>5. Sampling(c, e, past, r)
  BY <1>1, <1>4, DecodeSampledIs
<1>6. CASE r.ok = TRUE
  <2>1. PICK h : Sound(c, r.e, h, 1) /\ r.e.step = h + 1
    BY <1>5, <1>6 DEF Sampling
  <2>2. SoundExec(c, r.e) /\ Counts(c, r.e, h, 1)
    BY <2>1, SoundIs
  <2>3. ~Past(r.e) /\ r.e.step = TokenCount(r.e.tokens)
    BY <2>1, <2>2 DEF Counts
  <2>. QED  BY <1>6, <2>2, <2>3 DEF Stepped
<1>7. CASE r.ok # TRUE
  <2>1. r.ok = FALSE
    BY <1>5, <1>7 DEF Sampling
  <2>2. Failed(c, r.e, past)
    BY <1>5, <1>7 DEF Sampling
  <2>3. SoundExec(c, r.e) /\ ~Past(r.e)
    BY <1>3, <2>2, FailedIs
  <2>. QED  BY <1>7, <2>1, <2>3 DEF Stepped
<1>. QED  BY <1>6, <1>7

LEMMA NpuStep ==
    ASSUME NEW c, Built(c), c.sampler = "npu", NEW e, SoundExec(c, e),
           NEW out \in Seq(Int), Len(out) >= 1,
           NEW failAt, NEW fail \in BOOLEAN, NEW r, r = NpuDecode(e, out, fail)
    PROVE  Stepped(c, failAt, r)
<1>1. PICK g, q : Sound(c, e, g, q)
  BY DEF SoundExec
<1>2. r.ok \in BOOLEAN /\ \E h, p : Sound(c, r.e, h, p)
  BY <1>1, NpuDecodeIs
<1>3. PICK h, p : Sound(c, r.e, h, p)
  BY <1>2
<1>4. SoundExec(c, r.e) /\ Counts(c, r.e, h, p)
  BY <1>3, SoundIs
<1>5. r.e.step = h + p
  BY <1>3 DEF Sound
<1>6. ~Past(r.e)
  BY <1>4, <1>5 DEF Counts
<1>7. c.heads = 1
  BY DEF Built
<1>. QED  BY <1>2, <1>4, <1>6, <1>7 DEF Stepped

GivenRun(c, past, r) ==
    /\ r.ok \in BOOLEAN /\ SoundExec(c, r.e)
    /\ r.ok => Past(r.e)
    /\ ~r.ok => ~Past(r.e) \/ past = TRUE

\* A decode whose token the caller gives, for the candidates of a turn or for
\* one step of a scoring.
LEMMA LogitsStep ==
    ASSUME NEW c, Built(c), c.sampler # "npu", NEW e, SoundExec(c, e),
           NEW given \in Seq(Int), Len(given) = c.heads,
           NEW past \in BOOLEAN,
           Ready(e) \/ (Past(e) /\ (past = TRUE \/ given[1] \in Nat)),
           NEW fail \in BOOLEAN, NEW r, r = DecodeLogits(c, e, given, fail)
    PROVE  GivenRun(c, past, r)
<1>1. PICK g, q : Sound(c, e, g, q)
  BY DEF SoundExec
<1>2. Counts(c, e, g, q)
  BY <1>1, SoundCounts
<1>3. e.step = g + 1 /\ ~e.ahead /\ e.step >= g + q
  <2>1. CASE Ready(e)
    BY <1>2, <2>1 DEF Counts
  <2>2. CASE Past(e)
    BY <1>2, <2>2 DEF Counts
  <2>. QED  BY <2>1, <2>2
<1>4. e.step = g + q + 1 /\ (given = <<>> \/ given[1] < 0) => past = TRUE
  <2>1. given # <<>>
    <3>1. Len(given) # 0
      BY DEF Built
    <3>. QED  BY <3>1
  <2>2. Ready(e) => e.step # g + q + 1
    BY <1>2 DEF Counts
  <2>3. given[1] \in Nat => ~(given[1] < 0)
    OBVIOUS
  <2>. QED  BY <2>1, <2>2, <2>3
<1>5. Decoded(c, e, past, r)
  <2>1. c.heads = 1 \/ e.step >= g + q
    BY <1>3
  <2>2. given = <<>> \/ Len(given) >= c.heads
    BY DEF Built
  <2>3. given = <<>> \/ given[1] < 0 \/ (e.step = g + 1 /\ ~e.ahead)
    BY <1>3
  <2>. QED  BY <1>1, <1>4, <2>1, <2>2, <2>3, DecodeLogitsIs
<1>6. CASE r.ok = TRUE
  <2>1. PICK h : RunDone(c, r.e, h)
    BY <1>5, <1>6 DEF Decoded
  <2>2. ~r.e.ahead
    BY <1>3, <1>5, <1>6 DEF Decoded
  <2>3. Sound(c, r.e, h, 0) /\ r.e.step = h + 1
    BY <2>1, <2>2, RunDoneIs
  <2>4. SoundExec(c, r.e) /\ Counts(c, r.e, h, 0)
    BY <2>3, SoundIs
  <2>5. Past(r.e)
    BY <2>3, <2>4 DEF Counts
  <2>. QED  BY <1>6, <2>4, <2>5 DEF GivenRun
<1>7. CASE r.ok # TRUE
  <2>1. r.ok = FALSE
    BY <1>5, <1>7 DEF Decoded
  <2>2. Failed(c, r.e, past)
    BY <1>5, <1>7 DEF Decoded
  <2>3. SoundExec(c, r.e) /\ (~Past(r.e) \/ past = TRUE)
    BY <2>2, FailedIs
  <2>. QED  BY <2>1, <2>3 DEF GivenRun
<1>. QED  BY <1>6, <1>7

LEMMA DecodeOnceIs ==
    ASSUME IInv, job.kind = "decode", job.pc = "loop", NEW out \in Outputs,
           NEW failAt, NEW r, r = DecodeOnce(out, failAt)
    PROVE  Stepped(conf, failAt, r)
<1>1. PICK c, e, j, qu : c = conf /\ e = exec /\ j = job /\ qu = queue
  OBVIOUS
<1>2. /\ SoundExec(c, e) /\ Built(c) /\ UnderWay(c, e, j) /\ PastOnlyFor(c, e, j, qu)
      /\ j # Idle /\ j.kind = "decode" /\ j.pc # "run"
  BY <1>1, JobIs
<1>3. /\ out \in Seq(Int) /\ Len(out) \in Nat \ {0} /\ out[1] \in Nat
      /\ c.sampler = "draft" => Len(out) <= c.draft + (IF e.ranDecode THEN 1 ELSE 2)
      /\ c.sampler # "draft" => Len(out) = c.heads
  BY <1>1, OutputsAre
<1>4. Len(out) >= 1
  BY <1>3
<1>5. c.sampler # "external" => ~Past(e)
  BY <1>2 DEF PastOnlyFor
<1>6. PICK fail \in BOOLEAN : fail = (failAt # 0)
  OBVIOUS
<1>7. CASE c.sampler = "draft"
  <2>1. r = DecodeDrafted(c, e, out, failAt)
    BY <1>1, <1>7 DEF DecodeOnce, Npu
  <2>2. Len(out) <= c.draft + (IF e.ranDecode THEN 1 ELSE 2)
    BY <1>3, <1>7
  <2>. QED  BY <1>1, <1>2, <1>3, <1>4, <1>5, <1>7, <2>1, <2>2, DraftStep
<1>8. CASE c.sampler = "external"
  <2>1. r = DecodeLogits(c, e, j.given, fail)
    BY <1>1, <1>6, <1>8 DEF DecodeOnce, Npu
  <2>2. PICK given : given = j.given
    OBVIOUS
  <2>3. PICK past : past = FALSE
    OBVIOUS
  <2>4. /\ given \in Seq(Int) /\ Len(given) = c.heads
        /\ Ready(e) \/ (Past(e) /\ (past = TRUE \/ given[1] \in Nat))
    BY <1>2, <1>8, <2>2 DEF UnderWay
  <2>5. past \in BOOLEAN
    BY <2>3
  <2>6. r = DecodeLogits(c, e, given, fail) /\ c.sampler # "npu"
    BY <1>8, <2>1, <2>2
  <2>7. GivenRun(c, past, r)
    BY <1>2, <2>4, <2>5, <2>6, LogitsStep
  <2>. QED  BY <1>1, <1>8, <2>3, <2>7 DEF Stepped, GivenRun
<1>9. CASE c.sampler = "npu"
  <2>1. r = NpuDecode(e, out, fail)
    BY <1>1, <1>6, <1>9 DEF DecodeOnce, Npu
  <2>. QED  BY <1>1, <1>2, <1>3, <1>4, <1>9, <2>1, NpuStep
<1>10. CASE c.sampler \in {"internal", "ahead"}
  <2>1. r = DecodeSampled(c, e, out, fail)
    BY <1>1, <1>6, <1>10 DEF DecodeOnce, Npu
  <2>2. c.heads = 1 \/ e.step = TokenCount(e.tokens)
    BY <1>2, <1>10 DEF UnderWay
  <2>. QED  BY <1>1, <1>2, <1>3, <1>5, <1>10, <2>1, <2>2, SampledStep
<1>. QED  BY <1>2, <1>7, <1>8, <1>9, <1>10 DEF Built

\* The tokens of a draft from the stop token on are taken back.
LEMMA TakenBack ==
    ASSUME NEW c, Built(c), c.sampler # "npu", NEW e, SoundExec(c, e), ~Past(e), NEW n,
           NEW r, r = SetCurrentStep(e, n)
    PROVE  SoundExec(c, r.e) /\ ~Past(r.e)
<1>1. SoundExec(c, r.e) /\ SetTo(e, n, r)
  BY SetBack
<1>2. PICK g, q : Sound(c, e, g, q)
  BY DEF SoundExec
<1>3. Counts(c, e, g, q)
  BY <1>2, SoundCounts
<1>4. CASE n \in 0..e.step
  <2>1. r.e.step = n /\ r.e.tokens = e.tokens
    BY <1>1, <1>4 DEF SetTo
  <2>2. TokenCount(r.e.tokens) = g + q
    BY <1>3, <2>1 DEF Counts
  <2>3. n <= g + q /\ n \in Nat /\ g + q \in Nat
    BY <1>3, <1>4 DEF Counts
  <2>. QED  BY <1>1, <2>1, <2>2, <2>3 DEF Past
<1>5. CASE n \notin 0..e.step
  BY <1>1, <1>5 DEF SetTo
<1>. QED  BY <1>4, <1>5

LEMMA DecodeStepOK ==
    ASSUME ~Careless, IInv, DecodeStep
    PROVE  IInv'
<1>1. PICK out \in Outputs, failAt \in Failure :
        AfterDecode(DecodeOnce(out, failAt), out, StopInDraft(out))
  BY DEF DecodeStep
<1>2. /\ job.kind = "decode" /\ job.pc = "loop" /\ queue' = queue
      /\ prompted' = prompted /\ UNCHANGED session
  BY DEF DecodeStep, At
<1>3. PICK c, e, j, qu : c = conf /\ e = exec /\ j = job /\ qu = queue
  OBVIOUS
<1>4. PICK a : a = (open /\ prompted)
  OBVIOUS
<1>5. PICK r, drop : r = DecodeOnce(out, failAt) /\ drop = StopInDraft(out)
  OBVIOUS
<1>6. a \in BOOLEAN /\ Consistent(c, e, a, j, qu) /\ Built(c)
  BY <1>3, <1>4, TakesInv
<1>7. Fine(c, e, a, j, qu) /\ j.kind \in {"decode", "score"} /\ UnderWay(c, e, j)
  BY <1>2, <1>3, <1>6 DEF Consistent
<1>8. IsRecord(j) /\ IsJob(j)
  BY <1>2, <1>3, JobIs
<1>9. Stepped(c, failAt, r)
  BY <1>2, <1>3, <1>5, DecodeOnceIs
<1>10. r.ok \in BOOLEAN /\ SoundExec(c, r.e) /\ (~r.ok => ~Past(r.e) \/ failAt # 0)
  BY <1>9 DEF Stepped
<1>11. ValuesInv' /\ conf' = c /\ a = (open' /\ prompted')
  BY <1>2, <1>3, <1>4, SameValues
<1>12. PICK step : step = r.e.step - drop
  OBVIOUS
<1>13. PICK found :
         found = IF conf.sampler = "draft"
                 THEN {h \in {1} : \E k \in DOMAIN out : out[k] = Stop}
                 ELSE job.found \cup {h \in 1..conf.heads : out[h] = Stop}
  OBVIOUS
<1>14. PICK stop : stop = ShouldStop(found = 1..conf.heads, step - job.start, step)
  OBVIOUS
<1>15. /\ ~r.ok => exec' = r.e /\ job' = Idle
       /\ r.ok => /\ exec' = IF drop = 0 THEN r.e ELSE SetCurrentStep(r.e, step).e
                  /\ job' = [job EXCEPT
                       !.found = found,
                       !.told  = @ \o IF conf.sampler = "draft" THEN SubSeq(out, 1, Len(out) - drop)
                                      ELSE <<out[1]>>,
                       !.given = IF conf.sampler = "external" THEN out ELSE @,
                       !.pc = IF stop THEN "finish" ELSE "loop"]
  BY <1>1, <1>5, <1>12, <1>13, <1>14 DEF AfterDecode, JobEnds
<1>16. CASE ~r.ok
  <2>1. PICK x, k : x = r.e /\ k = Idle
    OBVIOUS
  <2>2. ~Past(x) \/ qu = <<>>
    BY <1>1, <1>3, <1>10, <1>16, <2>1, FailureIs
  <2>3. Consistent(c, x, a, k, qu)
    BY <1>6, <1>7, <1>10, <2>1, <2>2, EndedIs
  <2>. QED  BY <1>2, <1>3, <1>11, <1>15, <1>16, <2>1, <2>3, GivesInv
<1>17. CASE r.ok
  <2>1. PICK pc, more, given, k :
          /\ pc = IF stop THEN "finish" ELSE "loop"
          /\ more = IF conf.sampler = "draft" THEN SubSeq(out, 1, Len(out) - drop)
                    ELSE <<out[1]>>
          /\ given = IF c.sampler = "external" THEN out ELSE j.given
          /\ k = [j EXCEPT !.found = found, !.told = @ \o more, !.given = given, !.pc = pc]
    OBVIOUS
  <2>2. job' = k
    BY <1>3, <1>15, <1>17, <2>1
  <2>3. Moved(j, k, pc, j.ids, given)
    BY <1>8, <2>1, StepIs
  <2>4. /\ IsRecord(k) /\ k.kind = "decode" /\ k.sync = j.sync /\ k.generate = j.generate
        /\ k.pc = pc /\ k.ids = j.ids /\ k.given = given /\ pc \in {"loop", "finish"}
    BY <1>2, <1>3, <2>1, <2>3 DEF Moved
  <2>5. IsJob(k) /\ k.kind = j.kind /\ k.pc # "run"
    BY <1>2, <1>3, <1>8, <2>4, IdleIs DEF IsJob
  <2>6. PICK x : x = exec'
    OBVIOUS
  <2>7. Fine(c, x, a, k, qu)
    BY <1>6, <1>7, <2>4, <2>5, GoesOn
  <2>8. /\ SoundExec(c, x)
        /\ c.sampler = "external" => Past(x)
        /\ c.sampler # "external" => ~Past(x)
        /\ c.sampler # "external" /\ c.heads # 1 => x.step = TokenCount(x.tokens)
    <3>1. CASE drop = 0
      <4>1. x = r.e
        BY <1>15, <1>17, <2>6, <3>1
      <4>. QED  BY <1>9, <1>17, <4>1 DEF Stepped
    <3>2. CASE drop # 0
      <4>1. c.sampler = "draft"
        BY <1>3, <1>5, <3>2 DEF StopInDraft
      <4>2. c.heads = 1 /\ c.sampler # "npu" /\ c.sampler # "external"
        BY <1>6, <4>1 DEF Built
      <4>3. PICK y, z : y = r.e /\ z = SetCurrentStep(y, step)
        OBVIOUS
      <4>4. SoundExec(c, y) /\ ~Past(y)
        BY <1>9, <1>17, <4>2, <4>3 DEF Stepped
      <4>5. SoundExec(c, z.e) /\ ~Past(z.e)
        BY <1>6, <4>2, <4>3, <4>4, TakenBack
      <4>6. x = z.e
        BY <1>15, <1>17, <2>6, <3>2, <4>3
      <4>. QED  BY <4>2, <4>5, <4>6
    <3>. QED  BY <3>1, <3>2
  <2>9. c.sampler = "external" => given \in Seq(Int) /\ Len(given) = c.heads /\ given[1] \in Nat
    <3>1. out \in Seq(Int) /\ out[1] \in Nat /\ (c.sampler # "draft" => Len(out) = c.heads)
      BY <1>3, OutputsAre
    <3>. QED  BY <2>1, <3>1
  <2>10. UnderWay(c, x, k)
    BY <2>4, <2>8, <2>9 DEF UnderWay
  <2>11. PastOnlyFor(c, x, k, qu)
    BY <2>4, <2>5, <2>8 DEF PastOnlyFor
  <2>12. Consistent(c, x, a, k, qu)
    BY <2>7, <2>8, <2>10, <2>11 DEF Consistent
  <2>. QED  BY <1>2, <1>3, <1>11, <2>2, <2>6, <2>12, GivesInv
<1>. QED  BY <1>10, <1>16, <1>17

LEMMA ScoreStepOK ==
    ASSUME IInv, ScoreStep
    PROVE  IInv'
<1>1. PICK failAt \in Failure \ {2} :
         LET given == IF job.pc = "run" THEN <<lastId>> ELSE job.given
             r     == ExecutorDecodeLogits(exec, given, failAt # 0)
         IN IF job.ids = <<>> \/ Len(job.ids) >= MaxTokens
            THEN JobEnds /\ UNCHANGED exec
            ELSE /\ exec' = r.e
                 /\ IF r.ok
                    THEN /\ job' = [job EXCEPT !.pc = "loop", !.ids = Tail(@),
                                               !.given = <<Head(job.ids)>>]
                         ELSE JobEnds
  BY DEF ScoreStep
<1>2. job.kind = "score" /\ queue' = queue /\ prompted' = prompted /\ UNCHANGED session
  BY DEF ScoreStep
<1>3. PICK c, e, j, qu : c = conf /\ e = exec /\ j = job /\ qu = queue
  OBVIOUS
<1>4. PICK a : a = (open /\ prompted)
  OBVIOUS
<1>5. a \in BOOLEAN /\ Consistent(c, e, a, j, qu) /\ Built(c) /\ ValuesInv
  BY <1>3, <1>4, TakesInv
<1>6. /\ SoundExec(c, e) /\ Fine(c, e, a, j, qu) /\ j.kind \in {"decode", "score"}
      /\ UnderWay(c, e, j) /\ j.kind = "score"
  BY <1>2, <1>3, <1>5 DEF Consistent
<1>7. IsRecord(j) /\ IsJob(j) /\ Fits(c, j) /\ j.ids \in Seq(Int) /\ j # Idle
  BY <1>2, <1>3, JobIs
<1>8. qu = <<>> /\ c.heads = 1
  BY <1>6, <1>7 DEF Fine, NothingBehind, Fits
<1>9. ValuesInv' /\ conf' = c /\ a = (open' /\ prompted')
  BY <1>2, <1>3, <1>4, SameValues
<1>10. PICK given : given = IF job.pc = "run" THEN <<lastId>> ELSE job.given
  OBVIOUS
<1>11. PICK fail \in BOOLEAN : fail = (failAt # 0)
  OBVIOUS
<1>12. PICK r : r = ExecutorDecodeLogits(exec, given, fail)
  OBVIOUS
<1>13. /\ job.ids = <<>> \/ Len(job.ids) >= MaxTokens => job' = Idle /\ exec' = exec
       /\ ~(job.ids = <<>> \/ Len(job.ids) >= MaxTokens) =>
            /\ exec' = r.e
            /\ r.ok => job' = [job EXCEPT !.pc = "loop", !.ids = Tail(@),
                                          !.given = <<Head(job.ids)>>]
            /\ ~r.ok => job' = Idle
  BY <1>1, <1>10, <1>11, <1>12 DEF JobEnds
<1>14. ASSUME SoundExec(c, exec'), job' = Idle  PROVE IInv'
  <2>1. PICK x, k : x = exec' /\ k = Idle
    OBVIOUS
  <2>2. Consistent(c, x, a, k, qu)
    BY <1>5, <1>6, <1>8, <1>14, <2>1, EndedIs
  <2>. QED  BY <1>2, <1>3, <1>9, <1>14, <2>1, <2>2, GivesInv
<1>15. CASE job.ids = <<>> \/ Len(job.ids) >= MaxTokens
  BY <1>3, <1>6, <1>13, <1>14, <1>15
<1>16. CASE ~(job.ids = <<>> \/ Len(job.ids) >= MaxTokens)
  <2>1. CASE c.sampler = "npu"
    <3>1. r = Err(exec)
      BY <1>3, <1>12, <2>1 DEF ExecutorDecodeLogits, Npu
    <3>2. r.e = exec /\ ~r.ok
      BY <3>1 DEF Err
    <3>. QED  BY <1>3, <1>6, <1>13, <1>14, <1>16, <3>2
  <2>2. CASE c.sampler # "npu"
    <3>1. r = DecodeLogits(c, e, given, fail)
      BY <1>3, <1>12, <2>2 DEF ExecutorDecodeLogits, Npu
    <3>2. PICK past : past = TRUE
      OBVIOUS
    <3>3. /\ given \in Seq(Int) /\ Len(given) = c.heads
          /\ Ready(e) \/ (Past(e) /\ (past = TRUE \/ given[1] \in Nat))
      <4>1. CASE j.pc = "run"
        <5>1. given = <<lastId>> /\ lastId \in Int
          BY <1>3, <1>5, <1>10, <4>1 DEF ValuesInv
        <5>2. Ready(e)
          BY <1>6, <4>1 DEF Fine, Prompted, Needs
        <5>. QED  BY <1>8, <5>1, <5>2
      <4>2. CASE j.pc # "run"
        <5>1. j.pc = "loop"
          BY <1>6, <1>7, <4>2 DEF IsJob
        <5>2. given = j.given
          BY <1>3, <1>10, <4>2
        <5>3. Past(e) /\ j.given \in Seq(Int) /\ Len(j.given) = 1
          BY <1>6, <5>1 DEF UnderWay
        <5>. QED  BY <1>8, <3>2, <5>2, <5>3
      <4>. QED  BY <4>1, <4>2
    <3>4. past \in BOOLEAN
      BY <3>2
    <3>5. r.ok \in BOOLEAN /\ SoundExec(c, r.e) /\ (r.ok => Past(r.e))
      <4>1. GivenRun(c, past, r)
        BY <1>5, <1>6, <2>2, <3>1, <3>3, <3>4, LogitsStep
      <4>. QED  BY <4>1 DEF GivenRun
    <3>6. CASE ~r.ok
      BY <1>13, <1>14, <1>16, <3>5, <3>6
    <3>7. CASE r.ok
      <4>1. PICK x, next : x = r.e /\ next = <<Head(j.ids)>>
        OBVIOUS
      <4>2. PICK k : k = [j EXCEPT !.pc = "loop", !.ids = Tail(@), !.given = next]
        OBVIOUS
      <4>3. job' = k /\ exec' = x
        BY <1>3, <1>13, <1>16, <3>7, <4>1, <4>2
      <4>4. Moved(j, k, "loop", Tail(j.ids), next)
        BY <1>7, <4>2, ScoredIs
      <4>5. /\ IsRecord(k) /\ k.kind = "score" /\ k.sync = j.sync /\ k.generate = j.generate
            /\ k.pc = "loop" /\ k.ids = Tail(j.ids) /\ k.given = next
        BY <1>6, <4>4 DEF Moved
      <4>6. Tail(j.ids) \in Seq(Int) /\ next \in Seq(Int) /\ Len(next) = 1
        <5>1. j.ids # <<>>
          BY <1>3, <1>16
        <5>2. Head(j.ids) \in Int
          BY <1>7, <5>1
        <5>. QED  BY <1>7, <4>1, <5>1, <5>2
      <4>7. IsJob(k) /\ k.kind = j.kind /\ k.pc # "run"
        BY <1>6, <1>7, <4>5, <4>6 DEF IsJob
      <4>8. Fine(c, x, a, k, qu)
        BY <1>5, <1>6, <4>5, <4>7, GoesOn
      <4>9. UnderWay(c, x, k) /\ PastOnlyFor(c, x, k, qu)
        BY <3>5, <3>7, <4>1, <4>5, <4>6 DEF UnderWay, PastOnlyFor
      <4>10. Consistent(c, x, a, k, qu)
        BY <3>5, <4>1, <4>8, <4>9 DEF Consistent
      <4>. QED  BY <1>2, <1>3, <1>9, <4>3, <4>10, GivesInv
    <3>. QED  BY <3>5, <3>6, <3>7
  <2>. QED  BY <2>1, <2>2
<1>. QED  BY <1>15, <1>16

(***************************************************************************)
(* The theorems.                                                            *)
(***************************************************************************)
LEMMA StepOK ==
    ASSUME ~Careless, Counted, IInv, [Next]_vars
    PROVE  IInv'
<1>1. CASE UNCHANGED vars
  BY <1>1 DEF vars, IInv, ValuesInv, ExecInv, TurnsInv, PromptInv, LastInv, LoopInv, PastInv
<1>2. CASE Worker
  BY <1>2, TakeClosureOK, PrefillJobOK, PrefillReportOK, PrefillThenDecodeOK, DecodeStartOK,
     DecodeStepOK, DecodeCancelledOK, DecodeFinishOK, ScoreStepOK DEF Worker
<1>3. CASE Caller
  BY <1>3, CreateOK, CloseOK, RunDecodeAsyncOK, RunDecodeOK, CancelProcessOK,
     RunPrefillAsyncOK, RunPrefillOK, RunTextScoringAsyncOK, SaveOK, RewindOK DEF Caller
<1>. QED  BY <1>1, <1>2, <1>3 DEF Next

\* A caller that waits for what it has called, and prompts that are counted,
\* keep the executor sound and every turn provided with what it needs.
THEOREM SessionInvariant ==
    ASSUME ~Careless, Counted
    PROVE  Spec => []IInv
<1>1. IInv /\ [Next]_vars => IInv'
  BY StepOK
<1>. QED  BY <1>1, InitOK, PTL DEF Spec

\* Every candidate has the same number of tokens and at most one pending one,
\* and there are as many candidates as the last operation needs
\* (ProcessedTokens and its ReduceTokenCandidates and BroadcastTokenCandidates).
THEOREM SessionTyped ==
    ASSUME ~Careless, Counted
    PROVE  Spec => []TypeOK
<1>1. IInv => TypeOK
  <2>. SUFFICES ASSUME IInv PROVE TypeOK
    OBVIOUS
  <2>1. PICK c, e, g, q : c = conf /\ e = exec /\ Sound(c, e, g, q)
    BY DEF IInv, ExecInv, SoundExec
  <2>2. Built(c) /\ ValuesInv
    BY <2>1, TakesInv
  <2>3. /\ e.step \in Nat /\ e.room \in Nat /\ e.ranDecode \in BOOLEAN /\ e.ahead \in BOOLEAN
        /\ Candidates(e.tokens, e.kv, Width(c, e), g, q) /\ q \in 0..1
    BY <2>1, <2>2, SoundFacts
  <2>4. GetStep(e.tokens) = g /\ Len(e.tokens[1].pending) = q
    BY <2>1, <2>2, SoundIs DEF Counts
  <2>5. /\ Len(e.tokens) = Width(c, e) /\ DOMAIN e.kv = DOMAIN e.tokens
        /\ \A i \in DOMAIN e.tokens : /\ Len(e.tokens[i].ids) = g
                                      /\ Len(e.tokens[i].pending) = q
    BY <2>3 DEF Candidates
  <2>6. job.kind \in {"none", "prefill", "decode", "score"}
    BY IdleIs DEF IInv, TurnsInv, Turns, IsJob
  <2>. QED  BY <2>1, <2>2, <2>3, <2>4, <2>5, <2>6 DEF TypeOK, ValuesInv, Width
<1>. QED  BY <1>1, SessionInvariant, PTL

\* The cache holds, at every position, the token recorded as processed there,
\* unless the run that should have written it failed.
THEOREM CacheHolds ==
    ASSUME ~Careless, Counted
    PROVE  Spec => []KvHolds
<1>1. IInv => KvHolds
  <2>. SUFFICES ASSUME IInv PROVE KvHolds
    OBVIOUS
  <2>1. PICK c, e, g, q : c = conf /\ e = exec /\ Sound(c, e, g, q)
    BY DEF IInv, ExecInv, SoundExec
  <2>2. Built(c)
    BY <2>1, TakesInv
  <2>3. Candidates(e.tokens, e.kv, Width(c, e), g, q)
    BY <2>1, <2>2, SoundFacts
  <2>4. /\ GetStep(e.tokens) = g
        /\ \A i \in DOMAIN e.tokens : Held(e.tokens[i].ids, e.kv[i]) /\ Len(e.tokens[i].ids) = g
    BY <2>3 DEF Candidates
  <2>. QED  BY <2>1, <2>4 DEF KvHolds, Held
<1>. QED  BY <1>1, SessionInvariant, PTL

\* The cache of the dynamic executor never outgrows the room made for it.
THEOREM CacheHasRoom ==
    ASSUME ~Careless, Counted
    PROVE  Spec => []RoomSuffices
<1>1. IInv => RoomSuffices
  <2>. SUFFICES ASSUME IInv PROVE RoomSuffices
    OBVIOUS
  <2>1. PICK c, e, g, q : c = conf /\ e = exec /\ Sound(c, e, g, q)
    BY DEF IInv, ExecInv, SoundExec
  <2>2. Built(c)
    BY <2>1, TakesInv
  <2>3. e.kv \in Seq(Seq(Mark))
    BY <2>1, <2>2, SoundFacts
  <2>4. DOMAIN e.kv = 1..Len(e.kv)
    BY <2>3
  <2>5. c.dynamic => \A i \in 1..Len(e.kv) : Len(e.kv[i]) <= e.room
    BY <2>1 DEF Sound
  <2>. QED  BY <2>1, <2>4, <2>5 DEF RoomSuffices
<1>. QED  BY <1>1, SessionInvariant, PTL

\* Whoever needs the token that a prefill has left pending finds it, with the
\* step right behind it: a scoring, and a decode that is sampled outside the
\* executor or for several candidates (Tasks::Score, and DecodeInternal, which
\* cuts the tokens to the step).
TokenIsThere ==
    Needs(conf, job) /\ job.pc = "run" => Ready(exec)

THEOREM TurnsFindTheirToken ==
    ASSUME ~Careless, Counted
    PROVE  Spec => []TokenIsThere
<1>1. IInv => TokenIsThere
  BY DEF IInv, PromptInv, Prompted, TokenIsThere
<1>. QED  BY <1>1, SessionInvariant, PTL

(***************************************************************************)
(* What the turns make of the context.                                      *)
(***************************************************************************)
\* The prompt is added to the context, by the executor of either kind.
PrefillSaid(c, e, ids, cut, r) ==
    /\ Longer(e, r.e)
    /\ (r.ok \/ cut = 0) /\ (~c.dynamic \/ (Len(ids) >= 2 /\ cut # 1) \/ Ready(e)) =>
         Took(e, ids, r.e)

LEMMA PrefillTakenSaid ==
    ASSUME NEW c, Built(c), NEW e, NEW g, NEW q, Sound(c, e, g, q), NEW ids, NEW cut, NEW r,
           PrefillTaken(c, e, g, q, ids, cut, r)
    PROVE  PrefillSaid(c, e, ids, cut, r)
<1>1. Counts(c, e, g, q)
  BY SoundCounts
<1>2. Ready(e) => e.step = g + q /\ q = 1
  BY <1>1 DEF Counts
<1>3. ~c.dynamic \/ (Len(ids) >= 2 /\ cut # 1) \/ Ready(e) => IsCounted(c, e, g, q, ids, cut)
  BY <1>2 DEF IsCounted
<1>. QED  BY <1>3 DEF PrefillTaken, PrefillSaid

LEMMA ExecutorPrefillSays ==
    ASSUME Built(conf), NEW e, SoundExec(conf, e), ~Past(e),
           NEW ids \in Seq(Int), NEW cut \in Nat, cut < Len(ids),
           NEW failAt, NEW r, r = ExecutorPrefill(e, ids, cut, failAt)
    PROVE  PrefillSaid(conf, e, ids, cut, r)
<1>1. PICK c : c = conf
  OBVIOUS
<1>2. Built(c) /\ SoundExec(c, e)
  BY <1>1
<1>3. PICK g, q : Sound(c, e, g, q)
  BY <1>2 DEF SoundExec
<1>4. Counts(c, e, g, q)
  BY <1>2, <1>3, SoundCounts
<1>5. e.step <= g + q
  BY <1>4 DEF Counts
<1>6. CASE c.sampler = "npu"
  <2>1. r = NpuPrefill(e, ids, cut, failAt)
    BY <1>1, <1>6 DEF ExecutorPrefill, Npu
  <2>2. PrefillTaken(c, e, g, q, ids, cut, r)
    BY <1>2, <1>3, <1>6, <2>1, NpuPrefillSays
  <2>. QED  BY <1>1, <1>2, <1>3, <2>2, PrefillTakenSaid
<1>7. CASE c.sampler # "npu"
  <2>1. r = Prefill(c, e, ids, cut, failAt)
    BY <1>1, <1>7 DEF ExecutorPrefill, Npu
  <2>2. PrefillTaken(c, e, g, q, ids, cut, r)
    BY <1>2, <1>3, <1>5, <1>7, <2>1, PrefillSays
  <2>. QED  BY <1>1, <1>2, <1>3, <2>2, PrefillTakenSaid
<1>. QED  BY <1>6, <1>7

\* What the job of a prefill leaves.
PrefillRan(c, e, j, ids, f, r) ==
    /\ ids \in Seq(Int) /\ ids # <<>> /\ Len(ids) < MaxTokens
    /\ Longer(e, r.e)
    /\ r.ok => Took(e, ids, r.e)
    /\ exec' = r.e
    /\ IF r.ok
       THEN /\ lastId' = ids[Len(ids)] /\ job' = [j EXCEPT !.pc = "report"]
       ELSE lastId' = lastId /\ job' = Idle
    /\ prompted' = (prompted /\ r.ok)
    /\ r.ok \/ f # 0

LEMMA PrefillJobSays ==
    ASSUME ~Careless, Counted, IInv, PrefillJob
    PROVE  \E failAt \in Failure : \E r : PrefillRan(conf, exec, job, job.ids, failAt, r)
<1>1. PICK cut \in Cuts(conf, job.ids), failAt \in Failure :
        LET r == IF Len(job.ids) >= MaxTokens THEN Err(exec)
                 ELSE ExecutorPrefill(exec, job.ids, cut, failAt)
        IN /\ exec' = r.e
           /\ IF r.ok
              THEN /\ lastId' = job.ids[Len(job.ids)] /\ phase' = "prefilled"
                   /\ GoTo("report")
              ELSE UNCHANGED <<lastId, phase>> /\ JobEnds
           /\ prompted' = (prompted /\ r.ok)
  BY DEF PrefillJob
<1>2. job.kind = "prefill" /\ job.pc = "run"
  BY DEF PrefillJob, At
<1>3. PICK c, e, j, qu, ids : /\ c = conf /\ e = exec /\ j = job /\ qu = queue /\ ids = job.ids
  OBVIOUS
<1>6. ValuesInv /\ Built(c)
  BY <1>3, TakesInv
<1>7. /\ Fits(c, j) /\ ids \in Seq(Int) /\ SoundExec(c, e) /\ PastOnlyFor(c, e, j, qu) /\ j # Idle
  BY <1>2, <1>3, JobIs
<1>8. /\ ids # <<>> /\ Len(ids) < MaxTokens /\ (c.dynamic => Len(ids) >= 2)
      /\ ~(Len(ids) >= MaxTokens)
  <2>1. ids # <<>> /\ Len(ids) < MaxTokens /\ (c.dynamic => Len(ids) >= 2)
    BY <1>2, <1>3, <1>7 DEF Fits
  <2>2. Len(ids) \in Nat /\ MaxTokens \in Nat
    BY <1>7, Bounds
  <2>. QED  BY <2>1, <2>2
<1>9. cut \in Nat /\ cut < Len(ids) /\ (c.dynamic => cut # 1)
  <2>1. c.dynamic => c.chunk # 1
    BY <1>3, <1>6 DEF Counted, ValuesInv
  <2>. QED  BY <1>1, <1>3, <1>6, <1>7, <1>8, <2>1, CutIs
<1>10. PICK r : r = ExecutorPrefill(exec, ids, cut, failAt)
  OBVIOUS
<1>11. /\ exec' = r.e
       /\ r.ok => lastId' = ids[Len(ids)] /\ job' = [j EXCEPT !.pc = "report"]
       /\ ~r.ok => lastId' = lastId /\ job' = Idle
       /\ prompted' = (prompted /\ r.ok)
  BY <1>1, <1>3, <1>8, <1>10 DEF GoTo, JobEnds
<1>12. ~Past(e)
  BY <1>2, <1>3, <1>7 DEF PastOnlyFor
<1>13. PrefillSaid(c, e, ids, cut, r)
  <2>1. SoundExec(conf, exec) /\ ~Past(exec) /\ Built(conf)
    BY <1>3, <1>6, <1>7, <1>12
  <2>2. PrefillSaid(conf, exec, ids, cut, r)
    BY <1>7, <1>9, <1>10, <2>1, ExecutorPrefillSays
  <2>. QED  BY <1>3, <2>2
<1>14. Longer(e, r.e) /\ (r.ok => Took(e, ids, r.e))
  BY <1>8, <1>9, <1>13 DEF PrefillSaid
<1>15. r.ok \/ failAt # 0
  <2>1. SoundExec(conf, exec) /\ ~Past(exec) /\ Built(conf)
    BY <1>3, <1>6, <1>7, <1>12
  <2>2. Refilled(conf, exec, ids, cut, failAt, r)
    BY <1>7, <1>9, <1>10, <2>1, ExecutorPrefillLeaves
  <2>. QED  BY <2>2 DEF Refilled
<1>16. PrefillRan(c, e, j, ids, failAt, r)
  BY <1>7, <1>8, <1>11, <1>14, <1>15 DEF PrefillRan
<1>. QED  BY <1>3, <1>16

\* A prefill that succeeds adds its prompt to the context, and the step counts
\* it.
LEMMA OnlyThePrefill ==
    ASSUME ~Careless, Counted, IInv, [Next]_vars, At("prefill", "run"), job'.pc = "report"
    PROVE  Took(exec, job.ids, exec')
<1>1. job.kind = "prefill" /\ job.pc = "run" /\ job # Idle /\ job.kind # "none"
  BY IdleIs DEF At
<1>2. CASE PrefillJob
  <2>1. PICK failAt \in Failure : \E r : PrefillRan(conf, exec, job, job.ids, failAt, r)
    BY <1>2, PrefillJobSays
  <2>2. PICK r : PrefillRan(conf, exec, job, job.ids, failAt, r)
    BY <2>1
  <2>3. Idle.pc # "report"
    BY IdleIs
  <2>. QED  BY <2>2, <2>3 DEF PrefillRan
<1>3. CASE job' = job
  BY <1>1, <1>3
<1>5. ~Quiet
  BY <1>1 DEF Quiet
<1>6. CASE Caller
  BY <1>3, <1>5, <1>6 DEF Caller, Create, Close, RunDecodeAsync, RunDecode, CancelProcess,
     RunPrefillAsync, RunPrefill, RunTextScoringAsync, SaveCheckpoint, RewindToCheckpoint
<1>7. CASE UNCHANGED vars
  BY <1>3, <1>7 DEF vars
<1>8. CASE Worker
  BY <1>1, <1>2, <1>8 DEF Worker, At, TakeClosure, PrefillReport, PrefillThenDecode, DecodeStart,
     DecodeStep, DecodeCancelled, DecodeFinish, ScoreStep
<1>. QED  BY <1>6, <1>7, <1>8 DEF Next

\* A prefill that succeeds adds its prompt to the context, all of it and nothing
\* else, and moves the step by as much: with a token pending or not, in one part
\* or two, with any executor (PrefillInternal and the token it leaves pending).
THEOREM PrefillsCount ==
    ASSUME ~Careless, Counted
    PROVE  Spec => PrefillCounts
<1>1. IInv /\ [Next]_vars =>
        [ At("prefill", "run") /\ job'.pc = "report" =>
            /\ ContextOf(exec') = ContextOf(exec) \o job.ids
            /\ exec'.step = exec.step + Len(job.ids) ]_vars
  BY OnlyThePrefill DEF Took
<1>. QED  BY <1>1, SessionInvariant, PTL DEF Spec, PrefillCounts

(***************************************************************************)
(* The token that is pending, and the drafter's.                            *)
(***************************************************************************)
\* The token that a prefill has left pending is the last one of its prompt.
Pends(e, last) == e.tokens[1].pending = <<last>>

\* Who comes next needs the token that is pending.
TokenDue(c, asked, j, qu) ==
    \/ j = Idle /\ qu = <<>> /\ asked
    \/ j = Idle /\ qu # <<>> /\ Needs(c, qu[1])
    \/ j.kind = "prefill" /\ j.pc # "run"
    \/ Needs(c, j) /\ j.pc = "run"

\* The token given to the executor is the pending one, or the last it has not
\* seen.
Fed(c, e, last, asked, j, qu) ==
    /\ TokenDue(c, asked, j, qu) => Pends(e, last)
    /\ c.sampler = "external" /\ j.kind = "decode" /\ j.pc # "run" /\ Ready(e) =>
         Pends(e, j.given[1])

\* A decode with a drafter comes right behind a prefill, or finds a token to
\* draft from.
Drafts(c, e, j, qu) ==
    c.sampler = "draft" =>
      /\ \A i \in 1..Len(qu) : qu[i].kind = "decode" =>
           IF i = 1 THEN j.kind = "prefill" \/ (j = Idle /\ DraftReady(e))
           ELSE qu[i - 1].kind = "prefill"
      /\ j.kind = "decode" /\ j.pc # "finish" => DraftReady(e)

Supplied(c, e, last, asked, j, qu) ==
    Fed(c, e, last, asked, j, qu) /\ Drafts(c, e, j, qu)

LEMMA ReadyDrafts ==
    ASSUME NEW c, Built(c), NEW e, SoundExec(c, e), Ready(e)
    PROVE  DraftReady(e)
<1>1. PICK g, q : Sound(c, e, g, q)
  BY DEF SoundExec
<1>2. Counts(c, e, g, q)
  BY <1>1, SoundCounts
<1>3. e.step = g + q /\ e.step >= g + q
  BY <1>2 DEF Counts
<1>4. PICK h, p : RolledBack(c, e, RollBackProcessedTokens(e), g, q, h, p)
  BY <1>1, <1>3, RollBackIs
<1>5. RollBackProcessedTokens(e).e = e
  BY <1>3, <1>4 DEF RolledBack
<1>. QED  BY <1>5 DEF DraftReady, Ready

\* Nothing is under way and nothing is asked for.
LEMMA QuietSupplied ==
    ASSUME NEW c, NEW e, NEW last, NEW asked, ~asked
    PROVE  Supplied(c, e, last, asked, Idle, <<>>)
<1>1. Idle.kind = "none" /\ Idle.pc = "end" /\ ~Needs(c, Idle)
  BY IdleIs DEF Needs
<1>2. Fed(c, e, last, asked, Idle, <<>>)
  BY <1>1 DEF Fed, TokenDue
<1>3. Drafts(c, e, Idle, <<>>)
  BY <1>1 DEF Drafts
<1>. QED  BY <1>2, <1>3 DEF Supplied

\* A call that is queued.
LEMMA AppendSupplied ==
    ASSUME NEW c, Built(c), NEW e, SoundExec(c, e), NEW last, NEW asked \in BOOLEAN, NEW j, NEW qu,
           Fine(c, e, asked, j, qu), Supplied(c, e, last, asked, j, qu),
           NEW t \in TurnSet, Needs(c, t) => asked,
           c.sampler = "draft" /\ t.kind = "decode" =>
             asked \/ (j = Idle /\ qu = <<>> /\ DraftReady(e)),
           NEW after, NEW qu2, qu2 = Append(qu, t)
    PROVE  Supplied(c, e, last, after, j, qu2)
<1>1. qu \in Seq(TurnSet)
  BY DEF Fine, Turns
<1>2. PICK n \in Nat : n = Len(qu)
  BY <1>1
<1>3. /\ Len(qu2) = n + 1 /\ qu2 # <<>> /\ qu2[n + 1] = t /\ \A i \in 1..n : qu2[i] = qu[i]
  BY <1>1, <1>2
<1>4. qu = <<>> <=> n = 0
  BY <1>1, <1>2
<1>5. Fed(c, e, last, after, j, qu2)
  <2>1. TokenDue(c, after, j, qu2) => TokenDue(c, asked, j, qu)
    <3>1. CASE qu = <<>>
      BY <1>3, <1>4, <3>1 DEF TokenDue
    <3>2. CASE qu # <<>>
      <4>1. qu2[1] = qu[1]
        BY <1>2, <1>3, <1>4, <3>2
      <4>. QED  BY <1>3, <3>2, <4>1 DEF TokenDue
    <3>. QED  BY <3>1, <3>2
  <2>. QED  BY <2>1 DEF Supplied, Fed
<1>6. Drafts(c, e, j, qu2)
  <2>. SUFFICES ASSUME c.sampler = "draft" PROVE Drafts(c, e, j, qu2)
    BY DEF Drafts
  <2>1. ASSUME NEW i \in 1..(n + 1), qu2[i].kind = "decode"
        PROVE  IF i = 1 THEN j.kind = "prefill" \/ (j = Idle /\ DraftReady(e))
               ELSE qu2[i - 1].kind = "prefill"
    <3>1. CASE i \in 1..n
      <4>1. qu[i].kind = "decode"
        BY <1>3, <2>1, <3>1
      <4>2. IF i = 1 THEN j.kind = "prefill" \/ (j = Idle /\ DraftReady(e))
            ELSE qu[i - 1].kind = "prefill"
        BY <1>2, <3>1, <4>1 DEF Supplied, Drafts
      <4>3. i # 1 => qu2[i - 1] = qu[i - 1]
        BY <1>3, <3>1
      <4>. QED  BY <4>2, <4>3
    <3>2. CASE i = n + 1
      <4>1. t.kind = "decode"
        BY <1>3, <2>1, <3>2
      <4>2. CASE asked
        <5>1. IF qu = <<>> THEN PrefillOrReady(e, j) ELSE qu[Len(qu)].kind = "prefill"
          BY <4>2 DEF Fine, Prompted
        <5>2. CASE n = 0
          <6>1. PrefillOrReady(e, j)
            BY <1>4, <5>1, <5>2
          <6>2. j.kind = "prefill" \/ (j = Idle /\ DraftReady(e))
            BY <6>1, ReadyDrafts DEF PrefillOrReady
          <6>3. i = 1
            BY <3>2, <5>2
          <6>. QED  BY <6>2, <6>3
        <5>3. CASE n # 0
          <6>1. qu[n].kind = "prefill" /\ i # 1 /\ i - 1 = n /\ n \in 1..n
            BY <1>2, <1>4, <3>2, <5>1, <5>3
          <6>. QED  BY <1>3, <6>1
        <5>. QED  BY <5>2, <5>3
      <4>3. CASE j = Idle /\ qu = <<>> /\ DraftReady(e)
        BY <1>4, <3>2, <4>3
      <4>4. asked \/ (j = Idle /\ qu = <<>> /\ DraftReady(e))
        BY <4>1
      <4>. QED  BY <4>2, <4>3, <4>4
    <3>3. i \in 1..n \/ i = n + 1
      OBVIOUS
    <3>. QED  BY <3>1, <3>2, <3>3
  <2>. QED  BY <1>3, <2>1 DEF Supplied, Drafts
<1>. QED  BY <1>5, <1>6 DEF Supplied

\* A call on the caller's thread.
LEMMA CallSupplied ==
    ASSUME NEW c, Built(c), NEW e, SoundExec(c, e), NEW last, NEW asked \in BOOLEAN,
           Fine(c, e, asked, Idle, <<>>), Supplied(c, e, last, asked, Idle, <<>>),
           NEW k, k.pc = "run", Needs(c, k) => asked,
           c.sampler = "draft" /\ k.kind = "decode" => asked \/ DraftReady(e),
           NEW after
    PROVE  Supplied(c, e, last, after, k, <<>>)
<1>1. k # Idle /\ Idle.kind # "prefill"
  BY IdleIs
<1>2. Fed(c, e, last, after, k, <<>>)
  BY <1>1 DEF Supplied, Fed, TokenDue
<1>3. c.sampler = "draft" /\ k.kind = "decode" => DraftReady(e)
  <2>1. asked => PrefillOrReady(e, Idle)
    BY DEF Fine, Prompted
  <2>. QED  BY <1>1, <2>1, ReadyDrafts DEF PrefillOrReady
<1>4. Drafts(c, e, k, <<>>)
  BY <1>3 DEF Drafts
<1>. QED  BY <1>2, <1>4 DEF Supplied

\* The pool takes the next call.
LEMMA TakeSupplied ==
    ASSUME NEW c, NEW e, NEW last, NEW asked, NEW qu \in Seq(TurnSet), qu # <<>>,
           Supplied(c, e, last, asked, Idle, qu),
           NEW k, k = Head(qu), NEW qu2, qu2 = Tail(qu)
    PROVE  Supplied(c, e, last, asked, k, qu2)
<1>1. k = qu[1] /\ k \in TurnSet
  OBVIOUS
<1>2. k.pc = "run" /\ k # Idle /\ Idle.kind # "prefill" /\ Idle.kind # "decode"
  BY <1>1, TurnIs, IdleIs
<1>3. Fed(c, e, last, asked, k, qu2)
  BY <1>1, <1>2 DEF Supplied, Fed, TokenDue
<1>4. PICK n \in Nat : n = Len(qu) /\ n > 0
  OBVIOUS
<1>5. Len(qu2) = n - 1 /\ \A i \in 1..(n - 1) : qu2[i] = qu[i + 1]
  BY <1>4
<1>6. Drafts(c, e, k, qu2)
  <2>. SUFFICES ASSUME c.sampler = "draft" PROVE Drafts(c, e, k, qu2)
    BY DEF Drafts
  <2>1. ASSUME NEW i \in 1..(n - 1), qu2[i].kind = "decode"
        PROVE  IF i = 1 THEN k.kind = "prefill" ELSE qu2[i - 1].kind = "prefill"
    <3>1. PICK m \in 1..n : m = i + 1 /\ m # 1 /\ m - 1 = i
      BY <1>4
    <3>2. qu[m].kind = "decode"
      BY <1>5, <2>1, <3>1
    <3>3. qu[m - 1].kind = "prefill"
      BY <1>4, <3>1, <3>2 DEF Supplied, Drafts
    <3>4. i = 1 => k = qu[i]
      BY <1>1
    <3>5. i # 1 => qu2[i - 1] = qu[i]
      <4>1. i # 1 => i - 1 \in 1..(n - 1) /\ (i - 1) + 1 = i
        BY <1>4
      <4>. QED  BY <1>5, <4>1
    <3>. QED  BY <3>1, <3>3, <3>4, <3>5
  <2>2. k.kind = "decode" => DraftReady(e)
    <3>1. 1 \in 1..Len(qu)
      BY <1>4
    <3>. QED  BY <1>1, <1>2, <3>1 DEF Supplied, Drafts
  <2>3. \A i \in 1..Len(qu2) : qu2[i].kind = "decode" =>
          IF i = 1 THEN k.kind = "prefill" ELSE qu2[i - 1].kind = "prefill"
    BY <1>5, <2>1
  <2>. QED  BY <2>2, <2>3 DEF Drafts
<1>. QED  BY <1>3, <1>6 DEF Supplied

\* A prefill that has succeeded, and what comes of it.
LEMMA FilledSupplied ==
    ASSUME NEW c, Built(c), NEW e, NEW last, NEW asked, NEW j, NEW qu,
           Supplied(c, e, last, asked, j, qu), j.kind = "prefill",
           NEW x, SoundExec(c, x), Ready(x), NEW new, Pends(x, new), NEW after,
           NEW k, k.kind = "prefill" \/ k = Idle \/ (k.kind = "decode" /\ k.pc = "run" /\ qu = <<>>)
    PROVE  Supplied(c, x, new, after, k, qu)
<1>1. DraftReady(x)
  BY ReadyDrafts
<1>2. k = Idle => k.kind = "none"
  BY IdleIs
<1>3. Fed(c, x, new, after, k, qu)
  BY <1>2 DEF Fed
<1>4. Drafts(c, x, k, qu)
  <2>. SUFFICES ASSUME c.sampler = "draft" PROVE Drafts(c, x, k, qu)
    BY DEF Drafts
  <2>1. CASE qu = <<>>
    BY <1>1, <2>1 DEF Drafts
  <2>2. CASE qu # <<>>
    BY <1>1, <1>2, <2>2 DEF Supplied, Drafts
  <2>. QED  BY <2>1, <2>2
<1>. QED  BY <1>3, <1>4 DEF Supplied

\* A decode or a scoring goes on, or ends: who is queued behind it brings a
\* prefill along.
LEMMA NextSupplied ==
    ASSUME NEW c, NEW e, NEW last, NEW asked, NEW j, NEW qu, Fine(c, e, asked, j, qu),
           Supplied(c, e, last, asked, j, qu), j.kind \in {"decode", "score"},
           NEW k, k = Idle \/ (k.kind = j.kind /\ k.pc # "run"), NEW x, NEW new,
           c.sampler = "external" /\ k.kind = "decode" /\ Ready(x) => Pends(x, k.given[1]),
           c.sampler = "draft" /\ k.kind = "decode" /\ k.pc # "finish" => DraftReady(x)
    PROVE  Supplied(c, x, new, asked, k, qu)
<1>1. j # Idle /\ j.kind # "prefill" /\ k.kind # "prefill" /\ (k = Idle => k.kind = "none")
  BY IdleIs
<1>2. ~PrefillOrReady(e, j)
  BY <1>1 DEF PrefillOrReady
<1>3. qu = <<>> => ~asked
  BY <1>2 DEF Fine, Prompted
<1>4. qu # <<>> => ~Needs(c, qu[1])
  <2>1. ASSUME qu # <<>> PROVE 1 \in 1..Len(qu)
    BY <2>1, EmptySeq DEF Fine, Turns
  <2>. QED  BY <1>2, <2>1 DEF Fine, Prompted
<1>5. ~Needs(c, Idle)
  BY IdleIs DEF Needs
<1>6. ~TokenDue(c, asked, k, qu)
  BY <1>1, <1>3, <1>4, <1>5 DEF TokenDue
<1>7. Fed(c, x, new, asked, k, qu)
  BY <1>6 DEF Fed
<1>8. Drafts(c, x, k, qu)
  <2>. SUFFICES ASSUME c.sampler = "draft" PROVE Drafts(c, x, k, qu)
    BY DEF Drafts
  <2>1. \A i \in 1..Len(qu) : qu[i].kind = "decode" => i # 1 /\ qu[i - 1].kind = "prefill"
    BY <1>1 DEF Supplied, Drafts
  <2>. QED  BY <2>1 DEF Drafts
<1>. QED  BY <1>7, <1>8 DEF Supplied

(***************************************************************************)
(* What a decode has told, and what it has added.                           *)
(***************************************************************************)
\* The token the caller has sampled and the executor has not seen is owed.
Owed(c, e, j) ==
    IF c.sampler = "external" /\ Past(e) THEN ContextOf(e) \o <<j.given[1]>> ELSE ContextOf(e)

LogitsSaid(e, given, x) ==
    ContextOf(x) = IF Past(e) /\ given[1] >= 0 THEN ContextOf(e) \o <<given[1]>> ELSE ContextOf(e)

LEMMA LogitsSays ==
    ASSUME NEW c, Built(c), c.sampler # "npu", NEW e, SoundExec(c, e),
           NEW given \in Seq(Int), Len(given) = c.heads,
           (Ready(e) /\ Pends(e, given[1])) \/ Past(e),
           NEW fail, NEW r, r = DecodeLogits(c, e, given, fail)
    PROVE  LogitsSaid(e, given, r.e)
<1>1. PICK g, q : Sound(c, e, g, q)
  BY DEF SoundExec
<1>2. Counts(c, e, g, q)
  BY <1>1, SoundCounts
<1>3. Past(e) <=> e.step = g + q + 1
  BY <1>2 DEF Counts
<1>4. c.heads = 1 \/ e.step >= g + q
  <2>1. CASE Ready(e)
    BY <1>2, <2>1 DEF Counts
  <2>2. CASE Past(e)
    BY <1>2, <2>2 DEF Counts
  <2>. QED  BY <2>1, <2>2
<1>5. GivenFits(e, g, q, given)
  <2>1. CASE Past(e)
    BY <1>3, <2>1 DEF GivenFits
  <2>2. CASE Ready(e) /\ Pends(e, given[1])
    <3>1. e.step = g + q
      BY <1>2, <2>2 DEF Counts
    <3>. QED  BY <2>2, <3>1 DEF GivenFits, Pends
  <2>. QED  BY <2>1, <2>2
<1>6. given # <<>>
  <2>1. Len(given) # 0
    BY DEF Built
  <2>. QED  BY <2>1
<1>7. PICK a, d : LogitsTo(e, g, q, given, r, a, d)
  BY <1>1, <1>4, <1>5, DecodeLogitsSays
<1>8. ContextOf(r.e) = a \o d
  BY <1>7 DEF LogitsTo, RanTo
<1>9. a \o d = IF e.step = g + q + 1 /\ given # <<>> /\ given[1] >= 0
               THEN ContextOf(e) \o <<given[1]>> ELSE ContextOf(e)
  BY <1>7 DEF LogitsTo
<1>. QED  BY <1>3, <1>6, <1>8, <1>9 DEF LogitsSaid

\* What one call of the executor makes of the context.
OnceSaid(c, e, j, out, r) ==
    /\ ContextOf(r.e) = IF ~r.ok \/ c.sampler = "external" THEN Owed(c, e, j)
                        ELSE Owed(c, e, j) \o (IF c.sampler = "draft" THEN out ELSE <<out[1]>>)
    /\ c.sampler = "draft" /\ r.ok => r.e.step = Len(Owed(c, e, j)) + Len(out) /\ DraftReady(r.e)

LEMMA PendingDrafts ==
    ASSUME NEW c, Built(c), NEW e, SoundExec(c, e), e.step = TokenCount(e.tokens),
           HasPending(e.tokens)
    PROVE  DraftReady(e)
<1>1. PICK g, q : Sound(c, e, g, q)
  BY DEF SoundExec
<1>2. Counts(c, e, g, q)
  BY <1>1, SoundCounts
<1>3. e.step = g + q /\ e.step >= g + q
  BY <1>2 DEF Counts
<1>4. PICK h, p : RolledBack(c, e, RollBackProcessedTokens(e), g, q, h, p)
  BY <1>1, <1>3, RollBackIs
<1>5. RollBackProcessedTokens(e).e = e
  BY <1>3, <1>4 DEF RolledBack
<1>. QED  BY <1>5 DEF DraftReady

LEMMA DecodeOnceSays ==
    ASSUME IInv, NEW last, NEW a, NEW qu, Supplied(conf, exec, last, a, job, qu),
           job.kind = "decode", job.pc = "loop", NEW out \in Outputs,
           NEW failAt, NEW r, r = DecodeOnce(out, failAt)
    PROVE  OnceSaid(conf, exec, job, out, r)
<1>1. PICK c, e, j : c = conf /\ e = exec /\ j = job
  OBVIOUS
<1>2. /\ SoundExec(c, e) /\ Built(c) /\ UnderWay(c, e, j) /\ PastOnlyFor(c, e, j, queue)
      /\ j # Idle /\ j.kind = "decode" /\ j.pc = "loop"
  BY <1>1, JobIs
<1>3. /\ out \in Seq(Int) /\ Len(out) \in Nat \ {0} /\ out[1] \in Nat
      /\ c.sampler # "draft" => Len(out) = c.heads
  BY <1>1, OutputsAre
<1>4. Len(out) >= 1 /\ out # <<>>
  BY <1>3
<1>5. c.sampler # "external" => ~Past(e)
  BY <1>2 DEF PastOnlyFor
<1>6. PICK fail \in BOOLEAN : fail = (failAt # 0)
  OBVIOUS
<1>7. PICK g, q : Sound(c, e, g, q)
  BY <1>2 DEF SoundExec
<1>8. Counts(c, e, g, q)
  BY <1>2, <1>7, SoundCounts
<1>9. c.sampler # "external" => e.step <= g + q
  BY <1>5, <1>8 DEF Counts
<1>10. c.sampler # "external" => Owed(c, e, j) = ContextOf(e)
  BY DEF Owed
<1>11. Supplied(c, e, last, a, j, qu)
  BY <1>1
<1>12. ContextOf(e) \in Seq(Int)
  BY <1>2, <1>7, ContextLength
<1>13. CASE c.sampler = "draft"
  <2>1. r = DecodeDrafted(c, e, out, failAt)
    BY <1>1, <1>13 DEF DecodeOnce, Npu
  <2>2. DraftReady(e)
    BY <1>2, <1>11, <1>13 DEF Supplied, Drafts
  <2>3. DraftTo(ContextOf(e), out, r)
    BY <1>2, <1>3, <1>4, <1>7, <1>9, <1>13, <2>1, <2>2, DecodeDraftedSays
  <2>4. r.ok => DraftReady(r.e)
    <3>1. ASSUME r.ok PROVE DraftReady(r.e)
      <4>1. r.e.step = TokenCount(r.e.tokens) /\ r.e.tokens[1].pending = <<out[Len(out)]>>
        BY <2>3, <3>1 DEF DraftTo
      <4>2. HasPending(r.e.tokens)
        BY <4>1 DEF HasPending
      <4>3. SoundExec(c, r.e)
        <5>1. Stepped(conf, failAt, r)
          BY <1>1, <1>2, DecodeOnceIs
        <5>. QED  BY <1>1, <5>1 DEF Stepped
      <4>. QED  BY <1>2, <4>1, <4>2, <4>3, PendingDrafts
    <3>. QED  BY <3>1
  <2>5. c.sampler # "external"
    BY <1>13
  <2>6. OnceSaid(c, e, j, out, r)
    BY <1>10, <1>13, <2>3, <2>4, <2>5 DEF OnceSaid, DraftTo
  <2>. QED  BY <1>1, <2>6
<1>14. CASE c.sampler = "external"
  <2>1. r = DecodeLogits(c, e, j.given, fail)
    BY <1>1, <1>6, <1>14 DEF DecodeOnce, Npu
  <2>2. PICK given : given = j.given
    OBVIOUS
  <2>3. given \in Seq(Int) /\ Len(given) = c.heads
    BY <1>2, <1>14, <2>2 DEF UnderWay
  <2>4. (Ready(e) /\ Pends(e, given[1])) \/ (Past(e) /\ given[1] \in Nat)
    <3>1. Ready(e) \/ (Past(e) /\ given[1] \in Nat)
      BY <1>2, <1>14, <2>2 DEF UnderWay
    <3>2. Ready(e) => Pends(e, given[1])
      BY <1>2, <1>11, <1>14, <2>2 DEF Supplied, Fed
    <3>. QED  BY <3>1, <3>2
  <2>5. r = DecodeLogits(c, e, given, fail) /\ c.sampler # "npu"
    BY <1>14, <2>1, <2>2
  <2>6. LogitsSaid(e, given, r.e)
    BY <1>2, <2>3, <2>4, <2>5, LogitsSays
  <2>7. Past(e) => given[1] >= 0
    <3>1. ~(Ready(e) /\ Past(e))
      BY <1>8 DEF Counts
    <3>. QED  BY <2>4, <3>1
  <2>8. ContextOf(r.e) = Owed(c, e, j)
    BY <1>14, <2>2, <2>6, <2>7 DEF LogitsSaid, Owed
  <2>9. OnceSaid(c, e, j, out, r)
    BY <1>14, <2>8 DEF OnceSaid
  <2>. QED  BY <1>1, <2>9
<1>15. ASSUME c.sampler \in {"internal", "ahead", "npu"}, Spoke(e, <<out[1]>>, r)
       PROVE  OnceSaid(conf, exec, job, out, r)
  <2>1. c.sampler # "draft" /\ c.sampler # "external"
    BY <1>15
  <2>2. OnceSaid(c, e, j, out, r)
    BY <1>10, <1>15, <2>1 DEF OnceSaid, Spoke
  <2>. QED  BY <1>1, <2>2
<1>16. CASE c.sampler = "npu"
  <2>1. r = NpuDecode(e, out, fail)
    BY <1>1, <1>6, <1>16 DEF DecodeOnce, Npu
  <2>2. Spoke(e, <<out[1]>>, r)
    BY <1>2, <1>3, <1>4, <1>7, <1>16, <2>1, NpuDecodeSays
  <2>. QED  BY <1>15, <1>16, <2>2
<1>17. CASE c.sampler \in {"internal", "ahead"}
  <2>1. r = DecodeSampled(c, e, out, fail)
    BY <1>1, <1>6, <1>17 DEF DecodeOnce, Npu
  <2>2. c.heads = 1 \/ e.step >= g + q
    <3>1. c.heads = 1 \/ e.step = TokenCount(e.tokens)
      BY <1>2, <1>17 DEF UnderWay
    <3>. QED  BY <1>8, <3>1 DEF Counts
  <2>3. Len(out) >= c.heads /\ c.sampler # "npu" /\ e.step <= g + q
    BY <1>2, <1>3, <1>9, <1>17 DEF Built
  <2>4. Spoke(e, <<out[1]>>, r)
    BY <1>2, <1>3, <1>7, <2>1, <2>2, <2>3, DecodeSampledSays
  <2>. QED  BY <1>15, <1>17, <2>4
<1>. QED  BY <1>2, <1>13, <1>14, <1>16, <1>17 DEF Built

\* A sequence without its last token, and with it.
LEMMA WithLast ==
    ASSUME NEW e, NEW a, NEW v \in Int, Has(e.tokens, a, <<v>>), e.step \in Nat,
           e.step = Len(a) + 1
    PROVE  Upto(ContextOf(e), Len(a)) \o <<v>> = ContextOf(e)
<1>1. PICK b : b = <<v>> /\ b \in Seq(Int) /\ Len(b) = 1
  <2>1. <<v>> \in Seq(Int) /\ Len(<<v>>) = 1
    BY OneToken
  <2>. QED  BY <2>1
<1>2. a \in Seq(Int) /\ Has(e.tokens, a, b)
  BY <1>1 DEF Has
<1>3. ContextOf(e) = a \o b
  <2>1. e.step >= Len(a) + Len(b)
    BY <1>1, <1>2
  <2>. QED  BY <1>2, <2>1, WholeLine
<1>4. PICK s, n : s = a \o b /\ n = Len(a)
  OBVIOUS
<1>5. s \in Seq(Int) /\ Len(s) = n + 1 /\ n \in Nat /\ n < Len(s) /\ n <= Len(a)
  BY <1>1, <1>2, <1>4, Appended
<1>6. Upto(s, n) = SubSeq(s, 1, n)
  BY <1>5, UptoIs
<1>7. SubSeq(a \o b, 1, n) = SubSeq(a, 1, n)
  BY <1>1, <1>2, <1>5, PartOfLine
<1>8. SubSeq(a, 1, Len(a)) = a
  BY <1>2
<1>. QED  BY <1>1, <1>3, <1>4, <1>6, <1>7, <1>8

\* The last token sampled outside the executor is given back: what was owed is
\* in the context.
LEMMA GiveBackSays ==
    ASSUME IInv, NEW last, NEW a0, NEW qu, Supplied(conf, exec, last, a0, job, qu),
           conf.dynamic => conf.sampler # "external",
           job.kind = "decode", job.pc # "run", NEW failAt, NEW r, r = GiveBack(failAt)
    PROVE  ContextOf(r.e) = Owed(conf, exec, job)
<1>1. PICK c, e, j : c = conf /\ e = exec /\ j = job
  OBVIOUS
<1>2. /\ SoundExec(c, e) /\ Built(c) /\ UnderWay(c, e, j) /\ j.kind = "decode" /\ j.pc # "run"
  BY <1>1, JobIs
<1>3. CASE c.sampler # "external"
  <2>1. r = Ok(e)
    BY <1>1, <1>3 DEF GiveBack
  <2>2. r.e = e
    BY <2>1 DEF Ok
  <2>. QED  BY <1>1, <1>3, <2>2 DEF Owed
<1>4. CASE c.sampler = "external"
  <2>1. PICK v : v = j.given[1]
    OBVIOUS
  <2>2. v \in Int /\ (Ready(e) \/ Past(e))
    <3>1. /\ j.given \in Seq(Int) /\ Len(j.given) = c.heads
          /\ Ready(e) \/ Past(e)
      BY <1>2, <1>4 DEF UnderWay
    <3>2. c.heads \in Nat \ {0}
      BY <1>2 DEF Built
    <3>3. 1 \in 1..Len(j.given)
      BY <3>1, <3>2
    <3>. QED  BY <2>1, <3>1, <3>3
  <2>3. PICK n, back : n = e.step - 1 /\ back = SetCurrentStep(e, n)
    OBVIOUS
  <2>4. PICK g, q : Sound(c, e, g, q)
    BY <1>2 DEF SoundExec
  <2>5. Counts(c, e, g, q)
    BY <1>2, <2>4, SoundCounts
  <2>6. /\ e.step \in Nat /\ n \in 0..e.step /\ n \in Nat /\ g \in Nat /\ q \in 0..1
        /\ g + q \in Nat /\ n <= g + q
    <3>1. /\ g \in Nat /\ q \in 0..1 /\ e.step \in Nat /\ (e.step = g + 1 \/ e.step = g + q + 1)
          /\ e.step <= g + q + 1
      BY <2>2, <2>5 DEF Counts
    <3>. QED  BY <2>3, <3>1
  <2>7. PICK x : x = [e EXCEPT !.step = n]
    OBVIOUS
  <2>8. back = Ok(x)
    BY <2>3, <2>6, <2>7 DEF SetCurrentStep
  <2>9. back.e = x /\ back.ok = TRUE
    BY <2>8 DEF Ok
  <2>10. c.sampler # "npu" /\ ~c.dynamic
    BY <1>1, <1>4
  <2>11. SoundExec(c, x) /\ x.step = n /\ x.tokens = e.tokens
    <3>1. SoundExec(c, back.e) /\ SetTo(e, n, back)
      BY <1>2, <2>3, <2>10, SetBack
    <3>. QED  BY <2>6, <2>9, <3>1 DEF SetTo
  <2>12. PICK g2, q2 : Sound(c, x, g2, q2)
    BY <2>11 DEF SoundExec
  <2>13. Counts(c, x, g2, q2)
    BY <1>2, <2>12, SoundCounts
  <2>14. x.step <= g2 + q2
    <3>1. TokenCount(x.tokens) = g + q
      BY <2>5, <2>11 DEF Counts
    <3>2. TokenCount(x.tokens) = g2 + q2
      BY <2>13 DEF Counts
    <3>. QED  BY <2>6, <2>11, <3>1, <3>2
  <2>15. PICK ids, cut : ids = <<v>> /\ cut = 0
    OBVIOUS
  <2>16. ids \in Seq(Int) /\ cut \in Nat /\ cut < Len(ids)
    <3>1. <<v>> \in Seq(Int) /\ Len(<<v>>) = 1
      BY <2>2, OneToken
    <3>. QED  BY <2>15, <3>1
  <2>17. r = Prefill(c, x, ids, cut, failAt)
    BY <1>1, <1>4, <2>1, <2>3, <2>9, <2>15 DEF GiveBack
  <2>18. PrefillTaken(c, x, g2, q2, ids, cut, r)
    BY <1>2, <2>10, <2>12, <2>14, <2>16, <2>17, PrefillSays
  <2>19. Took(x, ids, r.e)
    BY <2>10, <2>15, <2>18 DEF PrefillTaken, IsCounted
  <2>20. ContextOf(r.e) = Upto(ContextOf(e), n) \o <<v>>
    <3>1. ContextOf(r.e) = ContextOf(x) \o ids
      BY <2>19 DEF Took
    <3>2. ContextOf(x) = Upto(ContextOf(e), n)
      BY <1>2, <2>4, <2>6, <2>7, SetStepSays
    <3>. QED  BY <2>15, <3>1, <3>2
  <2>21. CASE Past(e)
    <3>1. e.step = g + q + 1
      BY <2>5, <2>21 DEF Counts
    <3>2. PICK s : s = ContextOf(e) /\ s \in Seq(Int) /\ Len(s) = g + q
      BY <1>2, <2>4, <2>6, <3>1, ContextLength
    <3>3. n >= Len(s)
      BY <2>3, <2>6, <3>1, <3>2
    <3>4. Upto(s, n) = s
      BY <2>6, <3>2, <3>3, UptoIs
    <3>. QED  BY <1>1, <1>4, <2>1, <2>20, <2>21, <3>2, <3>4 DEF Owed
  <2>22. CASE Ready(e)
    <3>1. e.step = g + 1 /\ q = 1 /\ ~Past(e)
      BY <2>5, <2>22 DEF Counts
    <3>2. e.tokens[1].pending = <<v>>
      <4>1. Supplied(c, e, last, a0, j, qu)
        BY <1>1
      <4>. QED  BY <1>2, <1>4, <2>1, <2>22, <4>1 DEF Supplied, Fed, Pends
    <3>3. PICK a, b : Has(e.tokens, a, b) /\ Len(a) = g /\ Len(b) = q
      BY <1>2, <2>4, HasIs
    <3>4. b = <<v>>
      BY <3>2, <3>3 DEF Has
    <3>5. Has(e.tokens, a, <<v>>)
      BY <3>3, <3>4
    <3>6. e.step = Len(a) + 1 /\ n = Len(a)
      BY <2>3, <2>6, <3>1, <3>3
    <3>7. Upto(ContextOf(e), Len(a)) \o <<v>> = ContextOf(e)
      BY <2>2, <2>6, <3>5, <3>6, WithLast
    <3>. QED  BY <1>1, <2>20, <3>1, <3>6, <3>7 DEF Owed
  <2>. QED  BY <2>2, <2>21, <2>22
<1>. QED  BY <1>3, <1>4

(***************************************************************************)
\* A set of naturals has a least element: the intervals 0..x are ordered by
\* inclusion, which is well-founded on finite sets.
LEMMA LeastElement ==
    ASSUME NEW S \in SUBSET Nat, S # {}
    PROVE  \E x \in S : \A y \in S : x <= y
<1>. DEFINE T == {0..x : x \in S}
<1>1. T \subseteq FiniteSubsetsOf(Nat)
  <2>1. \A x \in S : IsFiniteSet(0..x) /\ 0..x \in SUBSET Nat
    BY FS_Interval
  <2>. QED  BY <2>1 DEF FiniteSubsetsOf
<1>2. T # {}
  <2>1. PICK x \in S : TRUE  OBVIOUS
  <2>2. 0..x \in T  OBVIOUS
  <2>. QED  BY <2>2
<1>3. PICK m \in T : \A y \in T : ~(<<y, m>> \in StrictSubsetOrdering(Nat))
  <2>. HIDE DEF T
  <2>. QED  BY <1>1, <1>2, FS_StrictSubsetOrderingWellFounded, WFMin
<1>4. PICK x \in S : m = 0..x
  BY <1>3
<1>5. ASSUME NEW y \in S, y < x  PROVE FALSE
  <2>1. (0..y) \in T  OBVIOUS
  <2>2. (0..y) \subseteq (0..x) /\ x \notin (0..y) /\ x \in (0..x)  BY <1>5
  <2>3. (0..y) # (0..x)  BY <2>2
  <2>4. <<0..y, 0..x>> \in StrictSubsetOrdering(Nat)
    BY <2>2, <2>3 DEF StrictSubsetOrdering
  <2>. QED  BY <1>3, <1>4, <2>1, <2>4
<1>. QED  BY <1>5

\* How much of a draft is taken back: nothing, or the tokens from a stop token
\* on.
LEMMA DropIs ==
    ASSUME NEW out \in Seq(Int), out # <<>>, NEW drop, drop = StopInDraft(out)
    PROVE  /\ drop \in 0..Len(out)
           /\ drop # 0 => conf.sampler = "draft" /\ \E k \in DOMAIN out : out[k] = Stop
<1>1. PICK n \in Nat : n = Len(out) /\ n > 0
  <2>1. Len(out) \in Nat /\ Len(out) > 0
    BY EmptySeq
  <2>. QED  BY <2>1
<1>2. PICK at : at = {k \in 1..(n - 1) : out[k] = Stop}
  OBVIOUS
<1>3. drop = IF conf.sampler # "draft" \/ at = {} THEN 0
             ELSE n + 1 - (CHOOSE i \in at : \A j \in at : i <= j)
  BY <1>1, <1>2 DEF StopInDraft
<1>4. CASE conf.sampler # "draft" \/ at = {}
  BY <1>1, <1>3, <1>4
<1>5. CASE ~(conf.sampler # "draft" \/ at = {})
  <2>1. at \in SUBSET Nat /\ at # {}
    BY <1>1, <1>2, <1>5
  <2>2. \E k \in at : \A j \in at : k <= j
    BY <2>1, LeastElement
  <2>3. PICK k : k = CHOOSE i \in at : \A j \in at : i <= j
    OBVIOUS
  <2>4. k \in at
    BY <2>2, <2>3
  <2>5. k \in 1..(n - 1) /\ out[k] = Stop
    BY <1>2, <2>4
  <2>6. drop = n + 1 - k
    BY <1>3, <1>5, <2>3
  <2>7. drop \in 0..n
    BY <1>1, <2>5, <2>6
  <2>8. k \in DOMAIN out
    <3>1. k \in 1..n
      BY <1>1, <2>5
    <3>. QED  BY <1>1, <3>1
  <2>. QED  BY <1>1, <1>5, <2>5, <2>7, <2>8
<1>. QED  BY <1>4, <1>5

\* Setting the step back takes the end of a draft off.
LEMMA UptoPart ==
    ASSUME NEW s \in Seq(Int), NEW out \in Seq(Int), NEW m \in 0..Len(out)
    PROVE  Upto(s \o out, Len(s) + m) = s \o SubSeq(out, 1, m)
<1>1. PICK t, u, v, n : /\ t = s \o out /\ u = SubSeq(out, 1, m) /\ v = s \o u
                        /\ n = Len(s)
  OBVIOUS
<1>2. n \in Nat /\ Len(out) \in Nat /\ m \in Nat /\ m <= Len(out)
  BY <1>1
<1>3. t \in Seq(Int) /\ Len(t) = n + Len(out)
  BY <1>1
<1>4. u \in Seq(Int) /\ Len(u) = m /\ \A i \in 1..m : u[i] = out[i]
  BY <1>1, <1>2
<1>5. v \in Seq(Int) /\ Len(v) = n + m
  BY <1>1, <1>4
<1>6. CASE m = Len(out)
  <2>1. u = out
    BY <1>1, <1>6
  <2>2. n + m >= Len(t) /\ n + m \in Nat
    BY <1>2, <1>3, <1>6
  <2>3. Upto(t, n + m) = t
    BY <1>3, <2>2, UptoIs
  <2>. QED  BY <1>1, <2>1, <2>3
<1>7. CASE m # Len(out)
  <2>1. n + m < Len(t) /\ n + m \in Nat
    BY <1>2, <1>3, <1>7
  <2>2. Upto(t, n + m) = SubSeq(t, 1, n + m) /\ Len(Upto(t, n + m)) = n + m /\ Upto(t, n + m) \in Seq(Int)
    BY <1>3, <2>1, UptoIs
  <2>3. PICK w : w = Upto(t, n + m) /\ w \in Seq(Int) /\ Len(w) = n + m
    BY <2>2
  <2>4. \A i \in 1..(n + m) : w[i] = t[i]
    <3>1. w = SubSeq(t, 1, n + m) /\ n + m <= Len(t)
      BY <2>1, <2>2, <2>3, <1>3
    <3>. QED  BY <1>3, <2>1, <3>1
  <2>5. \A i \in 1..(n + m) : v[i] = t[i]
    <3>1. ASSUME NEW i \in 1..(n + m) PROVE v[i] = t[i]
      <4>1. CASE i <= n
        <5>1. i \in 1..n
          BY <1>2, <4>1
        <5>. QED  BY <1>1, <1>4, <5>1
      <4>2. CASE i > n
        <5>1. i - n \in 1..m /\ i - n \in 1..Len(out)
          BY <1>2, <4>2
        <5>2. v[i] = u[i - n]
          BY <1>1, <1>2, <1>4, <4>2, <5>1
        <5>3. t[i] = out[i - n]
          BY SMTT(30), <1>1, <1>2, <4>2, <5>1
        <5>. QED  BY <1>4, <5>1, <5>2, <5>3
      <4>. QED  BY <1>2, <4>1, <4>2
    <3>. QED  BY <3>1
  <2>6. w = v
    BY <1>5, <2>3, <2>4, <2>5, SeqEqual
  <2>. QED  BY <1>1, <2>3, <2>6
<1>. QED  BY <1>6, <1>7

\* What a decode has told is what it has added.
Added(c, e, j) ==
    /\ j.kind = "decode" /\ j.pc = "run" => j.told = <<>>
    /\ j.kind = "decode" /\ j.pc # "run" =>
         /\ j.start \in 0..Len(ContextOf(e)) /\ j.told \in Seq(Int)
         /\ Owed(c, e, j) = SubSeq(ContextOf(e), 1, j.start) \o j.told

LEMMA NothingAdded ==
    ASSUME NEW c, NEW e, NEW k, k.kind # "decode" \/ (k.pc = "run" /\ k.told = <<>>)
    PROVE  Added(c, e, k)
  BY DEF Added

\* A decode that begins has added nothing.
LEMMA BeginsAdded ==
    ASSUME NEW c, NEW e, ~Past(e), ContextOf(e) \in Seq(Int), NEW k,
           k.pc = "loop", k.start = Len(ContextOf(e)), k.told = <<>>
    PROVE  Added(c, e, k)
<1>1. PICK s : s = ContextOf(e) /\ s \in Seq(Int)
  OBVIOUS
<1>2. s = SubSeq(s, 1, Len(s)) \o <<>> /\ Len(s) \in 0..Len(s) /\ <<>> \in Seq(Int)
  BY <1>1
<1>3. Owed(c, e, k) = s
  BY <1>1 DEF Owed
<1>. QED  BY <1>1, <1>2, <1>3 DEF Added

\* One that goes on tells more, and adds it.
LEMMA GoesOnAdded ==
    ASSUME NEW c, NEW e, NEW j, Added(c, e, j), j.kind = "decode", j.pc # "run",
           ContextOf(e) \in Seq(Int), NEW x, Longer(e, x), NEW k, NEW more \in Seq(Int),
           Owed(c, e, j) \in Seq(Int), Owed(c, x, k) = Owed(c, e, j) \o more,
           k.pc # "run", k.start = j.start, k.told = j.told \o more
    PROVE  Added(c, x, k)
<1>1. PICK s, told, n : s = ContextOf(e) /\ told = j.told /\ n = j.start
  OBVIOUS
<1>2. /\ s \in Seq(Int) /\ n \in 0..Len(s) /\ told \in Seq(Int)
      /\ Owed(c, e, j) = SubSeq(s, 1, n) \o told
  BY <1>1 DEF Added
<1>2a. n \in Nat /\ n <= Len(s)
  BY <1>2
<1>3. PICK t \in Seq(Int) : ContextOf(x) = s \o t
  BY <1>1 DEF Longer
<1>4. Len(s \o t) >= Len(s) /\ Len(s) \in Nat /\ Len(s \o t) \in Nat
  BY <1>2
<1>5. n \in 0..Len(s \o t)
  BY <1>2, <1>2a, <1>4
<1>6. SubSeq(s \o t, 1, n) = SubSeq(s, 1, n)
  BY <1>2, <1>2a, PartOfLine
<1>7. PICK b : b = SubSeq(s, 1, n) /\ b \in Seq(Int)
  <2>1. SubSeq(s, 1, n) \in Seq(Int)
    BY <1>2, <1>2a
  <2>. QED  BY <2>1
<1>8. b \o (told \o more) = (b \o told) \o more /\ told \o more \in Seq(Int)
  <2>1. told \in Seq(Int)
    BY <1>2
  <2>2. told \o more \in Seq(Int)
    BY <2>1, Appended
  <2>3. b \o (told \o more) = (b \o told) \o more
    BY ZenonT(40), <1>7, <2>1, Associative
  <2>. QED  BY <2>2, <2>3
<1>9. Owed(c, x, k) = SubSeq(s \o t, 1, n) \o (told \o more)
  BY <1>2, <1>6, <1>7, <1>8
<1>. QED  BY <1>1, <1>3, <1>5, <1>8, <1>9 DEF Added

(***************************************************************************)
(* Each turn is supplied, and only adds to the context.                     *)
(***************************************************************************)
\* Nothing outlives the session; no checkpoint is beyond the context.
ClosedInv == ~open => Quiet /\ saved = NoCheckpoints
SupplyInv == Supplied(conf, exec, lastId, open /\ prompted, job, queue)
AddedInv  == Added(conf, exec, job)
SavedInv  == \A l \in Label : saved[l] <= Len(ContextOf(exec))

\* The dynamic executor does not count a single token given back to it.
NoMix == \A c \in Configs : c.dynamic => c.sampler # "external"

\* What a decode that is over leaves of the context it began with.
Told(e, j, x) == ContextOf(x) = SubSeq(ContextOf(e), 1, j.start) \o j.told

Goes(c, e, j, x, new, b, k, qu) ==
    /\ Supplied(c, x, new, b, k, qu) /\ Added(c, x, k) /\ Longer(e, x)
    /\ j.kind = "decode" /\ j.pc # "run" /\ k = Idle => Told(e, j, x)

WorkGoes ==
    Goes(conf, exec, job, exec', lastId', open' /\ prompted', job', queue')

LEMMA GivesGoes ==
    ASSUME NEW c, NEW e, NEW j, NEW x, NEW new, NEW b, NEW k, NEW qu,
           Goes(c, e, j, x, new, b, k, qu), conf = c, exec = e, job = j,
           exec' = x, lastId' = new, b = (open' /\ prompted'), job' = k, queue' = qu
    PROVE  WorkGoes
  BY DEF WorkGoes

LEMMA TakesSupply ==
    ASSUME SupplyInv
    PROVE  \A a : a = (open /\ prompted) => Supplied(conf, exec, lastId, a, job, queue)
  BY DEF SupplyInv

LEMMA ContextIsLine ==
    ASSUME NEW c, Built(c), NEW e, SoundExec(c, e)
    PROVE  ContextOf(e) \in Seq(Int) /\ Longer(e, e)
<1>1. ContextOf(e) \in Seq(Int)
  BY ContextLength DEF SoundExec
<1>. QED  BY <1>1, LongerSame

LEMMA TakeClosureGoes ==
    ASSUME IInv, SupplyInv, TakeClosure
    PROVE  WorkGoes
<1>1. PICK c, e, last, j, qu, a : /\ c = conf /\ e = exec /\ j = Head(queue) /\ qu = Tail(queue)
                                  /\ a = (open /\ prompted) /\ last = lastId
  OBVIOUS
<1>2. /\ job = Idle /\ queue # <<>> /\ job' = j /\ queue' = qu /\ exec' = e
      /\ prompted' = prompted /\ UNCHANGED session
  BY <1>1 DEF TakeClosure
<1>3. a \in BOOLEAN /\ Consistent(c, e, a, Idle, queue) /\ Built(c)
  BY <1>1, <1>2, TakesInv
<1>4. SoundExec(c, e) /\ queue \in Seq(TurnSet)
  BY <1>3 DEF Consistent, Fine, Turns
<1>5. Supplied(c, e, last, a, Idle, queue)
  BY <1>1, <1>2, TakesSupply
<1>6. Supplied(c, e, last, a, j, qu)
  BY <1>1, <1>2, <1>4, <1>5, TakeSupplied
<1>7. j \in TurnSet
  BY <1>1, <1>2, <1>4
<1>8. j.pc = "run" /\ j.told = <<>>
  BY <1>7 DEF TurnSet
<1>9. Added(c, e, j)
  BY <1>8, NothingAdded
<1>10. Longer(e, e)
  BY <1>3, <1>4, ContextIsLine
<1>11. Idle.kind # "decode"
  BY IdleIs
<1>12. Goes(c, e, Idle, e, last, a, j, qu)
  BY <1>6, <1>9, <1>10, <1>11 DEF Goes
<1>13. lastId' = last /\ a = (open' /\ prompted')
  BY <1>1, <1>2, SameValues
<1>. QED  BY <1>1, <1>2, <1>12, <1>13, GivesGoes

LEMMA PrefillReportGoes ==
    ASSUME IInv, SupplyInv, PrefillReport
    PROVE  WorkGoes
<1>1. PICK c, e, last, j, qu, a, k : /\ c = conf /\ e = exec /\ j = job /\ qu = queue
                                     /\ a = (open /\ prompted) /\ last = lastId /\ k = job'
  OBVIOUS
<1>2. /\ j.kind = "prefill" /\ j.pc = "report" /\ exec' = e /\ queue' = qu
      /\ prompted' = prompted /\ UNCHANGED session
      /\ k = Idle \/ k = [j EXCEPT !.pc = "next"]
  BY <1>1 DEF PrefillReport, At, JobEnds, GoTo
<1>3. a \in BOOLEAN /\ Consistent(c, e, a, j, qu) /\ Built(c)
  BY <1>1, TakesInv
<1>4. SoundExec(c, e) /\ Ready(e)
  BY <1>2, <1>3 DEF Consistent, Fine, Prompted
<1>5. Supplied(c, e, last, a, j, qu)
  BY <1>1, TakesSupply
<1>6. Pends(e, last)
  BY <1>2, <1>5 DEF Supplied, Fed, TokenDue
<1>7. k = Idle \/ k.kind = "prefill"
  <2>1. IsRecord(j)
    BY <1>1, <1>2, JobIs
  <2>2. k = [j EXCEPT !.pc = "next"] => Moved(j, k, "next", j.ids, j.given)
    BY <2>1, GoToIs
  <2>. QED  BY <1>2, <2>2 DEF Moved
<1>8. Supplied(c, e, last, a, k, qu)
  BY <1>2, <1>3, <1>4, <1>5, <1>6, <1>7, FilledSupplied
<1>9. k.kind # "decode"
  BY <1>7, IdleIs
<1>10. Added(c, e, k)
  BY <1>9, NothingAdded
<1>11. Longer(e, e)
  BY <1>3, <1>4, ContextIsLine
<1>12. Goes(c, e, j, e, last, a, k, qu)
  BY <1>2, <1>8, <1>10, <1>11 DEF Goes
<1>13. lastId' = last /\ a = (open' /\ prompted')
  BY <1>1, <1>2, SameValues
<1>. QED  BY <1>1, <1>2, <1>12, <1>13, GivesGoes

LEMMA PrefillThenDecodeGoes ==
    ASSUME IInv, SupplyInv, PrefillThenDecode
    PROVE  WorkGoes
<1>1. PICK c, e, last, j, qu, a : /\ c = conf /\ e = exec /\ j = job /\ qu = queue
                                  /\ a = (open /\ prompted) /\ last = lastId
  OBVIOUS
<1>2. /\ j.kind = "prefill" /\ j.pc = "next" /\ exec' = e /\ prompted' = prompted
      /\ UNCHANGED session
      /\ IF j.sync THEN /\ job' = [Closure("decode", <<>>, FALSE) EXCEPT !.sync = TRUE]
                        /\ queue' = qu
         ELSE Schedule(Closure("decode", <<>>, FALSE)) /\ job' = Idle
  BY <1>1 DEF PrefillThenDecode, At
<1>3. a \in BOOLEAN /\ Consistent(c, e, a, j, qu) /\ Built(c)
  BY <1>1, TakesInv
<1>4. SoundExec(c, e) /\ Ready(e) /\ Fine(c, e, a, j, qu)
  BY <1>2, <1>3 DEF Consistent, Fine, Prompted
<1>5. Supplied(c, e, last, a, j, qu)
  BY <1>1, TakesSupply
<1>6. Pends(e, last)
  BY <1>2, <1>5 DEF Supplied, Fed, TokenDue
<1>7. IsJob(j) /\ j # Idle
  BY <1>1, <1>2, JobIs
<1>8. qu = <<>> /\ ~a
  BY <1>2, <1>4, <1>7 DEF IsJob, Fine, NothingBehind
<1>9. Longer(e, e)
  BY <1>3, <1>4, ContextIsLine
<1>10. lastId' = last /\ a = (open' /\ prompted')
  BY <1>1, <1>2, SameValues
<1>11. <<>> \in Seq(Int)
  OBVIOUS
<1>12. CASE j.sync
  <2>1. PICK k : k = [Closure("decode", <<>>, FALSE) EXCEPT !.sync = TRUE]
    OBVIOUS
  <2>2. k.kind = "decode" /\ k.pc = "run" /\ k.told = <<>>
    BY <2>1 DEF Closure, Idle
  <2>3. Supplied(c, e, last, a, k, qu)
    BY <1>2, <1>3, <1>4, <1>5, <1>6, <1>8, <2>2, FilledSupplied
  <2>4. Added(c, e, k)
    BY <2>2, NothingAdded
  <2>5. Goes(c, e, j, e, last, a, k, qu)
    BY <1>2, <1>9, <2>3, <2>4 DEF Goes
  <2>. QED  BY <1>1, <1>2, <1>10, <1>12, <2>1, <2>5, GivesGoes
<1>13. CASE ~j.sync
  <2>1. PICK t, k, qu2, yes : /\ t = Closure("decode", <<>>, FALSE) /\ k = Idle
                              /\ qu2 = Append(qu, t) /\ yes = TRUE
    OBVIOUS
  <2>2. t \in TurnSet /\ t.kind = "decode"
    BY <1>11, <2>1, ClosureIs
  <2>3. k.kind = "none" /\ ~k.generate /\ IsJob(k) /\ Fits(c, k) /\ ~Needs(c, k) /\ k.kind # "prefill"
    BY <2>1, NoneIs, IdleIs
  <2>4. Supplied(c, e, last, yes, k, qu)
    BY <1>2, <1>3, <1>4, <1>5, <1>6, <2>1, FilledSupplied
  <2>5. PrefillOrReady(e, k) /\ yes \in BOOLEAN /\ yes = TRUE
    BY <1>4, <2>1 DEF PrefillOrReady
  <2>6. Fine(c, e, yes, k, qu)
    BY <1>8, <2>3, <2>5, AloneIs
  <2>7. Supplied(c, e, last, a, k, qu2)
    BY <1>3, <1>4, <2>1, <2>2, <2>4, <2>5, <2>6, AppendSupplied
  <2>8. Added(c, e, k)
    BY <2>3, NothingAdded
  <2>9. Goes(c, e, j, e, last, a, k, qu2)
    BY <1>2, <1>9, <2>7, <2>8 DEF Goes
  <2>10. queue' = qu2 /\ job' = k
    BY <1>1, <1>2, <1>13, <2>1 DEF Schedule
  <2>. QED  BY <1>1, <1>2, <1>10, <2>9, <2>10, GivesGoes
<1>. QED  BY <1>12, <1>13

LEMMA PrefillJobGoes ==
    ASSUME ~Careless, Counted, IInv, SupplyInv, PrefillJob
    PROVE  WorkGoes
<1>1. PICK failAt \in Failure : \E r : PrefillRan(conf, exec, job, job.ids, failAt, r)
  BY PrefillJobSays
<1>2. PICK r : PrefillRan(conf, exec, job, job.ids, failAt, r)
  BY <1>1
<1>3. PICK c, e, last, j, qu, a, ids :
         /\ c = conf /\ e = exec /\ j = job /\ qu = queue /\ ids = job.ids
         /\ a = (open /\ prompted) /\ last = lastId
  OBVIOUS
<1>4. job.kind = "prefill" /\ job.pc = "run" /\ UNCHANGED <<conf, open, saved, queue>>
  BY DEF PrefillJob, At
<1>5. /\ ids \in Seq(Int) /\ ids # <<>> /\ Longer(e, r.e)
      /\ r.ok => Took(e, ids, r.e)
      /\ exec' = r.e
      /\ IF r.ok
         THEN /\ lastId' = ids[Len(ids)] /\ job' = [j EXCEPT !.pc = "report"]
         ELSE lastId' = lastId /\ job' = Idle
      /\ prompted' = (prompted /\ r.ok)
      /\ r.ok \/ failAt # 0
  BY <1>2, <1>3 DEF PrefillRan
<1>6. a \in BOOLEAN /\ Consistent(c, e, a, j, qu) /\ Built(c) /\ Supplied(c, e, last, a, j, qu)
  BY <1>3, TakesInv, TakesSupply
<1>7. IInv'
  BY PrefillJobOK
<1>8. PICK x, new, b, k : x = r.e /\ new = lastId' /\ b = (open' /\ prompted') /\ k = job'
  OBVIOUS
<1>9. CASE r.ok
  <2>1. IsRecord(j) /\ k = [j EXCEPT !.pc = "report"]
    BY <1>3, <1>4, <1>5, <1>8, <1>9, JobIs
  <2>2. k.kind = "prefill" /\ k.pc = "report"
    <3>1. Moved(j, k, "report", j.ids, j.given)
      BY <2>1, GoToIs
    <3>. QED  BY <1>3, <1>4, <3>1 DEF Moved
  <2>3. SoundExec(c, x) /\ Ready(x)
    <3>1. SoundExec(conf', exec')
      BY <1>7 DEF IInv, ExecInv
    <3>2. Ready(exec')
      BY <1>7, <1>8, <2>2 DEF IInv, PromptInv, Prompted
    <3>. QED  BY <1>3, <1>4, <1>5, <1>8, <3>1, <3>2
  <2>4. Pends(x, new)
    BY <1>5, <1>8, <1>9 DEF Took, Pends
  <2>5. Supplied(c, x, new, b, k, qu)
    BY <1>3, <1>4, <1>6, <2>2, <2>3, <2>4, FilledSupplied
  <2>6. Added(c, x, k)
    BY <2>2, NothingAdded
  <2>7. Goes(c, e, j, x, new, b, k, qu)
    BY <1>3, <1>4, <1>5, <1>8, <2>5, <2>6 DEF Goes
  <2>. QED  BY <1>3, <1>4, <1>5, <1>8, <2>7, GivesGoes
<1>10. CASE ~r.ok
  <2>1. qu = <<>>
    BY <1>1, <1>3, <1>5, <1>10, FailureIs
  <2>2. k = Idle /\ ~b
    BY <1>5, <1>8, <1>10
  <2>3. Supplied(c, x, new, b, k, qu)
    BY <2>1, <2>2, QuietSupplied
  <2>4. k.kind # "decode"
    BY <2>2, IdleIs
  <2>5. Added(c, x, k)
    BY <2>4, NothingAdded
  <2>6. Goes(c, e, j, x, new, b, k, qu)
    BY <1>3, <1>4, <1>5, <1>8, <2>3, <2>5 DEF Goes
  <2>. QED  BY <1>3, <1>4, <1>5, <1>8, <2>6, GivesGoes
<1>. QED  BY <1>9, <1>10

\* What is owed comes behind the context.
OwedLonger(c, e, j) ==
    \E more \in Seq(Int) : Owed(c, e, j) = ContextOf(e) \o more

LEMMA OwedIs ==
    ASSUME NEW c, Built(c), NEW e, SoundExec(c, e), NEW j, UnderWay(c, e, j),
           j.kind = "decode", j.pc # "run"
    PROVE  Owed(c, e, j) \in Seq(Int) /\ OwedLonger(c, e, j)
<1>1. PICK s : s = ContextOf(e) /\ s \in Seq(Int)
  BY ContextIsLine
<1>2. CASE c.sampler = "external" /\ Past(e)
  <2>1. PICK v : v = j.given[1]
    OBVIOUS
  <2>2. v \in Int
    <3>1. j.given \in Seq(Int) /\ Len(j.given) = c.heads /\ c.heads \in Nat \ {0}
      BY <1>2 DEF UnderWay, Built
    <3>2. 1 \in 1..Len(j.given)
      BY <3>1
    <3>. QED  BY <2>1, <3>1, <3>2
  <2>3. <<v>> \in Seq(Int)
    BY <2>2, OneToken
  <2>4. Owed(c, e, j) = s \o <<v>>
    BY <1>1, <1>2, <2>1 DEF Owed
  <2>5. s \o <<v>> \in Seq(Int)
    BY <1>1, <2>3, Appended
  <2>. QED  BY <1>1, <2>3, <2>4, <2>5 DEF OwedLonger
<1>3. CASE ~(c.sampler = "external" /\ Past(e))
  <2>1. Owed(c, e, j) = s
    BY <1>1, <1>3 DEF Owed
  <2>2. s = s \o <<>> /\ <<>> \in Seq(Int)
    BY <1>1
  <2>. QED  BY <1>1, <2>1, <2>2 DEF OwedLonger
<1>. QED  BY <1>2, <1>3

LEMMA OwedIsLonger ==
    ASSUME NEW c, NEW e, NEW j, OwedLonger(c, e, j), ContextOf(e) \in Seq(Int),
           NEW x, NEW more \in Seq(Int), ContextOf(x) = Owed(c, e, j) \o more
    PROVE  Longer(e, x)
<1>1. PICK s : s = ContextOf(e) /\ s \in Seq(Int)
  OBVIOUS
<1>2. PICK m \in Seq(Int) : Owed(c, e, j) = s \o m
  BY <1>1 DEF OwedLonger
<1>3. (s \o m) \o more = s \o (m \o more) /\ m \o more \in Seq(Int)
  BY SMTT(30), <1>1, Associative, Appended
<1>. QED  BY <1>1, <1>2, <1>3 DEF Longer

\* A decode that is over has given everything that was owed.
LEMMA OwedTold ==
    ASSUME NEW c, Built(c), NEW e, SoundExec(c, e), NEW j, UnderWay(c, e, j), Added(c, e, j),
           j.kind = "decode", j.pc # "run", NEW x, ContextOf(x) = Owed(c, e, j)
    PROVE  Told(e, j, x) /\ Longer(e, x)
<1>1. Owed(c, e, j) \in Seq(Int) /\ OwedLonger(c, e, j) /\ ContextOf(e) \in Seq(Int)
  BY OwedIs, ContextIsLine
<1>2. Longer(e, x)
  BY <1>1 DEF OwedLonger, Longer
<1>3. Told(e, j, x)
  BY DEF Added, Told
<1>. QED  BY <1>2, <1>3

\* The record of a decode that begins, or goes on.
Tells(k, start, told) == k.start = start /\ k.told = told

LEMMA StartKeeps ==
    ASSUME NEW j, IsRecord(j), NEW pc, NEW start, NEW given,
           NEW k, k = [j EXCEPT !.pc = pc, !.start = start, !.given = given]
    PROVE  Tells(k, start, j.told)
<1>1. PICK a, b, d, f, g, h, l, m, n :
        j = [kind |-> a, sync |-> b, pc |-> d, ids |-> f, generate |-> g, given |-> h,
             found |-> l, start |-> m, told |-> n]
  BY DEF IsRecord
<1>2. k = [kind |-> a, sync |-> b, pc |-> pc, ids |-> f, generate |-> g, given |-> given,
           found |-> l, start |-> start, told |-> n]
  BY <1>1
<1>. QED  BY <1>1, <1>2 DEF Tells

LEMMA StepKeeps ==
    ASSUME NEW j, IsRecord(j), NEW pc, NEW found, NEW more, NEW given,
           NEW k, k = [j EXCEPT !.found = found, !.told = @ \o more, !.given = given, !.pc = pc]
    PROVE  Tells(k, j.start, j.told \o more)
<1>1. PICK a, b, d, f, g, h, l, m, n :
        j = [kind |-> a, sync |-> b, pc |-> d, ids |-> f, generate |-> g, given |-> h,
             found |-> l, start |-> m, told |-> n]
  BY DEF IsRecord
<1>2. PICK t : t = n \o more
  OBVIOUS
<1>3. k = [kind |-> a, sync |-> b, pc |-> pc, ids |-> f, generate |-> g, given |-> given,
           found |-> found, start |-> m, told |-> t]
  BY <1>1, <1>2
<1>. QED  BY <1>1, <1>2, <1>3 DEF Tells

\* A turn that is over leaves nothing asked for.
LEMMA EndsGoes ==
    ASSUME NEW c, Built(c), NEW e, SoundExec(c, e), NEW last, NEW a, NEW j, NEW qu,
           Fine(c, e, a, j, qu), Supplied(c, e, last, a, j, qu), j.kind \in {"decode", "score"},
           NEW x, Longer(e, x), j.kind = "decode" /\ j.pc # "run" => Told(e, j, x),
           NEW new, NEW k, k = Idle
    PROVE  Goes(c, e, j, x, new, a, k, qu)
<1>1. k.kind # "decode"
  BY IdleIs
<1>2. Supplied(c, x, new, a, k, qu)
  BY <1>1, NextSupplied
<1>3. Added(c, x, k)
  BY <1>1, NothingAdded
<1>. QED  BY <1>2, <1>3 DEF Goes

LEMMA DecodeEndsGoes ==
    ASSUME NoMix, IInv, SupplyInv, AddedInv, job.kind = "decode", job.pc # "run", NEW failAt,
           exec' = GiveBack(failAt).e, job' = Idle,
           queue' = queue, prompted' = prompted, UNCHANGED session
    PROVE  WorkGoes
<1>1. PICK c, e, last, j, qu, a, r, x, k :
         /\ c = conf /\ e = exec /\ j = job /\ qu = queue /\ a = (open /\ prompted) /\ last = lastId
         /\ r = GiveBack(failAt) /\ x = r.e /\ k = Idle
  OBVIOUS
<1>2. a \in BOOLEAN /\ Consistent(c, e, a, j, qu) /\ Built(c) /\ Supplied(c, e, last, a, j, qu)
  BY <1>1, TakesInv, TakesSupply
<1>3. SoundExec(c, e) /\ Fine(c, e, a, j, qu) /\ UnderWay(c, e, j) /\ j.kind = "decode" /\ j.pc # "run"
  BY <1>1, <1>2 DEF Consistent
<1>4. Added(c, e, j)
  BY <1>1 DEF AddedInv
<1>5. ContextOf(x) = Owed(c, e, j)
  <2>1. conf.dynamic => conf.sampler # "external"
    BY TakesInv DEF NoMix, ValuesInv
  <2>2. Supplied(conf, exec, last, a, job, qu)
    BY <1>1, <1>2
  <2>. QED  BY <1>1, <2>1, <2>2, GiveBackSays
<1>6. Told(e, j, x) /\ Longer(e, x)
  BY <1>2, <1>3, <1>4, <1>5, OwedTold
<1>7. Goes(c, e, j, x, last, a, k, qu)
  BY <1>1, <1>2, <1>3, <1>6, EndsGoes
<1>8. lastId' = last /\ a = (open' /\ prompted')
  BY <1>1, SameValues
<1>. QED  BY <1>1, <1>7, <1>8, GivesGoes

LEMMA DecodeOverGoes ==
    ASSUME NoMix, IInv, SupplyInv, AddedInv, DecodeCancelled \/ DecodeFinish
    PROVE  WorkGoes
<1>1. PICK failAt : exec' = GiveBack(failAt).e
  BY DEF DecodeCancelled, DecodeFinish
<1>2. /\ job.kind = "decode" /\ job.pc # "run" /\ job' = Idle /\ queue' = queue
      /\ prompted' = prompted /\ UNCHANGED session
  BY DEF DecodeCancelled, DecodeFinish, At, JobEnds
<1>. QED  BY <1>1, <1>2, DecodeEndsGoes

\* What a decode begins with: the executor and the token it samples from.
Entered(c, e, x, last) ==
    /\ Longer(e, x) /\ ~Past(x) /\ SoundExec(c, x)
    /\ c.sampler = "external" => Pends(x, last)
    /\ c.sampler = "draft" => DraftReady(x)

\* The end of the turn is prefilled first, if there is one.
LEMMA SuffixEnters ==
    ASSUME Built(conf), SoundExec(conf, exec), ~Past(exec), NEW ids \in Seq(Int), ids # <<>>,
           conf.sampler = "external" => Ready(exec),
           NEW failAt, NEW r, r = ExecutorPrefill(exec, ids, 0, failAt)
    PROVE  Entered(conf, exec, r.e, ids[Len(ids)])
<1>1. PICK c, e, x, cut : c = conf /\ e = exec /\ x = r.e /\ cut = 0
  OBVIOUS
<1>2. Len(ids) \in Nat \ {0} /\ cut \in Nat /\ cut < Len(ids)
  BY <1>1, EmptySeq
<1>3. r = ExecutorPrefill(exec, ids, cut, failAt)
  BY <1>1
<1>4. Refilled(conf, exec, ids, cut, failAt, r) /\ PrefillSaid(conf, exec, ids, cut, r)
  BY <1>2, <1>3, ExecutorPrefillLeaves, ExecutorPrefillSays
<1>5. SoundExec(c, x) /\ ~Past(x) /\ (~c.dynamic => Ready(x))
  BY <1>1, <1>4 DEF Refilled
<1>6. Longer(e, x) /\ (Ready(e) => Took(e, ids, x))
  BY <1>1, <1>4 DEF PrefillSaid
<1>7. c.sampler = "external" => Pends(x, ids[Len(ids)])
  BY <1>1, <1>6 DEF Took, Pends
<1>8. c.sampler = "draft" => DraftReady(x)
  <2>1. c.sampler = "draft" => ~c.dynamic
    BY <1>1 DEF Built
  <2>2. Built(c)
    BY <1>1
  <2>. QED  BY <1>5, <2>1, <2>2, ReadyDrafts
<1>. QED  BY <1>1, <1>5, <1>6, <1>7, <1>8 DEF Entered

LEMMA BeginsSupplied ==
    ASSUME NEW c, NEW e, NEW last0, NEW a, NEW j, NEW qu,
           Fine(c, e, a, j, qu), Supplied(c, e, last0, a, j, qu), j.kind = "decode",
           NEW x, NEW last, Entered(c, e, x, last),
           NEW k, k.kind = j.kind, k.pc = "loop", k.given[1] = last
    PROVE  Supplied(c, x, last, a, k, qu)
<1>1. j.kind \in {"decode", "score"} /\ (k = Idle \/ (k.kind = j.kind /\ k.pc # "run"))
  OBVIOUS
<1>2. /\ c.sampler = "external" /\ k.kind = "decode" /\ Ready(x) => Pends(x, k.given[1])
      /\ c.sampler = "draft" /\ k.kind = "decode" /\ k.pc # "finish" => DraftReady(x)
  BY DEF Entered
<1>. QED  BY <1>1, <1>2, NextSupplied

\* A decode that begins.
LEMMA BeginsGoes ==
    ASSUME NEW c, Built(c), NEW e, SoundExec(c, e), NEW last0, NEW a, NEW j, NEW qu,
           Fine(c, e, a, j, qu), Supplied(c, e, last0, a, j, qu), IsRecord(j),
           j.kind = "decode", j.pc = "run", Added(c, e, j),
           NEW x, NEW last, Entered(c, e, x, last), NEW start, start = x.step,
           NEW given, given[1] = last,
           NEW k, k = [j EXCEPT !.pc = "loop", !.start = start, !.given = given]
    PROVE  Goes(c, e, j, x, last, a, k, qu)
<1>1. Moved(j, k, "loop", j.ids, given) /\ k.start = start /\ k.told = j.told
  <2>1. PICK pc : pc = "loop"
    OBVIOUS
  <2>2. k = [j EXCEPT !.pc = pc, !.start = start, !.given = given]
    BY <2>1
  <2>3. Moved(j, k, pc, j.ids, given)
    BY <2>2, StartIs
  <2>4. Tells(k, start, j.told)
    BY <2>2, StartKeeps
  <2>. QED  BY <2>1, <2>3, <2>4 DEF Tells
<1>2. k.kind = j.kind /\ k.pc = "loop" /\ k.given = given
  BY <1>1 DEF Moved
<1>3. k.told = <<>>
  BY <1>1 DEF Added
<1>4. ~Past(x) /\ SoundExec(c, x) /\ Longer(e, x)
  BY DEF Entered
<1>5. PICK g, q : Sound(c, x, g, q)
  BY <1>4 DEF SoundExec
<1>6. Counts(c, x, g, q)
  BY <1>5, SoundCounts
<1>7. x.step <= g + q
  BY <1>4, <1>6 DEF Counts
<1>8. ContextOf(x) \in Seq(Int) /\ Len(ContextOf(x)) = x.step
  BY <1>5, <1>7, ContextLength
<1>9. Added(c, x, k)
  BY <1>1, <1>2, <1>3, <1>4, <1>8, BeginsAdded
<1>10. k.given[1] = last
  BY <1>2
<1>11. Supplied(c, x, last, a, k, qu)
  BY ZenonT(40), <1>2, <1>10, BeginsSupplied
<1>. QED  BY <1>4, <1>9, <1>11 DEF Goes

LEMMA DecodeStartGoes ==
    ASSUME IInv, SupplyInv, AddedInv, DecodeStart
    PROVE  WorkGoes
<1>1. PICK c, e, last0, j, qu, a :
         /\ c = conf /\ e = exec /\ j = job /\ qu = queue
         /\ a = (open /\ prompted) /\ last0 = lastId
  OBVIOUS
<1>3. PICK failAt \in IF job.sync /\ conf.suffix # <<>> THEN Failure \ {2} ELSE {0} :
        LET r == IF job.sync /\ conf.suffix # <<>>
                 THEN ExecutorPrefill(exec, conf.suffix, 0, failAt) ELSE Ok(exec)
            last == IF job.sync /\ conf.suffix # <<>>
                    THEN conf.suffix[Len(conf.suffix)] ELSE lastId
        IN /\ exec' = r.e
           /\ IF r.ok
              THEN /\ lastId' = last
                   /\ phase' = IF job.sync THEN "decoded" ELSE phase
                   /\ job' = [job EXCEPT !.pc = "loop", !.start = exec'.step,
                                         !.given = [i \in 1..conf.heads |-> last]]
              ELSE UNCHANGED <<lastId, phase>> /\ JobEnds
  BY DEF DecodeStart
<1>4. PICK r : r = IF job.sync /\ conf.suffix # <<>>
                   THEN ExecutorPrefill(exec, conf.suffix, 0, failAt) ELSE Ok(exec)
  OBVIOUS
<1>5. PICK last : last = IF job.sync /\ conf.suffix # <<>>
                         THEN conf.suffix[Len(conf.suffix)] ELSE lastId
  OBVIOUS
<1>6. /\ exec' = r.e
      /\ r.ok => /\ lastId' = last
                 /\ job' = [job EXCEPT !.pc = "loop", !.start = exec'.step,
                                       !.given = [i \in 1..conf.heads |-> last]]
      /\ ~r.ok => lastId' = lastId /\ job' = Idle
  BY <1>3, <1>4, <1>5 DEF JobEnds
<1>7. j.kind = "decode" /\ j.pc = "run" /\ UNCHANGED <<conf, open, saved, queue, prompted>>
  BY <1>1 DEF DecodeStart, At
<1>8. a \in BOOLEAN /\ Consistent(c, e, a, j, qu) /\ Built(c) /\ Supplied(c, e, last0, a, j, qu)
  BY <1>1, TakesInv, TakesSupply
<1>9. /\ IsRecord(j) /\ SoundExec(c, e) /\ PastOnlyFor(c, e, j, qu) /\ j # Idle
      /\ Fine(c, e, a, j, qu)
  BY <1>1, <1>7, <1>8, JobIs DEF Consistent
<1>10. ~Past(e) /\ Added(c, e, j)
  BY <1>1, <1>7, <1>9 DEF PastOnlyFor, AddedInv
<1>11. c.sampler = "external" => Ready(e) /\ Pends(e, last0)
  <2>1. c.sampler = "external" => Needs(c, j) /\ TokenDue(c, a, j, qu)
    BY <1>7 DEF Needs, TokenDue
  <2>. QED  BY <1>7, <1>8, <1>9, <2>1 DEF Fine, Prompted, Supplied, Fed
<1>12. Entered(c, e, r.e, last)
  <2>1. CASE job.sync /\ conf.suffix # <<>>
    <3>1. PICK ids : ids = conf.suffix
      OBVIOUS
    <3>2. ids \in Seq(Int) /\ ids # <<>>
      BY <1>1, <1>8, <2>1, <3>1 DEF Built
    <3>3. r = ExecutorPrefill(exec, ids, 0, failAt) /\ last = ids[Len(ids)]
      BY <1>4, <1>5, <2>1, <3>1
    <3>4. /\ Built(conf) /\ SoundExec(conf, exec) /\ ~Past(exec)
          /\ conf.sampler = "external" => Ready(exec)
      BY <1>1, <1>8, <1>9, <1>10, <1>11
    <3>5. Entered(conf, exec, r.e, ids[Len(ids)])
      BY <3>2, <3>3, <3>4, SuffixEnters
    <3>. QED  BY <1>1, <3>3, <3>5
  <2>2. CASE ~(job.sync /\ conf.suffix # <<>>)
    <3>1. r = Ok(e) /\ last = last0
      BY <1>1, <1>4, <1>5, <2>2
    <3>2. r.e = e
      BY <3>1 DEF Ok
    <3>3. Longer(e, e)
      BY <1>8, <1>9, ContextIsLine
    <3>4. c.sampler = "draft" => DraftReady(e)
      BY <1>7, <1>8 DEF Supplied, Drafts
    <3>. QED  BY <1>9, <1>10, <1>11, <3>1, <3>2, <3>3, <3>4 DEF Entered
  <2>. QED  BY <2>1, <2>2
<1>13. PICK x, new, k : x = exec' /\ new = lastId' /\ k = job'
  OBVIOUS
<1>14. Goes(c, e, j, x, new, a, k, qu)
  <2>1. CASE r.ok
    <3>1. PICK given, start : given = [i \in 1..conf.heads |-> last] /\ start = x.step
      OBVIOUS
    <3>2. given[1] = last
      <4>1. conf.heads \in Nat \ {0}
        BY <1>1, <1>8 DEF Built
      <4>. QED  BY <3>1, <4>1
    <3>3. k = [j EXCEPT !.pc = "loop", !.start = start, !.given = given]
      BY <1>1, <1>6, <1>13, <2>1, <3>1
    <3>4. Entered(c, e, x, last)
      BY <1>6, <1>12, <1>13
    <3>5. Goes(c, e, j, x, last, a, k, qu)
      BY <1>7, <1>8, <1>9, <1>10, <3>1, <3>2, <3>3, <3>4, BeginsGoes
    <3>. QED  BY <1>6, <1>13, <2>1, <3>5
  <2>2. CASE ~r.ok
    <3>1. k = Idle /\ Longer(e, x)
      BY <1>6, <1>12, <1>13, <2>2 DEF Entered
    <3>. QED  BY <1>7, <1>8, <1>9, <3>1, EndsGoes
  <2>. QED  BY <2>1, <2>2
<1>15. a = (open' /\ prompted')
  BY <1>1, <1>7
<1>. QED  BY <1>1, <1>7, <1>13, <1>14, <1>15, GivesGoes

\* A step of a scoring.
LEMMA ScoreStepGoes ==
    ASSUME IInv, SupplyInv, ScoreStep
    PROVE  WorkGoes
<1>1. PICK failAt \in Failure \ {2} :
         LET given == IF job.pc = "run" THEN <<lastId>> ELSE job.given
             r     == ExecutorDecodeLogits(exec, given, failAt # 0)
         IN IF job.ids = <<>> \/ Len(job.ids) >= MaxTokens
            THEN JobEnds /\ UNCHANGED exec
            ELSE /\ exec' = r.e
                 /\ IF r.ok
                    THEN /\ job' = [job EXCEPT !.pc = "loop", !.ids = Tail(@),
                                               !.given = <<Head(job.ids)>>]
                         ELSE JobEnds
  BY DEF ScoreStep
<1>2. job.kind = "score" /\ queue' = queue /\ prompted' = prompted /\ UNCHANGED session
  BY DEF ScoreStep
<1>3. PICK c, e, last, j, qu, a :
         /\ c = conf /\ e = exec /\ j = job /\ qu = queue
         /\ a = (open /\ prompted) /\ last = lastId
  OBVIOUS
<1>4. a \in BOOLEAN /\ Consistent(c, e, a, j, qu) /\ Built(c) /\ Supplied(c, e, last, a, j, qu)
      /\ ValuesInv
  BY <1>3, TakesInv, TakesSupply
<1>5. /\ SoundExec(c, e) /\ Fine(c, e, a, j, qu) /\ UnderWay(c, e, j) /\ j.kind = "score"
  BY <1>2, <1>3, <1>4 DEF Consistent
<1>6. IsRecord(j) /\ IsJob(j) /\ Fits(c, j) /\ j # Idle
  BY <1>2, <1>3, JobIs
<1>7. PICK given, x, k : /\ given = IF job.pc = "run" THEN <<lastId>> ELSE job.given
                         /\ x = exec' /\ k = job'
  OBVIOUS
<1>8. PICK r : r = ExecutorDecodeLogits(exec, given, failAt # 0)
  OBVIOUS
<1>9. /\ x = e \/ x = r.e
      /\ k = Idle \/ k = [j EXCEPT !.pc = "loop", !.ids = Tail(@), !.given = <<Head(j.ids)>>]
  BY <1>1, <1>3, <1>7, <1>8 DEF JobEnds
<1>10. k = Idle \/ (k.kind = j.kind /\ k.pc # "run")
  <2>1. ASSUME k # Idle PROVE k.kind = j.kind /\ k.pc # "run"
    <3>1. PICK next : next = <<Head(j.ids)>>
      OBVIOUS
    <3>2. k = [j EXCEPT !.pc = "loop", !.ids = Tail(@), !.given = next]
      BY <1>9, <2>1, <3>1
    <3>3. Moved(j, k, "loop", Tail(j.ids), next)
      BY <1>6, <3>2, ScoredIs
    <3>. QED  BY <3>3 DEF Moved
  <2>. QED  BY <2>1
<1>11. Longer(e, r.e)
  <2>1. CASE c.sampler = "npu"
    <3>1. r = Err(e)
      BY <1>3, <1>8, <2>1 DEF ExecutorDecodeLogits, Npu
    <3>2. r.e = e
      BY <3>1 DEF Err
    <3>. QED  BY <1>4, <1>5, <3>2, ContextIsLine
  <2>2. CASE c.sampler # "npu"
    <3>1. PICK fail : fail = (failAt # 0)
      OBVIOUS
    <3>2. r = DecodeLogits(c, e, given, fail)
      BY <1>3, <1>8, <2>2, <3>1 DEF ExecutorDecodeLogits, Npu
    <3>3. c.heads = 1
      BY <1>5, <1>6 DEF Fits
    <3>4. /\ given \in Seq(Int) /\ Len(given) = c.heads
          /\ (Ready(e) /\ Pends(e, given[1])) \/ Past(e)
      <4>1. CASE j.pc = "run"
        <5>1. given = <<last>> /\ last \in Int
          BY <1>3, <1>4, <1>7, <4>1 DEF ValuesInv
        <5>2. Needs(c, j) /\ TokenDue(c, a, j, qu)
          BY <1>5, <4>1 DEF Needs, TokenDue
        <5>3. Ready(e) /\ Pends(e, last)
          BY <1>4, <1>5, <4>1, <5>2 DEF Fine, Prompted, Supplied, Fed
        <5>. QED  BY <3>3, <5>1, <5>3
      <4>2. CASE j.pc # "run"
        <5>1. j.pc = "loop"
          BY <1>5, <1>6, <4>2 DEF IsJob
        <5>2. given = j.given
          BY <1>3, <1>7, <4>2
        <5>. QED  BY <1>5, <3>3, <5>1, <5>2 DEF UnderWay
      <4>. QED  BY <4>1, <4>2
    <3>5. LogitsSaid(e, given, r.e)
      BY <1>4, <1>5, <2>2, <3>2, <3>4, LogitsSays
    <3>6. PICK v : v = given[1] /\ v \in Int
      <4>1. 1 \in 1..Len(given)
        BY <3>3, <3>4
      <4>. QED  BY <3>4, <4>1
    <3>7. ContextOf(e) \in Seq(Int)
      BY <1>4, <1>5, ContextIsLine
    <3>8. CASE ContextOf(r.e) = ContextOf(e)
      BY <3>7, <3>8, LongerSame
    <3>9. CASE ContextOf(r.e) = ContextOf(e) \o <<v>>
      <4>1. <<v>> \in Seq(Int)
        BY <3>6, OneToken
      <4>. QED  BY <3>9, <4>1 DEF Longer
    <3>. QED  BY <3>5, <3>6, <3>8, <3>9 DEF LogitsSaid
  <2>. QED  BY <2>1, <2>2
<1>12. Longer(e, x)
  BY <1>4, <1>5, <1>9, <1>11, ContextIsLine
<1>13. k.kind # "decode" /\ j.kind # "decode"
  BY <1>5, <1>10, IdleIs
<1>14. Supplied(c, x, last, a, k, qu)
  BY <1>4, <1>5, <1>10, <1>13, NextSupplied
<1>15. Added(c, x, k)
  BY <1>13, NothingAdded
<1>16. Goes(c, e, j, x, last, a, k, qu)
  BY <1>12, <1>13, <1>14, <1>15 DEF Goes
<1>17. lastId' = last /\ a = (open' /\ prompted')
  BY <1>2, <1>3, SameValues
<1>. QED  BY <1>2, <1>3, <1>7, <1>16, <1>17, GivesGoes

\* The end of a draft is taken off.
TakenTo(x, s, m) == ContextOf(x) = s \o m

LEMMA TakenOff ==
    ASSUME NEW c, Built(c), NEW y, SoundExec(c, y), NEW s \in Seq(Int), NEW out \in Seq(Int),
           TakenTo(y, s, out), y.step = Len(s) + Len(out), NEW drop \in 0..Len(out),
           NEW n, n = y.step - drop, NEW z, z = SetCurrentStep(y, n), NEW x, x = z.e,
           NEW m, m = SubSeq(out, 1, Len(out) - drop)
    PROVE  TakenTo(x, s, m)
<1>1. PICK h : h = Len(out) - drop
  OBVIOUS
<1>2. n \in 0..y.step /\ h \in 0..Len(out) /\ n = Len(s) + h
  BY <1>1
<1>3. PICK w : w = [y EXCEPT !.step = n]
  OBVIOUS
<1>4. z = Ok(w)
  BY <1>2, <1>3 DEF SetCurrentStep
<1>5. x = w
  BY <1>4 DEF Ok
<1>6. PICK g, q : Sound(c, y, g, q)
  BY DEF SoundExec
<1>7. ContextOf(x) = Upto(ContextOf(y), n)
  BY <1>2, <1>3, <1>5, <1>6, SetStepSays
<1>8. Upto(s \o out, Len(s) + h) = s \o SubSeq(out, 1, h)
  BY <1>2, UptoPart
<1>. QED  BY <1>1, <1>2, <1>7, <1>8 DEF TakenTo

\* What one iteration of the loop makes of a turn.
Iterated(c, e, j, x, k, more) ==
    /\ more \in Seq(Int) /\ ContextOf(x) \in Seq(Int)
    /\ Owed(c, x, k) = Owed(c, e, j) \o more
    /\ \E m \in Seq(Int) : ContextOf(x) = Owed(c, e, j) \o m
    /\ k.kind = j.kind /\ k.pc # "run" /\ Tells(k, j.start, j.told \o more)
    /\ c.sampler = "external" => ~Ready(x)
    /\ c.sampler = "draft" /\ k.pc # "finish" => DraftReady(x)

LEMMA IteratedGoes ==
    ASSUME NEW c, Built(c), NEW e, SoundExec(c, e), NEW last, NEW a, NEW j, NEW qu,
           Fine(c, e, a, j, qu), Supplied(c, e, last, a, j, qu), UnderWay(c, e, j), Added(c, e, j),
           j.kind = "decode", j.pc # "run",
           NEW x, NEW k, NEW more, Iterated(c, e, j, x, k, more)
    PROVE  Goes(c, e, j, x, last, a, k, qu)
<1>1. Owed(c, e, j) \in Seq(Int) /\ OwedLonger(c, e, j) /\ ContextOf(e) \in Seq(Int)
  BY OwedIs, ContextIsLine
<1>2. Longer(e, x)
  <2>1. PICK m \in Seq(Int) : ContextOf(x) = Owed(c, e, j) \o m
    BY DEF Iterated
  <2>. QED  BY <1>1, <2>1, OwedIsLonger
<1>3. Added(c, x, k)
  <2>1. /\ more \in Seq(Int) /\ Owed(c, x, k) = Owed(c, e, j) \o more
        /\ k.pc # "run" /\ k.start = j.start /\ k.told = j.told \o more
    BY DEF Iterated, Tells
  <2>. QED  BY <1>1, <1>2, <2>1, GoesOnAdded
<1>4. j.kind \in {"decode", "score"} /\ (k = Idle \/ (k.kind = j.kind /\ k.pc # "run"))
  BY DEF Iterated
<1>5. /\ c.sampler = "external" /\ k.kind = "decode" /\ Ready(x) => Pends(x, k.given[1])
      /\ c.sampler = "draft" /\ k.kind = "decode" /\ k.pc # "finish" => DraftReady(x)
  BY DEF Iterated
<1>6. Supplied(c, x, last, a, k, qu)
  BY <1>4, <1>5, NextSupplied
<1>7. k # Idle
  BY IdleIs DEF Iterated
<1>. QED  BY <1>2, <1>3, <1>6, <1>7 DEF Goes

LEMMA DecodeStepGoes ==
    ASSUME ~Careless, IInv, SupplyInv, AddedInv, DecodeStep
    PROVE  WorkGoes
<1>1. PICK out \in Outputs, failAt \in Failure :
        AfterDecode(DecodeOnce(out, failAt), out, StopInDraft(out))
  BY DEF DecodeStep
<1>2. /\ job.kind = "decode" /\ job.pc = "loop" /\ queue' = queue
      /\ prompted' = prompted /\ UNCHANGED session
  BY DEF DecodeStep, At
<1>3. PICK c, e, last, j, qu, a, x, k :
         /\ c = conf /\ e = exec /\ j = job /\ qu = queue /\ x = exec' /\ k = job'
         /\ a = (open /\ prompted) /\ last = lastId
  OBVIOUS
<1>4. PICK r, drop : r = DecodeOnce(out, failAt) /\ drop = StopInDraft(out)
  OBVIOUS
<1>5. a \in BOOLEAN /\ Consistent(c, e, a, j, qu) /\ Built(c) /\ Supplied(c, e, last, a, j, qu)
  BY <1>3, TakesInv, TakesSupply
<1>6. /\ SoundExec(c, e) /\ Fine(c, e, a, j, qu) /\ UnderWay(c, e, j) /\ Added(c, e, j)
      /\ j.kind = "decode" /\ j.pc # "run"
  BY <1>2, <1>3, <1>5 DEF Consistent, AddedInv
<1>7. IsRecord(j)
  BY <1>2, <1>3, JobIs
<1>8. OnceSaid(c, e, j, out, r)
  <2>1. Supplied(conf, exec, last, a, job, qu)
    BY <1>3, <1>5
  <2>2. OnceSaid(conf, exec, job, out, r)
    BY <1>2, <1>4, <2>1, DecodeOnceSays
  <2>. QED  BY <1>3, <2>2
<1>9. Stepped(c, failAt, r)
  BY <1>2, <1>3, <1>4, DecodeOnceIs
<1>10. /\ out \in Seq(Int) /\ Len(out) \in Nat \ {0} /\ out[1] \in Int /\ out # <<>>
  BY OutputsAre
<1>11. drop \in 0..Len(out)
       /\ (drop # 0 => c.sampler = "draft" /\ \E i \in DOMAIN out : out[i] = Stop)
  BY <1>3, <1>4, <1>10, DropIs
<1>12. Owed(c, e, j) \in Seq(Int)
  BY <1>5, <1>6, OwedIs
<1>13. PICK step : step = r.e.step - drop
  OBVIOUS
<1>14. PICK found :
         found = IF conf.sampler = "draft"
                 THEN {h \in {1} : \E i \in DOMAIN out : out[i] = Stop}
                 ELSE job.found \cup {h \in 1..conf.heads : out[h] = Stop}
  OBVIOUS
<1>15. PICK stop : stop = ShouldStop(found = 1..conf.heads, step - job.start, step)
  OBVIOUS
<1>16. PICK more, given :
          /\ more = IF c.sampler = "draft" THEN SubSeq(out, 1, Len(out) - drop) ELSE <<out[1]>>
          /\ given = IF c.sampler = "external" THEN out ELSE j.given
  OBVIOUS
<1>17. PICK pc : pc = IF stop THEN "finish" ELSE "loop"
  OBVIOUS
<1>18. /\ ~r.ok => x = r.e /\ k = Idle
       /\ r.ok => /\ x = IF drop = 0 THEN r.e ELSE SetCurrentStep(r.e, step).e
                  /\ k = [j EXCEPT !.found = found, !.told = @ \o more, !.given = given, !.pc = pc]
  BY <1>1, <1>3, <1>4, <1>13, <1>14, <1>15, <1>16, <1>17 DEF AfterDecode, JobEnds
<1>19. Goes(c, e, j, x, last, a, k, qu)
  <2>1. CASE ~r.ok
    <3>1. ContextOf(x) = Owed(c, e, j) /\ k = Idle
      BY <1>8, <1>18, <2>1 DEF OnceSaid
    <3>2. Told(e, j, x) /\ Longer(e, x)
      BY <1>5, <1>6, <3>1, OwedTold
    <3>. QED  BY <1>5, <1>6, <3>1, <3>2, EndsGoes
  <2>2. CASE r.ok
    <3>1. Moved(j, k, pc, j.ids, given) /\ Tells(k, j.start, j.told \o more)
      BY <1>7, <1>18, <2>2, StepIs, StepKeeps
    <3>2. k.kind = j.kind /\ k.pc = pc /\ k.given = given /\ k.pc # "run"
      BY <1>17, <3>1 DEF Moved
    <3>3. SoundExec(c, r.e)
      BY <1>9 DEF Stepped
    <3>4. more \in Seq(Int)
      <4>1. <<out[1]>> \in Seq(Int)
        BY <1>10, OneToken
      <4>2. SubSeq(out, 1, Len(out) - drop) \in Seq(Int)
        BY <1>10, <1>11
      <4>. QED  BY <1>16, <4>1, <4>2
    <3>5. ContextOf(x) = IF c.sampler = "external" THEN Owed(c, e, j) ELSE Owed(c, e, j) \o more
      <4>1. CASE c.sampler = "draft"
        <5>1. ContextOf(r.e) = Owed(c, e, j) \o out /\ r.e.step = Len(Owed(c, e, j)) + Len(out)
          BY <1>8, <2>2, <4>1 DEF OnceSaid
        <5>2. CASE drop = 0
          <6>1. Len(out) - drop = Len(out)
            BY <1>10, <5>2
          <6>2. SubSeq(out, 1, Len(out)) = out
            BY <1>10
          <6>3. more = out /\ x = r.e
            BY <1>16, <1>18, <2>2, <4>1, <5>2, <6>1, <6>2
          <6>. QED  BY <4>1, <5>1, <6>3
        <5>3. CASE drop # 0
          <6>1. PICK y, s, n, z, m : /\ y = r.e /\ s = Owed(c, e, j) /\ n = y.step - drop
                                     /\ z = SetCurrentStep(y, n)
                                     /\ m = SubSeq(out, 1, Len(out) - drop)
            OBVIOUS
          <6>2. SoundExec(c, y) /\ s \in Seq(Int) /\ y.step = Len(s) + Len(out)
            BY <1>12, <3>3, <5>1, <6>1
          <6>3. TakenTo(y, s, out)
            BY <5>1, <6>1 DEF TakenTo
          <6>4. x = z.e
            BY <1>13, <1>18, <2>2, <5>3, <6>1
          <6>5. TakenTo(x, s, m)
            BY <1>5, <1>10, <1>11, <6>1, <6>2, <6>3, <6>4, TakenOff
          <6>6. more = m
            BY <1>16, <4>1, <6>1
          <6>. QED  BY <4>1, <6>1, <6>5, <6>6 DEF TakenTo
        <5>. QED  BY <5>2, <5>3
      <4>2. CASE c.sampler # "draft"
        <5>1. x = r.e
          BY <1>11, <1>18, <2>2, <4>2
        <5>. QED  BY <1>8, <1>16, <2>2, <4>2, <5>1 DEF OnceSaid
      <4>. QED  BY <4>1, <4>2
    <3>6. c.sampler = "external" => Past(x)
      BY <1>9, <1>11, <1>18, <2>2 DEF Stepped
    <3>7. Owed(c, x, k) = Owed(c, e, j) \o more
      <4>1. CASE c.sampler = "external"
        <5>1. k.given[1] = out[1] /\ more = <<out[1]>>
          BY <1>16, <3>2, <4>1
        <5>. QED  BY <3>5, <3>6, <4>1, <5>1 DEF Owed
      <4>2. CASE c.sampler # "external"
        BY <3>5, <4>2 DEF Owed
      <4>. QED  BY <4>1, <4>2
    <3>8. ContextOf(x) \in Seq(Int) /\ \E m \in Seq(Int) : ContextOf(x) = Owed(c, e, j) \o m
      <4>1. CASE c.sampler = "external"
        <5>1. Owed(c, e, j) = Owed(c, e, j) \o <<>> /\ <<>> \in Seq(Int)
          BY <1>12
        <5>. QED  BY <1>12, <3>5, <4>1, <5>1
      <4>2. CASE c.sampler # "external"
        <5>1. Owed(c, e, j) \o more \in Seq(Int)
          BY <1>12, <3>4, Appended
        <5>. QED  BY <3>4, <3>5, <4>2, <5>1
      <4>. QED  BY <4>1, <4>2
    <3>9. c.sampler = "external" => ~Ready(x)
      <4>1. ASSUME c.sampler = "external" PROVE ~Ready(x)
        <5>1. x = r.e
          BY <1>11, <1>18, <2>2, <4>1
        <5>2. PICK g, q : Sound(c, x, g, q)
          BY <3>3, <5>1 DEF SoundExec
        <5>3. Counts(c, x, g, q)
          BY <1>5, <5>2, SoundCounts
        <5>. QED  BY <3>6, <4>1, <5>3 DEF Counts
      <4>. QED  BY <4>1
    <3>10. c.sampler = "draft" /\ k.pc # "finish" => DraftReady(x)
      <4>. SUFFICES ASSUME c.sampler = "draft", k.pc # "finish" PROVE DraftReady(x)
        OBVIOUS
      <4>1. drop = 0
        <5>. SUFFICES ASSUME drop # 0 PROVE FALSE
          OBVIOUS
        <5>1. found = {1}
          BY <1>3, <1>11, <1>14
        <5>2. c.heads = 1
          BY <1>5 DEF Built
        <5>3. 1..1 = {1}
          OBVIOUS
        <5>4. stop
          BY <1>3, <1>15, <5>1, <5>2, <5>3 DEF ShouldStop
        <5>. QED  BY <1>17, <3>2, <5>4
      <4>2. x = r.e
        BY <1>18, <2>2, <4>1
      <4>. QED  BY <1>8, <2>2, <4>2 DEF OnceSaid
    <3>11. Iterated(c, e, j, x, k, more)
      BY <3>1, <3>2, <3>4, <3>7, <3>8, <3>9, <3>10 DEF Iterated
    <3>. QED  BY <1>5, <1>6, <3>11, IteratedGoes
  <2>. QED  BY <2>1, <2>2
<1>20. lastId' = last /\ a = (open' /\ prompted')
  BY <1>2, <1>3, SameValues
<1>. QED  BY <1>2, <1>3, <1>19, <1>20, GivesGoes

\* Every step of the worker adds to the context, and the turn that follows
\* finds what it needs.
LEMMA WorkerGoes ==
    ASSUME ~Careless, Counted, NoMix, IInv, SupplyInv, AddedInv, Worker
    PROVE  WorkGoes
  BY TakeClosureGoes, PrefillJobGoes, PrefillReportGoes, PrefillThenDecodeGoes, DecodeStartGoes,
     DecodeStepGoes, DecodeOverGoes, ScoreStepGoes DEF Worker

(***************************************************************************)
(* The caller keeps what the worker builds on.                              *)
(***************************************************************************)
HeldInv == ClosedInv /\ SupplyInv /\ AddedInv /\ SavedInv

KInv == IInv /\ HeldInv

\* What a session keeps, over values.
Keeps(c, e, last, a, o, j, qu, s) ==
    /\ ~o => j = Idle /\ qu = <<>> /\ s = NoCheckpoints
    /\ Supplied(c, e, last, a, j, qu) /\ Added(c, e, j)
    /\ \A l \in Label : s[l] <= Len(ContextOf(e))

LEMMA TakesHeld ==
    ASSUME HeldInv
    PROVE  \A a : a = (open /\ prompted) => Keeps(conf, exec, lastId, a, open, job, queue, saved)
  BY DEF HeldInv, ClosedInv, SupplyInv, AddedInv, SavedInv, Keeps, Quiet

LEMMA GivesHeld ==
    ASSUME NEW c, NEW e, NEW last, NEW a, NEW o, NEW j, NEW qu, NEW s,
           Keeps(c, e, last, a, o, j, qu, s), conf' = c, exec' = e, lastId' = last,
           a = (open' /\ prompted'), open' = o, job' = j, queue' = qu, saved' = s
    PROVE  HeldInv'
  BY DEF HeldInv, ClosedInv, SupplyInv, AddedInv, SavedInv, Keeps, Quiet

\* No label, no step.
LEMMA NoneSaved ==
    ASSUME NEW e, ContextOf(e) \in Seq(Int)
    PROVE  \A l \in Label : NoCheckpoints[l] = -1 /\ NoCheckpoints[l] <= Len(ContextOf(e))
  BY DEF NoCheckpoints

LEMMA InitHeld == Init => HeldInv
<1>. SUFFICES ASSUME Init PROVE HeldInv
  OBVIOUS
<1>1. /\ conf \in Configs /\ exec = FreshExecutor /\ open = FALSE /\ queue = <<>> /\ job = Idle
      /\ saved = NoCheckpoints /\ prompted = FALSE
  BY DEF Init
<1>2. PICK c, e, last, a : c = conf /\ e = exec /\ last = lastId /\ a = (open /\ prompted)
  OBVIOUS
<1>3. Built(c) /\ ~a
  BY <1>1, <1>2, ConfigsAreBuilt DEF Built
<1>4. SoundExec(c, e)
  BY <1>1, <1>2, <1>3, FreshIs
<1>5. ContextOf(e) \in Seq(Int)
  BY <1>3, <1>4, ContextIsLine
<1>6. Supplied(c, e, last, a, Idle, <<>>)
  BY <1>3, QuietSupplied
<1>7. Added(c, e, Idle)
  BY IdleIs, NothingAdded
<1>8. \A l \in Label : NoCheckpoints[l] <= Len(ContextOf(e))
  BY <1>5, NoneSaved
<1>. QED  BY <1>1, <1>2, <1>6, <1>7, <1>8
       DEF HeldInv, ClosedInv, SupplyInv, AddedInv, SavedInv, Quiet

\* A call that is queued.
LEMMA ScheduledHeld ==
    ASSUME KInv, open, conf' = conf, exec' = exec, job' = job, open' = open,
           UNCHANGED <<lastId, phase, saved>>,
           NEW kind \in {"prefill", "decode", "score"}, NEW ids \in Seq(Int),
           NEW generate \in BOOLEAN, Schedule(Closure(kind, ids, generate)),
           \A t : t.kind = kind /\ Needs(conf, t) => open /\ prompted,
           conf.sampler = "draft" /\ kind = "decode" =>
             (open /\ prompted) \/ (Quiet /\ DraftReady(exec))
    PROVE  HeldInv'
<1>1. PICK c, e, last, a, j, qu, s, t, qu2, b :
         /\ c = conf /\ e = exec /\ last = lastId /\ a = (open /\ prompted) /\ j = job
         /\ qu = queue /\ s = saved /\ t = Closure(kind, ids, generate) /\ qu2 = Append(qu, t)
         /\ b = (open' /\ prompted')
  OBVIOUS
<1>2. a \in BOOLEAN /\ Consistent(c, e, a, j, qu) /\ Built(c)
  BY <1>1, TakesInv DEF KInv
<1>3. SoundExec(c, e) /\ Fine(c, e, a, j, qu)
  BY <1>2 DEF Consistent
<1>4. Keeps(c, e, last, a, open, j, qu, s)
  BY <1>1, TakesHeld DEF KInv
<1>5. t \in TurnSet /\ t.kind = kind
  BY <1>1, ClosureIs
<1>6. Needs(c, t) => a
  BY <1>1, <1>5
<1>7. c.sampler = "draft" /\ t.kind = "decode" =>
        a \/ (j = Idle /\ qu = <<>> /\ DraftReady(e))
  BY <1>1, <1>5 DEF Quiet
<1>8. Supplied(c, e, last, a, j, qu)
  BY <1>4 DEF Keeps
<1>9. Supplied(c, e, last, b, j, qu2)
  BY <1>1, <1>2, <1>3, <1>5, <1>6, <1>7, <1>8, AppendSupplied
<1>10. Keeps(c, e, last, b, open, j, qu2, s)
  BY <1>4, <1>9 DEF Keeps
<1>11. queue' = qu2
  BY <1>1 DEF Schedule
<1>. QED  BY <1>1, <1>10, <1>11, GivesHeld

\* A call on the caller's thread.
LEMMA CalledHeld ==
    ASSUME KInv, open, Quiet, conf' = conf, exec' = exec, queue' = queue, open' = open,
           UNCHANGED <<lastId, phase, saved>>,
           NEW kind \in {"prefill", "decode"}, NEW ids \in Seq(Int), NEW generate \in BOOLEAN,
           job' = [Closure(kind, ids, generate) EXCEPT !.sync = TRUE],
           \A t : t.kind = kind /\ Needs(conf, t) => open /\ prompted,
           conf.sampler = "draft" /\ kind = "decode" => (open /\ prompted) \/ DraftReady(exec)
    PROVE  HeldInv'
<1>1. PICK c, e, last, a, s, k, b :
         /\ c = conf /\ e = exec /\ last = lastId /\ a = (open /\ prompted)
         /\ s = saved /\ k = job' /\ b = (open' /\ prompted')
  OBVIOUS
<1>2. job = Idle /\ queue = <<>>
  BY DEF Quiet
<1>3. a \in BOOLEAN /\ Consistent(c, e, a, Idle, <<>>) /\ Built(c)
  BY <1>1, <1>2, TakesInv DEF KInv
<1>4. SoundExec(c, e) /\ Fine(c, e, a, Idle, <<>>)
  BY <1>3 DEF Consistent
<1>5. Keeps(c, e, last, a, open, Idle, <<>>, s)
  BY <1>1, <1>2, TakesHeld DEF KInv
<1>6. k.kind = kind /\ k.pc = "run" /\ k.told = <<>>
  <2>1. k = [Closure(kind, ids, generate) EXCEPT !.sync = TRUE]
    BY <1>1
  <2>2. Called(k, kind, ids, generate)
    BY <2>1, SyncIs
  <2>3. k.told = <<>>
    BY <2>1 DEF Closure, Idle
  <2>. QED  BY <2>2, <2>3 DEF Called
<1>7. (Needs(c, k) => a) /\ (c.sampler = "draft" /\ k.kind = "decode" => a \/ DraftReady(e))
  BY <1>1, <1>6
<1>8. Supplied(c, e, last, a, Idle, <<>>)
  BY <1>5 DEF Keeps
<1>9. Supplied(c, e, last, b, k, <<>>)
  BY <1>3, <1>4, <1>6, <1>7, <1>8, CallSupplied
<1>10. Added(c, e, k)
  BY <1>6, NothingAdded
<1>11. Keeps(c, e, last, b, open, k, <<>>, s)
  BY <1>5, <1>9, <1>10 DEF Keeps
<1>. QED  BY <1>1, <1>2, <1>11, GivesHeld

LEMMA RunPrefillAsyncHeld ==
    ASSUME KInv, NEW ids \in Prompts, NEW generate \in BOOLEAN, RunPrefillAsync(ids, generate)
    PROVE  HeldInv'
<1>1. /\ MayCall(ids) /\ Schedule(Closure("prefill", ids, generate)) /\ job' = job
  BY DEF RunPrefillAsync
<1>2. /\ open /\ conf' = conf /\ exec' = exec /\ open' = open
      /\ UNCHANGED <<lastId, phase, saved>>
  BY <1>1, MayCallIs
<1>3. ids \in Seq(Int)
  BY InputsAreTokens
<1>4. \A t : t.kind = "prefill" /\ Needs(conf, t) => open /\ prompted
  BY DEF Needs
<1>5. PICK kind : kind = "prefill"
  OBVIOUS
<1>6. /\ kind \in {"prefill", "decode", "score"} /\ kind # "decode"
      /\ Schedule(Closure(kind, ids, generate))
      /\ \A t : t.kind = kind /\ Needs(conf, t) => open /\ prompted
  BY <1>1, <1>4, <1>5
<1>. QED  BY <1>1, <1>2, <1>3, <1>6, ScheduledHeld

LEMMA RunPrefillHeld ==
    ASSUME KInv, NEW ids \in Prompts, NEW generate \in BOOLEAN, RunPrefill(ids, generate)
    PROVE  HeldInv'
<1>1. /\ MayCall(ids) /\ Quiet /\ queue' = queue
      /\ job' = [Closure("prefill", ids, generate) EXCEPT !.sync = TRUE]
  BY DEF RunPrefill
<1>2. /\ open /\ conf' = conf /\ exec' = exec /\ open' = open
      /\ UNCHANGED <<lastId, phase, saved>>
  BY <1>1, MayCallIs
<1>3. ids \in Seq(Int)
  BY InputsAreTokens
<1>4. \A t : t.kind = "prefill" /\ Needs(conf, t) => open /\ prompted
  BY DEF Needs
<1>5. PICK kind : kind = "prefill"
  OBVIOUS
<1>6. /\ kind \in {"prefill", "decode"} /\ kind # "decode"
      /\ job' = [Closure(kind, ids, generate) EXCEPT !.sync = TRUE]
      /\ \A t : t.kind = kind /\ Needs(conf, t) => open /\ prompted
  BY <1>1, <1>4, <1>5
<1>. QED  BY <1>1, <1>2, <1>3, <1>6, CalledHeld

\* A drafter finds a token to go on from, or a prompt has been asked for.
LEMMA CanDecodeDrafts ==
    ASSUME open, CanDecode, conf.sampler = "draft"
    PROVE  (open /\ prompted) \/ (Quiet /\ DraftReady(exec))
  BY DEF CanDecode, DraftReady

LEMMA RunDecodeAsyncHeld ==
    ASSUME KInv, RunDecodeAsync
    PROVE  HeldInv'
<1>1. MayCall(<<>>) /\ CanDecode /\ Schedule(Closure("decode", <<>>, FALSE)) /\ job' = job
  BY DEF RunDecodeAsync
<1>2. /\ open /\ conf' = conf /\ exec' = exec /\ open' = open
      /\ UNCHANGED <<lastId, phase, saved>>
  BY <1>1, MayCallIs
<1>3. PICK kind, ids, generate : kind = "decode" /\ ids = <<>> /\ generate = FALSE
  OBVIOUS
<1>4. ids \in Seq(Int) /\ kind \in {"prefill", "decode", "score"}
  BY <1>3
<1>5. generate \in BOOLEAN
  BY <1>3
<1>6. Schedule(Closure(kind, ids, generate))
  BY <1>1, <1>3
<1>7. \A t : t.kind = kind /\ Needs(conf, t) => open /\ prompted
  BY <1>1, <1>2, <1>3, CanDecodeIs
<1>8. conf.sampler = "draft" /\ kind = "decode" =>
        (open /\ prompted) \/ (Quiet /\ DraftReady(exec))
  BY <1>1, <1>2, CanDecodeDrafts
<1>. QED  BY <1>1, <1>2, <1>4, <1>5, <1>6, <1>7, <1>8, ScheduledHeld

LEMMA RunDecodeHeld ==
    ASSUME KInv, RunDecode
    PROVE  HeldInv'
<1>1. MayCall(<<>>) /\ Quiet /\ CanDecode /\ queue' = queue
  BY DEF RunDecode
<1>2. /\ open /\ conf' = conf /\ exec' = exec /\ open' = open
      /\ UNCHANGED <<lastId, phase, saved>>
  BY <1>1, MayCallIs
<1>3. CASE phase = "prefilled"
  <2>1. job' = [Closure("decode", <<>>, FALSE) EXCEPT !.sync = TRUE]
    BY <1>3 DEF RunDecode
  <2>2. PICK kind, ids, generate : kind = "decode" /\ ids = <<>> /\ generate = FALSE
    OBVIOUS
  <2>3. ids \in Seq(Int) /\ kind \in {"prefill", "decode"}
    BY <2>2
  <2>4. generate \in BOOLEAN
    BY <2>2
  <2>5. job' = [Closure(kind, ids, generate) EXCEPT !.sync = TRUE]
    BY <2>1, <2>2
  <2>6. \A t : t.kind = kind /\ Needs(conf, t) => open /\ prompted
    BY <1>1, <1>2, <2>2, CanDecodeIs
  <2>7. conf.sampler = "draft" /\ kind = "decode" => (open /\ prompted) \/ DraftReady(exec)
    BY <1>1, <1>2, CanDecodeDrafts
  <2>. QED  BY <1>1, <1>2, <2>3, <2>4, <2>5, <2>6, <2>7, CalledHeld
<1>4. CASE phase # "prefilled"
  <2>1. job' = job /\ prompted' = prompted
    BY <1>4 DEF RunDecode
  <2>. QED  BY <1>1, <1>2, <2>1
         DEF KInv, HeldInv, ClosedInv, SupplyInv, AddedInv, SavedInv, Quiet
<1>. QED  BY <1>3, <1>4

LEMMA RunTextScoringAsyncHeld ==
    ASSUME KInv, NEW ids \in Targets, RunTextScoringAsync(ids)
    PROVE  HeldInv'
<1>1. MayCall(ids) /\ prompted /\ Schedule(Closure("score", ids, FALSE)) /\ job' = job
  BY DEF RunTextScoringAsync
<1>2. /\ open /\ conf' = conf /\ exec' = exec /\ open' = open
      /\ UNCHANGED <<lastId, phase, saved>>
  BY <1>1, MayCallIs
<1>3. PICK kind, generate : kind = "score" /\ generate = FALSE
  OBVIOUS
<1>4. ids \in Seq(Int) /\ kind \in {"prefill", "decode", "score"} /\ kind # "decode"
  BY <1>3, InputsAreTokens
<1>5. generate \in BOOLEAN
  BY <1>3
<1>6. Schedule(Closure(kind, ids, generate))
  BY <1>1, <1>3
<1>7. \A t : t.kind = kind /\ Needs(conf, t) => open /\ prompted
  BY <1>1, <1>2
<1>. QED  BY <1>1, <1>2, <1>4, <1>5, <1>6, <1>7, ScheduledHeld

LEMMA CancelProcessHeld ==
    ASSUME KInv, CancelProcess
    PROVE  HeldInv'
<1>1. UNCHANGED <<conf, exec, open, phase, lastId, queue, job, prompted, saved>>
  BY DEF CancelProcess, session
<1>. QED  BY <1>1 DEF KInv, HeldInv, ClosedInv, SupplyInv, AddedInv, SavedInv, Quiet

\* The session is alone with the executor, of which nothing more is asked.
LEMMA QuietHeld ==
    ASSUME Quiet, queue' = queue, job' = job, ~(open' /\ prompted'),
           ~open' => saved' = NoCheckpoints,
           \A l \in Label : saved'[l] <= Len(ContextOf(exec'))
    PROVE  HeldInv'
<1>1. PICK c, e, last, a, o, s :
         /\ c = conf' /\ e = exec' /\ last = lastId' /\ a = (open' /\ prompted') /\ o = open'
         /\ s = saved'
  OBVIOUS
<1>2. job' = Idle /\ queue' = <<>> /\ ~a
  BY <1>1 DEF Quiet
<1>3. Supplied(c, e, last, a, Idle, <<>>)
  BY <1>2, QuietSupplied
<1>4. Added(c, e, Idle)
  BY IdleIs, NothingAdded
<1>5. Keeps(c, e, last, a, o, Idle, <<>>, s)
  BY <1>1, <1>3, <1>4 DEF Keeps
<1>. QED  BY <1>1, <1>2, <1>5, GivesHeld

\* The executor as a session finds it.
LEMMA ContextNow ==
    ASSUME IInv
    PROVE  /\ Built(conf) /\ SoundExec(conf, exec) /\ ContextOf(exec) \in Seq(Int)
           /\ exec.step \in Nat /\ (~Past(exec) => Len(ContextOf(exec)) = exec.step)
<1>1. PICK c, e : c = conf /\ e = exec
  OBVIOUS
<1>2. Built(c) /\ SoundExec(c, e)
  BY <1>1, TakesInv DEF IInv, ExecInv
<1>3. PICK g, q : Sound(c, e, g, q)
  BY <1>2 DEF SoundExec
<1>4. Counts(c, e, g, q)
  BY <1>2, <1>3, SoundCounts
<1>5. ContextOf(e) \in Seq(Int) /\ (e.step <= g + q => Len(ContextOf(e)) = e.step)
  BY <1>2, <1>3, ContextLength
<1>6. e.step \in Nat /\ (~Past(e) => e.step <= g + q)
  BY <1>4 DEF Counts
<1>. QED  BY <1>1, <1>2, <1>5, <1>6

LEMMA CreateHeld ==
    ASSUME KInv, Create
    PROVE  HeldInv'
<1>1. /\ ~open /\ open' = TRUE /\ saved' = NoCheckpoints /\ prompted' = FALSE
      /\ exec' = exec /\ queue' = queue /\ job' = job
  BY DEF Create
<1>2. Quiet
  BY <1>1 DEF KInv, HeldInv, ClosedInv
<1>3. PICK e : e = exec
  OBVIOUS
<1>4. ContextOf(e) \in Seq(Int)
  BY <1>3, ContextNow DEF KInv
<1>5. \A l \in Label : NoCheckpoints[l] <= Len(ContextOf(e))
  BY <1>4, NoneSaved
<1>. QED  BY <1>1, <1>2, <1>3, <1>5, QuietHeld

LEMMA CloseHeld ==
    ASSUME KInv, Close
    PROVE  HeldInv'
<1>1. /\ Quiet /\ open' = FALSE /\ saved' = NoCheckpoints /\ queue' = queue /\ job' = job
  BY DEF Close
<1>2. PICK x : x = exec'
  OBVIOUS
<1>3. ContextOf(x) \in Seq(Int)
  <2>1. IInv'
    BY CloseOK DEF KInv
  <2>2. PICK c : c = conf'
    OBVIOUS
  <2>3. SoundExec(c, x) /\ Built(c)
    <3>1. c = conf
      BY <2>2 DEF Close
    <3>2. SoundExec(c, x)
      BY <1>2, <2>1, <2>2 DEF IInv, ExecInv
    <3>. QED  BY <3>1, <3>2, TakesInv DEF KInv
  <2>. QED  BY <2>3, ContextIsLine
<1>4. \A l \in Label : NoCheckpoints[l] <= Len(ContextOf(x))
  BY <1>3, NoneSaved
<1>. QED  BY <1>1, <1>2, <1>4, QuietHeld

\* A checkpoint is the end of the context.
LEMMA SaveHeld ==
    ASSUME ~Careless, KInv, NEW l \in Label, SaveCheckpoint(l)
    PROVE  HeldInv'
<1>1. /\ open /\ Quiet /\ MayGoOn /\ saved' = [saved EXCEPT ![l] = exec.step]
      /\ UNCHANGED <<conf, exec, open, lastId, queue, job, prompted>>
  BY DEF SaveCheckpoint
<1>2. exec.step <= Len(ContextOf(exec))
  <2>1. ~Past(exec)
    BY <1>1, MayGoOnIs DEF KInv, Waited
  <2>2. Len(ContextOf(exec)) = exec.step /\ exec.step \in Nat
    BY <2>1, ContextNow DEF KInv
  <2>. QED  BY <2>2
<1>3. saved \in [Label -> Nat \cup {-1}]
  BY DEF KInv, IInv, ValuesInv
<1>4. \A k \in Label : saved'[k] <= Len(ContextOf(exec))
  <2>. SUFFICES ASSUME NEW k \in Label PROVE saved'[k] <= Len(ContextOf(exec))
    OBVIOUS
  <2>1. saved'[k] = IF k = l THEN exec.step ELSE saved[k]
    BY <1>1, <1>3
  <2>. QED  BY <1>2, <2>1 DEF KInv, HeldInv, SavedInv
<1>. QED  BY <1>1, <1>4 DEF KInv, HeldInv, ClosedInv, SupplyInv, AddedInv, SavedInv, Quiet

\* What a rewind makes of the context.
LEMMA Rewound ==
    ASSUME KInv, NEW l \in Label, RewindToCheckpoint(l), NEW n, n = saved[l]
    PROVE  /\ n \in Nat /\ ContextOf(exec) \in Seq(Int) /\ n <= Len(ContextOf(exec))
           /\ ContextOf(exec') = Upto(ContextOf(exec), n)
           /\ ContextOf(exec') = SubSeq(ContextOf(exec), 1, n)
           /\ ContextOf(exec') \in Seq(Int) /\ Len(ContextOf(exec')) = n
<1>1. PICK c, e, x, r : c = conf /\ e = exec /\ x = exec' /\ r = ExecutorSetCurrentStep(exec, n)
  OBVIOUS
<1>2. r.ok /\ x = r.e /\ n \in 0..e.step
  BY <1>1 DEF RewindToCheckpoint
<1>3. Built(c) /\ SoundExec(c, e) /\ ContextOf(e) \in Seq(Int) /\ e.step \in Nat
  BY <1>1, ContextNow DEF KInv
<1>4. r = SetCurrentStep(e, n)
  BY <1>1, <1>2 DEF ExecutorSetCurrentStep, Err
<1>5. PICK w : w = [e EXCEPT !.step = n]
  OBVIOUS
<1>6. r = Ok(w)
  BY <1>2, <1>4, <1>5 DEF SetCurrentStep
<1>7. x = w
  BY <1>2, <1>6 DEF Ok
<1>8. PICK g, q : Sound(c, e, g, q)
  BY <1>3 DEF SoundExec
<1>9. ContextOf(x) = Upto(ContextOf(e), n)
  BY <1>2, <1>3, <1>5, <1>7, <1>8, SetStepSays
<1>10. n \in Nat
  BY <1>2, <1>3
<1>11. n <= Len(ContextOf(e))
  BY <1>1 DEF KInv, HeldInv, SavedInv
<1>12. PICK s : s = ContextOf(e)
  OBVIOUS
<1>13. s \in Seq(Int) /\ n <= Len(s) /\ ContextOf(x) = Upto(s, n)
  BY <1>3, <1>9, <1>11, <1>12
<1>14. Upto(s, n) = SubSeq(s, 1, n)
  BY <1>10, <1>13 DEF Upto
<1>15. SubSeq(s, 1, n) \in Seq(Int) /\ Len(SubSeq(s, 1, n)) = n
  BY <1>10, <1>13
<1>. QED  BY <1>1, <1>9, <1>10, <1>12, <1>13, <1>14, <1>15

LEMMA RewindHeld ==
    ASSUME KInv, NEW l \in Label, RewindToCheckpoint(l)
    PROVE  HeldInv'
<1>1. /\ Quiet /\ open /\ open' = open /\ prompted' = FALSE /\ queue' = queue /\ job' = job
      /\ saved' = [k \in Label |-> IF saved[k] > saved[l] THEN -1 ELSE saved[k]]
  BY DEF RewindToCheckpoint
<1>2. PICK n, x : n = saved[l] /\ x = ContextOf(exec')
  OBVIOUS
<1>3. n \in Nat /\ Len(x) = n
  BY <1>2, Rewound
<1>4. saved \in [Label -> Nat \cup {-1}]
  BY DEF KInv, IInv, ValuesInv
<1>5. \A k \in Label : saved'[k] <= n
  <2>. SUFFICES ASSUME NEW k \in Label PROVE saved'[k] <= n
    OBVIOUS
  <2>1. PICK m : m = saved[k] /\ m \in Nat \cup {-1}
    BY <1>4
  <2>2. saved'[k] = IF m > n THEN -1 ELSE m
    BY <1>1, <1>2, <2>1
  <2>. QED  BY <1>3, <2>1, <2>2
<1>6. \A k \in Label : saved'[k] <= Len(ContextOf(exec'))
  BY <1>2, <1>3, <1>5
<1>. QED  BY <1>1, <1>6, QuietHeld

\* What has been saved stays within a context that only grows.
LEMMA LongerLength ==
    ASSUME NEW e, NEW x, ContextOf(e) \in Seq(Int), Longer(e, x)
    PROVE  /\ Len(ContextOf(e)) \in Nat /\ Len(ContextOf(x)) \in Nat
           /\ Len(ContextOf(e)) <= Len(ContextOf(x)) /\ ContextOf(x) \in Seq(Int)
<1>1. PICK s : s = ContextOf(e)
  OBVIOUS
<1>2. PICK t \in Seq(Int) : ContextOf(x) = s \o t
  BY <1>1 DEF Longer
<1>3. s \o t \in Seq(Int) /\ Len(s \o t) = Len(s) + Len(t) /\ Len(s) \in Nat /\ Len(t) \in Nat
  BY <1>1
<1>. QED  BY <1>1, <1>2, <1>3

LEMMA WorkKeeps ==
    ASSUME Worker
    PROVE  open' = open /\ saved' = saved /\ conf' = conf /\ ~Quiet
<1>1. open' = open /\ saved' = saved /\ conf' = conf
  BY DEF Worker, TakeClosure, PrefillJob, PrefillReport, PrefillThenDecode, DecodeStart,
     DecodeStep, DecodeCancelled, DecodeFinish, ScoreStep, session
<1>2. ~Quiet
  BY IdleIs DEF Quiet, Worker, TakeClosure, PrefillJob, PrefillReport, PrefillThenDecode,
     DecodeStart, DecodeStep, DecodeCancelled, DecodeFinish, ScoreStep, At
<1>. QED  BY <1>1, <1>2

LEMMA WorkerHeld ==
    ASSUME ~Careless, Counted, NoMix, KInv, Worker
    PROVE  HeldInv'
<1>1. WorkGoes
  BY WorkerGoes DEF KInv, HeldInv
<1>2. open' = open /\ saved' = saved /\ conf' = conf /\ ~Quiet
  BY WorkKeeps
<1>3. open
  BY <1>2 DEF KInv, HeldInv, ClosedInv
<1>4. SupplyInv' /\ AddedInv' /\ Longer(exec, exec')
  BY <1>1, <1>2 DEF WorkGoes, Goes, SupplyInv, AddedInv
<1>5. SavedInv'
  <2>1. PICK e, x : e = exec /\ x = exec'
    OBVIOUS
  <2>2. ContextOf(e) \in Seq(Int) /\ Longer(e, x)
    BY <1>4, <2>1, ContextNow DEF KInv
  <2>3. PICK h, i : /\ h = Len(ContextOf(e)) /\ i = Len(ContextOf(x))
                    /\ h \in Nat /\ i \in Nat /\ h <= i
    BY <2>2, LongerLength
  <2>4. \A l \in Label : saved[l] \in Nat \cup {-1} /\ saved[l] <= h
    BY <2>1, <2>3 DEF KInv, HeldInv, SavedInv, IInv, ValuesInv
  <2>5. \A l \in Label : saved[l] <= i
    BY <2>3, <2>4
  <2>. QED  BY <1>2, <2>1, <2>3, <2>5 DEF SavedInv
<1>6. ClosedInv'
  BY <1>2, <1>3 DEF ClosedInv
<1>. QED  BY <1>4, <1>5, <1>6 DEF HeldInv

LEMMA KeptStep ==
    ASSUME ~Careless, Counted, NoMix, KInv, [Next]_vars
    PROVE  KInv'
<1>1. IInv'
  BY StepOK DEF KInv
<1>2. CASE UNCHANGED vars
  <2>1. HeldInv'
    BY <1>2 DEF vars, KInv, HeldInv, ClosedInv, SupplyInv, AddedInv, SavedInv, Quiet
  <2>. QED  BY <1>1, <2>1 DEF KInv
<1>3. CASE Worker
  BY <1>1, <1>3, WorkerHeld DEF KInv
<1>4. CASE Caller
  <2>1. HeldInv'
    BY <1>4, CreateHeld, CloseHeld, RunDecodeAsyncHeld, RunDecodeHeld, CancelProcessHeld,
       RunPrefillAsyncHeld, RunPrefillHeld, RunTextScoringAsyncHeld, SaveHeld, RewindHeld
       DEF Caller
  <2>. QED  BY <1>1, <2>1 DEF KInv
<1>. QED  BY <1>2, <1>3, <1>4 DEF Next

\* Every turn is fed with the token it goes on from, what a decode has told is
\* what it has added, and no checkpoint is beyond the context.
THEOREM TurnsAreSupplied ==
    ASSUME ~Careless, Counted, NoMix
    PROVE  Spec => []KInv
<1>1. Init => KInv
  BY InitOK, InitHeld DEF KInv
<1>2. KInv /\ [Next]_vars => KInv'
  BY KeptStep
<1>. QED  BY <1>1, <1>2, PTL DEF Spec

LEMMA OnlyTheDecode ==
    ASSUME ~Careless, Counted, NoMix, KInv, [Next]_vars,
           job.kind = "decode", job.pc # "run", job' = Idle
    PROVE  Told(exec, job, exec')
<1>1. job # Idle /\ ~Quiet
  BY IdleIs DEF Quiet
<1>2. CASE Worker
  <2>1. WorkGoes
    BY <1>2, WorkerGoes DEF KInv, HeldInv
  <2>. QED  BY <2>1 DEF WorkGoes, Goes
<1>3. CASE job' = job
  BY <1>1, <1>3
<1>4. CASE Caller
  BY <1>1, <1>3, <1>4 DEF Caller, Create, Close, RunDecodeAsync, RunDecode, CancelProcess,
     RunPrefillAsync, RunPrefill, RunTextScoringAsync, SaveCheckpoint, RewindToCheckpoint
<1>5. CASE UNCHANGED vars
  BY <1>3, <1>5 DEF vars
<1>. QED  BY <1>2, <1>4, <1>5 DEF Next

\* When a decode ends, cancelled or not, what it has told, and nothing else, has
\* become part of the context (Tasks::Decode, DecodeOneStep, and the prefill
\* that gives the last token back to an executor that does not sample).
THEOREM TurnsAreKept ==
    ASSUME ~Careless, Counted, NoMix
    PROVE  Spec => TurnKept
<1>1. KInv /\ [Next]_vars =>
        [ job.kind = "decode" /\ job.pc # "run" /\ job' = Idle /\ failures' = failures =>
            ContextOf(exec') = SubSeq(ContextOf(exec), 1, job.start) \o job.told ]_vars
  BY OnlyTheDecode DEF Told
<1>. QED  BY <1>1, TurnsAreSupplied, PTL DEF Spec, TurnKept

(***************************************************************************)
(* The session implements its transcript.                                   *)
(***************************************************************************)
Said == IF open THEN ContextOf(exec) ELSE <<>>

Saved == [l \in Label |-> IF saved[l] = -1 THEN {}
                          ELSE {SubSeq(ContextOf(exec), 1, saved[l])}]

LEMMA InitIsTranscript == Init => transcript!Init
  BY DEF Init, transcript!Init, NoCheckpoints

LEMMA GrownIsPrefix ==
    ASSUME NEW s \in Seq(Int), NEW t \in Seq(Int)
    PROVE  transcript!IsPrefix(s, s \o t)
<1>1. PICK u, n : u = s \o t /\ n = Len(s)
  OBVIOUS
<1>2. u \in Seq(Int) /\ n \in Nat /\ n <= Len(u)
  BY <1>1
<1>3. SubSeq(u, 1, n) = SubSeq(s, 1, n)
  BY <1>1, <1>2, PartOfLine
<1>. QED  BY <1>1, <1>2, <1>3 DEF transcript!IsPrefix

\* What a checkpoint stands for does not change when the context grows.
LEMMA SavedStays ==
    ASSUME NEW e, NEW x, ContextOf(e) \in Seq(Int), Longer(e, x),
           NEW n \in Nat \cup {-1}, n <= Len(ContextOf(e)), n # -1
    PROVE  SubSeq(ContextOf(x), 1, n) = SubSeq(ContextOf(e), 1, n)
<1>1. PICK s : s = ContextOf(e)
  OBVIOUS
<1>2. PICK t \in Seq(Int) : ContextOf(x) = s \o t
  BY <1>1 DEF Longer
<1>. QED  BY <1>1, <1>2, PartOfLine

LEMMA WorkerGrows ==
    ASSUME ~Careless, Counted, NoMix, KInv, Worker
    PROVE  transcript!Grow
<1>1. open' = open /\ saved' = saved /\ ~Quiet
  BY WorkKeeps
<1>2. open
  BY <1>1 DEF KInv, HeldInv, ClosedInv
<1>3. PICK e, x : e = exec /\ x = exec'
  OBVIOUS
<1>4. Longer(e, x) /\ ContextOf(e) \in Seq(Int)
  <2>1. WorkGoes
    BY WorkerGoes DEF KInv, HeldInv
  <2>. QED  BY <1>3, <2>1, ContextNow DEF WorkGoes, Goes, KInv
<1>5. transcript!IsPrefix(ContextOf(e), ContextOf(x))
  <2>1. PICK t \in Seq(Int) : ContextOf(x) = ContextOf(e) \o t
    BY <1>4 DEF Longer
  <2>. QED  BY <1>4, <2>1, GrownIsPrefix
<1>6. \A l \in Label : saved[l] # -1 => SubSeq(ContextOf(x), 1, saved[l]) = SubSeq(ContextOf(e), 1, saved[l])
  <2>1. \A l \in Label : saved[l] \in Nat \cup {-1} /\ saved[l] <= Len(ContextOf(e))
    BY <1>3 DEF KInv, HeldInv, SavedInv, IInv, ValuesInv
  <2>. QED  BY <1>4, <2>1, SavedStays
<1>7. Saved' = Saved
  BY <1>1, <1>3, <1>6 DEF Saved
<1>8. transcript!IsPrefix(Said, Said')
  BY <1>1, <1>2, <1>3, <1>5 DEF Said
<1>. QED  BY <1>7, <1>8 DEF transcript!Grow, Said, Saved

LEMMA CreateGrows ==
    ASSUME KInv, Create
    PROVE  transcript!Grow
<1>1. ~open /\ open' = TRUE /\ saved' = NoCheckpoints /\ exec' = exec
  BY DEF Create
<1>2. saved = NoCheckpoints
  BY <1>1 DEF KInv, HeldInv, ClosedInv
<1>3. PICK s : s = ContextOf(exec) /\ s \in Seq(Int)
  BY ContextNow DEF KInv
<1>4. transcript!IsPrefix(<<>>, s)
  <2>1. <<>> \o s = s /\ <<>> \in Seq(Int)
    BY <1>3
  <2>2. transcript!IsPrefix(<<>>, <<>> \o s)
    BY <1>3, <2>1, GrownIsPrefix
  <2>. QED  BY <2>1, <2>2
<1>5. transcript!IsPrefix(Said, Said')
  BY <1>1, <1>3, <1>4 DEF Said
<1>6. Saved' = Saved
  BY <1>1, <1>2 DEF Saved
<1>. QED  BY <1>5, <1>6 DEF transcript!Grow, Said, Saved

LEMMA CloseForgets ==
    ASSUME Close
    PROVE  transcript!Close
<1>1. open' = FALSE /\ saved' = NoCheckpoints
  BY DEF Close
<1>2. Said' = <<>>
  BY <1>1 DEF Said
<1>3. Saved' = [l \in Label |-> {}]
  BY <1>1 DEF Saved, NoCheckpoints
<1>. QED  BY <1>2, <1>3 DEF transcript!Close, Said, Saved

LEMMA SaveSaves ==
    ASSUME ~Careless, KInv, NEW l \in Label, SaveCheckpoint(l)
    PROVE  transcript!Save(l)
<1>1. /\ open /\ MayGoOn /\ saved' = [saved EXCEPT ![l] = exec.step]
      /\ exec' = exec /\ open' = open
  BY DEF SaveCheckpoint
<1>2. PICK s, n : s = ContextOf(exec) /\ n = exec.step
  OBVIOUS
<1>3. s \in Seq(Int) /\ n = Len(s) /\ n \in Nat
  <2>1. ~Past(exec)
    BY <1>1, MayGoOnIs DEF KInv, Waited
  <2>. QED  BY <1>2, <2>1, ContextNow DEF KInv
<1>4. SubSeq(s, 1, n) = s
  BY <1>3
<1>5. saved \in [Label -> Nat \cup {-1}]
  BY DEF KInv, IInv, ValuesInv
<1>6. \A k \in Label : saved'[k] = IF k = l THEN n ELSE saved[k]
  BY <1>1, <1>2, <1>5
<1>7. \A k \in Label : Saved'[k] = IF k = l THEN {s} ELSE Saved[k]
  <2>. SUFFICES ASSUME NEW k \in Label PROVE Saved'[k] = IF k = l THEN {s} ELSE Saved[k]
    OBVIOUS
  <2>1. Saved'[k] = IF saved'[k] = -1 THEN {} ELSE {SubSeq(s, 1, saved'[k])}
    BY <1>1, <1>2 DEF Saved
  <2>2. Saved[k] = IF saved[k] = -1 THEN {} ELSE {SubSeq(s, 1, saved[k])}
    BY <1>2 DEF Saved
  <2>3. n # -1
    BY <1>3
  <2>. QED  BY <1>4, <1>6, <2>1, <2>2, <2>3
<1>8. Saved' = [Saved EXCEPT ![l] = {s}]
  <2>1. Saved' = [k \in Label |-> Saved'[k]]
    BY DEF Saved
  <2>2. Saved = [k \in Label |-> Saved[k]]
    BY DEF Saved
  <2>. QED  BY <1>7, <2>1, <2>2
<1>9. Said' = Said /\ Said = s
  BY <1>1, <1>2 DEF Said
<1>. QED  BY <1>8, <1>9 DEF transcript!Save, Said, Saved

LEMMA RewindRewinds ==
    ASSUME KInv, NEW l \in Label, RewindToCheckpoint(l)
    PROVE  transcript!Rewind(l)
<1>1. /\ open /\ open' = open
      /\ saved' = [k \in Label |-> IF saved[k] > saved[l] THEN -1 ELSE saved[k]]
  BY DEF RewindToCheckpoint
<1>2. PICK n, s, t : n = saved[l] /\ s = ContextOf(exec) /\ t = ContextOf(exec')
  OBVIOUS
<1>3. /\ n \in Nat /\ s \in Seq(Int) /\ n <= Len(s) /\ t = Upto(s, n) /\ t = SubSeq(s, 1, n)
      /\ t \in Seq(Int) /\ Len(t) = n
  BY <1>2, Rewound
<1>4. \A k \in Label : saved[k] \in Nat \cup {-1} /\ saved[k] <= Len(s)
  BY <1>2 DEF KInv, HeldInv, SavedInv, IInv, ValuesInv
<1>5. \A k \in Label : Saved[k] = IF saved[k] = -1 THEN {} ELSE {SubSeq(s, 1, saved[k])}
  BY <1>2 DEF Saved
<1>6. \A k \in Label : Saved'[k] = IF saved'[k] = -1 THEN {} ELSE {SubSeq(t, 1, saved'[k])}
  BY <1>2 DEF Saved
<1>7. \A k \in Label : Saved'[k] = {h \in Saved[k] : Len(h) <= n}
  <2>. SUFFICES ASSUME NEW k \in Label PROVE Saved'[k] = {h \in Saved[k] : Len(h) <= n}
    OBVIOUS
  <2>1. PICK m \in Nat \cup {-1} : m = saved[k] /\ m <= Len(s)
    BY <1>4
  <2>2. saved'[k] = IF m > n THEN -1 ELSE m
    BY <1>1, <1>2, <2>1
  <2>3. CASE m = -1
    <3>1. saved'[k] = -1
      BY <1>3, <2>2, <2>3
    <3>2. Saved'[k] = {} /\ Saved[k] = {}
      BY <1>5, <1>6, <2>1, <2>3, <3>1
    <3>. QED  BY <3>2
  <2>4. CASE m # -1 /\ m > n
    <3>1. saved'[k] = -1
      BY <2>2, <2>4
    <3>2. Saved'[k] = {} /\ Saved[k] = {SubSeq(s, 1, m)}
      BY <1>5, <1>6, <2>1, <2>4, <3>1
    <3>3. Len(SubSeq(s, 1, m)) = m
      BY <1>3, <2>1, <2>4
    <3>4. ~(m <= n)
      BY <1>3, <2>1, <2>4
    <3>. QED  BY <3>2, <3>3, <3>4
  <2>5. CASE m # -1 /\ m <= n
    <3>1. saved'[k] = m
      BY <1>3, <2>1, <2>2, <2>5
    <3>2. Saved'[k] = {SubSeq(t, 1, m)} /\ Saved[k] = {SubSeq(s, 1, m)}
      BY <1>5, <1>6, <2>1, <2>5, <3>1
    <3>3. SubSeq(t, 1, m) = SubSeq(s, 1, m) /\ Len(SubSeq(s, 1, m)) = m
      <4>0. m \in Nat
        BY <2>1, <2>5
      <4>1. Upto(Upto(s, n), m) = Upto(s, m)
        BY <1>3, <2>5, <4>0, UptoTwice
      <4>2. Upto(t, m) = SubSeq(t, 1, m) /\ Upto(s, m) = SubSeq(s, 1, m)
        <5>1. \A u \in Seq(Int) : m <= Len(u) => Upto(u, m) = SubSeq(u, 1, m)
          BY <4>0 DEF Upto
        <5>2. m <= Len(s) /\ m <= Len(t)
          BY <1>3, <2>1, <2>5
        <5>. QED  BY <1>3, <5>1, <5>2
      <4>3. Len(SubSeq(s, 1, m)) = m
        BY <1>3, <2>1, <4>0
      <4>. QED  BY <1>3, <4>1, <4>2, <4>3
    <3>. QED  BY <2>5, <3>2, <3>3
  <2>. QED  BY <1>3, <2>1, <2>3, <2>4, <2>5
<1>8. Saved' = [k \in Label |-> {h \in Saved[k] : Len(h) <= Len(Said')}]
  <2>1. Said' = t /\ Len(t) = n
    BY <1>1, <1>2, <1>3 DEF Said
  <2>2. Saved' = [k \in Label |-> Saved'[k]]
    BY DEF Saved
  <2>. QED  BY <1>7, <2>1, <2>2
<1>9. Saved[l] = {Said'}
  <2>1. n # -1 /\ Said' = t
    BY <1>1, <1>2, <1>3 DEF Said
  <2>. QED  BY <1>2, <1>3, <1>5, <2>1
<1>. QED  BY <1>8, <1>9 DEF transcript!Rewind, Said, Saved

LEMMA TranscriptStep ==
    ASSUME ~Careless, Counted, NoMix, KInv, [Next]_vars
    PROVE  [transcript!Next]_<<Said, Saved>>
<1>1. CASE open' = open /\ exec' = exec /\ saved' = saved
  BY <1>1 DEF Said, Saved
<1>2. CASE UNCHANGED vars
  BY <1>1, <1>2 DEF vars
<1>3. CASE Worker
  BY <1>3, WorkerGrows DEF transcript!Next
<1>4. CASE Create
  BY <1>4, CreateGrows DEF transcript!Next
<1>5. CASE Close
  BY <1>5, CloseForgets DEF transcript!Next
<1>6. ASSUME NEW l \in Label, SaveCheckpoint(l)
      PROVE  transcript!Next
  BY <1>6, SaveSaves DEF transcript!Next
<1>7. ASSUME NEW l \in Label, RewindToCheckpoint(l)
      PROVE  transcript!Next
  BY <1>7, RewindRewinds DEF transcript!Next
<1>8. CASE RunDecodeAsync \/ RunDecode \/ CancelProcess
  BY <1>1, <1>8 DEF RunDecodeAsync, RunDecode, CancelProcess, MayCall, session
<1>9. ASSUME NEW ids, NEW generate,
             RunPrefillAsync(ids, generate) \/ RunPrefill(ids, generate) \/ RunTextScoringAsync(ids)
      PROVE  open' = open /\ exec' = exec /\ saved' = saved
  BY <1>9 DEF RunPrefillAsync, RunPrefill, RunTextScoringAsync, MayCall
<1>10. CASE Caller
  BY <1>1, <1>4, <1>5, <1>6, <1>7, <1>8, <1>9, <1>10 DEF Caller
<1>. QED  BY <1>2, <1>3, <1>10 DEF Next

\* Seen from outside, a session is a transcript that only grows, and
\* checkpoints that bring back exactly what it was: whatever its turns prefill,
\* sample, draft, roll back and give back, and however they fail or are
\* cancelled (SessionBasic, its checkpoints, and the executor under it).
THEOREM TranscriptRefined ==
    ASSUME ~Careless, Counted, NoMix
    PROVE  Spec => ImplementsTranscript
<1>1. Init => transcript!Init
  BY InitIsTranscript
<1>2. KInv /\ [Next]_vars => [transcript!Next]_<<Said, Saved>>
  BY TranscriptStep
<1>. QED  BY <1>1, <1>2, TurnsAreSupplied, PTL
       DEF Spec, ImplementsTranscript, transcript!Spec, transcript!vars, Said, Saved
=============================================================================
