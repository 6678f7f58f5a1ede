--------------------------- MODULE LlmExecutorProofs ---------------------------
EXTENDS LlmExecutor, SequenceTheorems, TLAPS

(***************************************************************************)
(* Rows of the cache.                                                       *)
(***************************************************************************)
Mark == Int \cup {Unwritten, Lost}

\* A row holds the tokens: at each position the token, or that its run failed.
Held(ids, row) ==
    \A p \in 1..Len(ids) : p <= Len(row) /\ row[p] \in {ids[p], Lost}

(***************************************************************************)
(* The executor between two operations.                                     *)
(***************************************************************************)
TokSet == [ids : Seq(Int), pending : Seq(Int)]

ExecSet == [tokens : Seq(TokSet), step : Nat, ranDecode : BOOLEAN,
            kv : Seq(Seq(Mark)), room : Nat, ahead : BOOLEAN]

\* n candidates of g processed tokens, which their rows hold, and q pending ones.
Holding(ts, kv, n, g, q) ==
    /\ ts \in Seq(TokSet) /\ kv \in Seq(Seq(Mark)) /\ Len(ts) = n /\ Len(kv) = n
    /\ \A i \in 1..n : /\ Len(ts[i].ids) = g /\ Len(ts[i].pending) = q
                       /\ Held(ts[i].ids, kv[i])

\* How many candidates an executor built as c has.
Width(c, e) == IF e.ranDecode THEN c.heads ELSE 1

\* What an executor built as c is between two operations.
Sound(c, e, g, q) ==
    /\ e \in ExecSet /\ g \in Nat /\ q \in 0..1
    /\ Holding(e.tokens, e.kv, Width(c, e), g, q)
    /\ e.step <= g + q + 1 /\ (e.step = g + q + 1 => q = 0)
    /\ e.ahead => /\ c.sampler = "ahead" /\ e.ranDecode /\ q = 1
                  /\ \A i \in 1..Len(e.tokens) :
                        Held(e.tokens[i].ids \o e.tokens[i].pending, e.kv[i])
    /\ c.dynamic => \A i \in 1..Len(e.kv) : Len(e.kv[i]) <= e.room
    /\ c.sampler = "npu" => e.step = g + q /\ ~e.ranDecode

\* A prefill leaves the executor ready; a decode of which no token has become
\* pending leaves the step past the tokens.
Ready(e) == e.step = TokenCount(e.tokens) /\ HasPending(e.tokens) /\ ~e.ahead
Past(e) == e.step = TokenCount(e.tokens) + 1

LEMMA WriteIs ==
    ASSUME NEW row \in Seq(Mark), NEW pos \in Nat, NEW toks \in Seq(Mark)
    PROVE  /\ WriteKv(row, pos, toks) \in Seq(Mark)
           /\ Len(WriteKv(row, pos, toks)) =
                IF Len(toks) = 0 \/ pos + Len(toks) < Len(row) THEN Len(row) ELSE pos + Len(toks)
           /\ \A p \in 1..Len(row) : p <= pos => WriteKv(row, pos, toks)[p] = row[p]
           /\ \A j \in 1..Len(toks) : WriteKv(row, pos, toks)[pos + j] = toks[j]
<1>1. PICK w : w = WriteKv(row, pos, toks)
  OBVIOUS
<1>2. PICK m : m = IF Len(toks) = 0 \/ pos + Len(toks) < Len(row) THEN Len(row) ELSE pos + Len(toks)
  OBVIOUS
<1>3. m \in Nat /\ Len(row) <= m /\ (Len(toks) > 0 => pos + Len(toks) <= m)
      /\ Len(toks) \in Nat /\ Len(row) \in Nat
  BY <1>2
<1>4. w = [i \in 1..m |-> IF i > pos /\ i <= pos + Len(toks) THEN toks[i - pos]
                          ELSE IF i <= Len(row) THEN row[i] ELSE Unwritten]
  BY <1>1, <1>2 DEF WriteKv
<1>5. ASSUME NEW i \in 1..m
      PROVE  (IF i > pos /\ i <= pos + Len(toks) THEN toks[i - pos]
              ELSE IF i <= Len(row) THEN row[i] ELSE Unwritten) \in Mark
  <2>1. CASE i > pos /\ i <= pos + Len(toks)
    <3>1. i - pos \in 1..Len(toks)
      BY <1>3, <2>1
    <3>. QED  BY <2>1, <3>1
  <2>2. CASE ~(i > pos /\ i <= pos + Len(toks)) /\ i <= Len(row)
    BY <2>2
  <2>3. CASE ~(i > pos /\ i <= pos + Len(toks)) /\ ~(i <= Len(row))
    BY <2>3 DEF Mark
  <2>. QED  BY <2>1, <2>2, <2>3
<1>6. w \in Seq(Mark) /\ Len(w) = m
  BY <1>3, <1>4, <1>5
<1>7. \A p \in 1..Len(row) : p <= pos => w[p] = row[p]
  BY <1>3, <1>4
<1>8. \A j \in 1..Len(toks) : w[pos + j] = toks[j]
  BY <1>3, <1>4
<1>. QED  BY <1>1, <1>2, <1>6, <1>7, <1>8

LEMMA WriteLength ==
    ASSUME NEW row \in Seq(Mark), NEW pos \in Nat, NEW toks \in Seq(Mark),
           NEW w, w = WriteKv(row, pos, toks)
    PROVE  /\ w \in Seq(Mark) /\ Len(w) \in Nat /\ Len(w) >= Len(row)
           /\ Len(w) = Len(row) \/ Len(w) = pos + Len(toks)
<1>1. /\ w \in Seq(Mark)
      /\ Len(w) = IF Len(toks) = 0 \/ pos + Len(toks) < Len(row) THEN Len(row) ELSE pos + Len(toks)
  BY WriteIs
<1>2. Len(toks) \in Nat /\ Len(row) \in Nat
  OBVIOUS
<1>. QED  BY <1>1, <1>2

LEMMA MarkedIs ==
    ASSUME NEW toks \in Seq(Int)
    PROVE  Marked(toks, Lost) \in Seq(Mark) /\ Len(Marked(toks, Lost)) = Len(toks)
           /\ \A j \in 1..Len(toks) : Marked(toks, Lost)[j] = Lost
  BY DEF Marked, Mark

LEMMA TokensAreMarks == \A toks \in Seq(Int) : toks \in Seq(Mark)
  BY DEF Mark

\* What is written behind the tokens a row holds leaves them there.
LEMMA HeldStays ==
    ASSUME NEW ids \in Seq(Int), NEW row \in Seq(Mark), Held(ids, row),
           NEW pos \in Nat, pos >= Len(ids), NEW toks \in Seq(Mark)
    PROVE  Held(ids, WriteKv(row, pos, toks))
<1>1. PICK w : w = WriteKv(row, pos, toks)
  OBVIOUS
<1>2. /\ Len(w) >= Len(row) /\ Len(w) \in Nat /\ Len(row) \in Nat /\ Len(ids) \in Nat
      /\ \A p \in 1..Len(row) : p <= pos => w[p] = row[p]
  BY <1>1, WriteIs
<1>3. ASSUME NEW p \in 1..Len(ids)  PROVE p <= Len(w) /\ w[p] \in {ids[p], Lost}
  <2>1. p <= Len(row)
    BY DEF Held
  <2>2. row[p] \in {ids[p], Lost}
    BY DEF Held
  <2>3. w[p] = row[p]
    BY <1>2, <2>1
  <2>. QED  BY <1>2, <2>1, <2>2, <2>3
<1>. QED  BY <1>1, <1>3 DEF Held

\* Tokens that are run behind those a row holds are held too.
LEMMA HeldMore ==
    ASSUME NEW ids \in Seq(Int), NEW row \in Seq(Mark), Held(ids, row),
           NEW new \in Seq(Int), NEW toks \in Seq(Mark), Len(toks) >= Len(new),
           \A j \in 1..Len(new) : toks[j] \in {new[j], Lost}
    PROVE  Held(ids \o new, WriteKv(row, Len(ids), toks))
<1>1. PICK w, n : w = WriteKv(row, Len(ids), toks) /\ n = Len(ids)
  OBVIOUS
<1>2. /\ n \in Nat /\ Len(new) \in Nat /\ Len(toks) \in Nat /\ Len(row) \in Nat
      /\ w = WriteKv(row, n, toks)
  BY <1>1
<1>3. /\ Len(w) = IF Len(toks) = 0 \/ n + Len(toks) < Len(row) THEN Len(row) ELSE n + Len(toks)
      /\ \A p \in 1..Len(row) : p <= n => w[p] = row[p]
      /\ \A j \in 1..Len(toks) : w[n + j] = toks[j]
  BY <1>2, WriteIs
<1>4. Len(w) >= Len(row) /\ (Len(new) > 0 => Len(w) >= n + Len(new)) /\ Len(w) \in Nat
  BY <1>2, <1>3
<1>5. ASSUME NEW p \in 1..(n + Len(new))  PROVE p <= Len(w) /\ w[p] \in {(ids \o new)[p], Lost}
  <2>1. CASE p <= n
    <3>1. p \in 1..Len(ids)
      BY <1>1, <1>2, <2>1
    <3>2. p <= Len(row)
      BY <3>1 DEF Held
    <3>3. row[p] \in {ids[p], Lost}
      BY <3>1 DEF Held
    <3>4. w[p] = row[p]
      BY <1>2, <1>3, <2>1, <3>2
    <3>5. (ids \o new)[p] = ids[p]
      BY <3>1
    <3>6. p <= Len(w)
      BY <1>2, <1>4, <3>2
    <3>. QED  BY <3>3, <3>4, <3>5, <3>6
  <2>2. CASE p > n
    <3>1. PICK j \in 1..Len(new) : p = n + j
      <4>1. p - n \in 1..Len(new) /\ p = n + (p - n)
        BY <1>2, <2>2
      <4>. QED  BY <4>1
    <3>2. (ids \o new)[p] = new[j]
      BY <1>1, <1>2, <2>2, <3>1
    <3>3. w[p] = toks[j]
      BY SMTT(30), <1>2, <1>3, <3>1
    <3>4. toks[j] \in {new[j], Lost}
      BY <3>1
    <3>5. p <= Len(w)
      BY <1>2, <1>4, <3>1
    <3>. QED  BY <3>2, <3>3, <3>4, <3>5
  <2>3. p <= n \/ p > n
    BY <1>2
  <2>. QED  BY <2>1, <2>2, <2>3, Zenon
<1>6. Len(ids \o new) = n + Len(new)
  BY <1>1
<1>. QED  BY <1>1, <1>5, <1>6 DEF Held

LEMMA HeldPart ==
    ASSUME NEW ids \in Seq(Int), NEW row \in Seq(Mark), Held(ids, row), NEW n \in 0..Len(ids)
    PROVE  Held(SubSeq(ids, 1, n), row)
<1>1. Len(SubSeq(ids, 1, n)) = n /\ \A p \in 1..n : SubSeq(ids, 1, n)[p] = ids[p]
  OBVIOUS
<1>. QED  BY <1>1 DEF Held

(***************************************************************************)
(* The candidates.                                                          *)
(***************************************************************************)
Candidates(ts, kv, n, g, q) ==
    /\ DOMAIN ts = 1..n /\ DOMAIN kv = 1..n /\ 1 \in 1..n
    /\ ts \in Seq(TokSet) /\ kv \in Seq(Seq(Mark)) /\ Len(ts) = n /\ Len(kv) = n
    /\ \A i \in 1..n : /\ ts[i].ids \in Seq(Int) /\ Len(ts[i].ids) = g
                       /\ ts[i].pending \in Seq(Int) /\ Len(ts[i].pending) = q
                       /\ kv[i] \in Seq(Mark) /\ Held(ts[i].ids, kv[i])
                       /\ ts[i] = [ids |-> ts[i].ids, pending |-> ts[i].pending]
    /\ GetStep(ts) = g /\ TokenCount(ts) = g + q /\ (HasPending(ts) <=> q = 1)
    /\ n \in Nat /\ n > 0 /\ g \in Nat /\ (q = 0 \/ q = 1)

LEMMA HoldingFacts ==
    ASSUME NEW ts, NEW kv, NEW n \in Nat \ {0}, NEW g \in Nat, NEW q \in 0..1,
           Holding(ts, kv, n, g, q)
    PROVE  Candidates(ts, kv, n, g, q)
<1>1. /\ ts \in Seq(TokSet) /\ kv \in Seq(Seq(Mark)) /\ Len(ts) = n /\ Len(kv) = n
      /\ \A i \in 1..n : /\ Len(ts[i].ids) = g /\ Len(ts[i].pending) = q
                         /\ Held(ts[i].ids, kv[i])
  BY DEF Holding
<1>2. /\ DOMAIN ts = 1..n /\ DOMAIN kv = 1..n /\ 1 \in 1..n
      /\ \A i \in 1..n : ts[i] \in TokSet /\ kv[i] \in Seq(Mark)
  BY <1>1
<1>3. \A i \in 1..n : ts[i].ids \in Seq(Int) /\ ts[i].pending \in Seq(Int)
                       /\ ts[i] = [ids |-> ts[i].ids, pending |-> ts[i].pending]
  BY <1>2 DEF TokSet
<1>4. ts[1].pending = <<>> <=> q = 0
  BY <1>1, <1>2, <1>3
<1>5. GetStep(ts) = g /\ TokenCount(ts) = g + q
  BY <1>1, <1>2 DEF GetStep, TokenCount
<1>6. HasPending(ts) <=> q = 1
  BY <1>4 DEF HasPending
<1>7. n \in Nat /\ n > 0 /\ g \in Nat /\ (q = 0 \/ q = 1)
  OBVIOUS
<1>. QED  BY <1>1, <1>2, <1>3, <1>5, <1>6, <1>7 DEF Candidates

LEMMA PendingExcept ==
    ASSUME NEW r, NEW x, r = [ids |-> r.ids, pending |-> r.pending]
    PROVE  [r EXCEPT !.pending = x] = [ids |-> r.ids, pending |-> x]
  OBVIOUS

LEMMA IdsExcept ==
    ASSUME NEW r, NEW x, r = [ids |-> r.ids, pending |-> r.pending]
    PROVE  [r EXCEPT !.ids = x] = [ids |-> x, pending |-> r.pending]
  OBVIOUS

LEMMA IsCandidate ==
    ASSUME NEW a \in Seq(Int), NEW b \in Seq(Int)
    PROVE  [ids |-> a, pending |-> b] \in TokSet
  BY DEF TokSet

LEMMA IsSequence ==
    ASSUME NEW S, NEW n \in Nat, NEW u, u = [i \in 1..n |-> u[i]], \A i \in 1..n : u[i] \in S
    PROVE  u \in Seq(S) /\ Len(u) = n
  OBVIOUS

LEMMA Appended ==
    ASSUME NEW a \in Seq(Int), NEW b \in Seq(Int)
    PROVE  /\ a \o b \in Seq(Int) /\ Len(a \o b) = Len(a) + Len(b)
           /\ \A p \in 1..Len(a) : (a \o b)[p] = a[p]
           /\ \A p \in 1..(Len(a) + Len(b)) : (a \o b)[p] \in Int
  OBVIOUS

PendingAdded(ts, kv, u, n, g, toks) ==
    /\ Holding(u, kv, n, g, 1)
    /\ \A i \in 1..n : u[i].ids = ts[i].ids /\ u[i].pending = <<toks[i]>>

LEMMA AddPendingIs ==
    ASSUME NEW ts, NEW kv, NEW n \in Nat \ {0}, NEW g \in Nat, NEW q \in 0..1,
           Holding(ts, kv, n, g, q), NEW toks \in Seq(Int), Len(toks) >= n,
           NEW u, u = AddPending(ts, toks)
    PROVE  PendingAdded(ts, kv, u, n, g, toks)
<1>0. Candidates(ts, kv, n, g, q)
  BY HoldingFacts
<1>2. u = [i \in 1..n |-> [ids |-> ts[i].ids, pending |-> <<toks[i]>>]]
  <2>1. ASSUME NEW i \in 1..n
        PROVE  [ts[i] EXCEPT !.pending = <<toks[i]>>] = [ids |-> ts[i].ids, pending |-> <<toks[i]>>]
    <3>1. ts[i] = [ids |-> ts[i].ids, pending |-> ts[i].pending]
      BY <1>0 DEF Candidates
    <3>. QED  BY <3>1, PendingExcept
  <2>2. u = [i \in 1..n |-> [ts[i] EXCEPT !.pending = <<toks[i]>>]]
    BY <1>0 DEF Candidates, AddPending
  <2>. QED  BY <2>1, <2>2, Zenon
<1>3. ASSUME NEW i \in 1..n  PROVE ts[i].ids \in Seq(Int) /\ <<toks[i]>> \in Seq(Int)
  <2>1. toks[i] \in Int
    OBVIOUS
  <2>2. ts[i].ids \in Seq(Int)
    BY <1>0 DEF Candidates
  <2>. QED  BY <2>1, <2>2
<1>4. u \in Seq(TokSet) /\ Len(u) = n
  <2>1. <<>> \in Seq(Int) /\ n \in Nat
    OBVIOUS
  <2>2. ASSUME NEW i \in 1..n  PROVE u[i] \in TokSet
    BY <1>2, <1>3, <2>1, IsCandidate
  <2>3. PICK v : v = u
    OBVIOUS
  <2>4. v = [i \in 1..n |-> v[i]] /\ \A i \in 1..n : v[i] \in TokSet
    BY <1>2, <2>2, <2>3
  <2>5. v \in Seq(TokSet) /\ Len(v) = n
    BY <2>1, <2>4, IsSequence
  <2>. QED  BY <2>3, <2>5
<1>5. \A i \in 1..n : u[i].ids = ts[i].ids /\ u[i].pending = <<toks[i]>> /\ Len(u[i].pending) = 1
  BY <1>2
<1>. QED  BY <1>4, <1>5 DEF Holding, PendingAdded

LEMMA MarkPendingIs ==
    ASSUME NEW ts, NEW kv, NEW n \in Nat \ {0}, NEW g \in Nat, NEW q \in 0..1,
           Holding(ts, kv, n, g, q), NEW rows \in Seq(Seq(Mark)), Len(rows) = n,
           \A i \in 1..n : Held(ts[i].ids \o ts[i].pending, rows[i])
    PROVE  /\ Holding(MarkPendingAsProcessed(ts), rows, n, g + q, 0)
           /\ \A i \in 1..n : /\ MarkPendingAsProcessed(ts)[i].ids = ts[i].ids \o ts[i].pending
                              /\ MarkPendingAsProcessed(ts)[i].pending = <<>>
<1>0. Candidates(ts, kv, n, g, q)
  BY HoldingFacts
<1>1. PICK u : u = MarkPendingAsProcessed(ts)
  OBVIOUS
<1>2. u = [i \in 1..n |-> [ids |-> ts[i].ids \o ts[i].pending, pending |-> <<>>]]
  BY <1>1, <1>0 DEF Candidates, MarkPendingAsProcessed
<1>3. ASSUME NEW i \in 1..n
      PROVE  /\ ts[i].ids \o ts[i].pending \in Seq(Int)
             /\ Len(ts[i].ids \o ts[i].pending) = g + q
  <2>1. /\ ts[i].ids \in Seq(Int) /\ ts[i].pending \in Seq(Int)
        /\ Len(ts[i].ids) = g /\ Len(ts[i].pending) = q
    BY <1>0 DEF Candidates
  <2>. QED  BY <2>1, Appended
<1>4. u \in Seq(TokSet) /\ Len(u) = n
  <2>1. <<>> \in Seq(Int) /\ n \in Nat
    OBVIOUS
  <2>2. ASSUME NEW i \in 1..n  PROVE u[i] \in TokSet
    BY <1>2, <1>3, <2>1, IsCandidate
  <2>3. u = [i \in 1..n |-> u[i]]
    BY <1>2
  <2>. QED  BY <2>1, <2>2, <2>3, IsSequence
<1>5. \A i \in 1..n : u[i].ids = ts[i].ids \o ts[i].pending /\ u[i].pending = <<>>
                      /\ Len(u[i].pending) = 0
  BY <1>2
<1>. QED  BY <1>1, <1>3, <1>4, <1>5 DEF Holding

LEMMA AddProcessedIs ==
    ASSUME NEW ts, NEW kv, NEW n \in Nat \ {0}, NEW g \in Nat, NEW q \in 0..1,
           Holding(ts, kv, n, g, q), NEW new \in Seq(Int),
           NEW rows \in Seq(Seq(Mark)), Len(rows) = n,
           \A i \in 1..n : Held(ts[i].ids \o new, rows[i])
    PROVE  Holding(AddProcessedTokens(ts, new), rows, n, g + Len(new), q)
<1>0. Candidates(ts, kv, n, g, q)
  BY HoldingFacts
<1>1. PICK u : u = AddProcessedTokens(ts, new)
  OBVIOUS
<1>2. u = [i \in 1..n |-> [ids |-> ts[i].ids \o new, pending |-> ts[i].pending]]
  <2>1. ASSUME NEW i \in 1..n
        PROVE  [ts[i] EXCEPT !.ids = @ \o new] = [ids |-> ts[i].ids \o new, pending |-> ts[i].pending]
    <3>1. ts[i] = [ids |-> ts[i].ids, pending |-> ts[i].pending]
      BY <1>0 DEF Candidates
    <3>. QED  BY <3>1, IdsExcept
  <2>2. u = [i \in 1..n |-> [ts[i] EXCEPT !.ids = @ \o new]]
    BY <1>0, <1>1 DEF Candidates, AddProcessedTokens
  <2>. QED  BY <2>1, <2>2, Zenon
<1>3. ASSUME NEW i \in 1..n
      PROVE  /\ ts[i].ids \o new \in Seq(Int) /\ Len(ts[i].ids \o new) = g + Len(new)
             /\ ts[i].pending \in Seq(Int) /\ Len(ts[i].pending) = q
  <2>1. /\ ts[i].ids \in Seq(Int) /\ Len(ts[i].ids) = g
        /\ ts[i].pending \in Seq(Int) /\ Len(ts[i].pending) = q
    BY <1>0 DEF Candidates
  <2>. QED  BY <2>1, Appended
<1>4. u \in Seq(TokSet) /\ Len(u) = n
  <2>1. <<>> \in Seq(Int) /\ n \in Nat
    OBVIOUS
  <2>2. ASSUME NEW i \in 1..n  PROVE u[i] \in TokSet
    BY <1>2, <1>3, <2>1, IsCandidate
  <2>3. u = [i \in 1..n |-> u[i]]
    BY <1>2
  <2>. QED  BY <2>1, <2>2, <2>3, IsSequence
<1>5. \A i \in 1..n : u[i].ids = ts[i].ids \o new /\ u[i].pending = ts[i].pending
  BY <1>2
<1>. QED  BY <1>1, <1>3, <1>4, <1>5 DEF Holding

LEMMA RollBackToStepIs ==
    ASSUME NEW ts, NEW kv, NEW n \in Nat \ {0}, NEW g \in Nat, NEW q \in 0..1,
           Holding(ts, kv, n, g, q), NEW m \in Nat, m <= g
    PROVE  /\ Holding(RollBackToStep(ts, m), kv, n, m, 0)
           /\ RollBackToStep(ts, m)[1].ids = SubSeq(ts[1].ids, 1, m)
<1>0. Candidates(ts, kv, n, g, q)
  BY HoldingFacts
<1>1. PICK u : u = RollBackToStep(ts, m)
  OBVIOUS
<1>2. TokenCount(ts) = g + q
  BY <1>0 DEF Candidates
<1>3. \A i \in 1..n : /\ ts[i].ids \in Seq(Int) /\ Len(ts[i].ids) = g
                      /\ Len(ts[i].pending) = q /\ Held(ts[i].ids, kv[i])
                      /\ kv[i] \in Seq(Mark)
  BY <1>0 DEF Candidates
<1>4. CASE m = g + q
  <2>1. u = ts /\ m = g /\ q = 0
    BY <1>1, <1>2, <1>4 DEF RollBackToStep
  <2>2. \A i \in 1..n : SubSeq(ts[i].ids, 1, m) = ts[i].ids
    BY <1>3, <2>1
  <2>3. 1 \in 1..n
    OBVIOUS
  <2>4. u[1].ids = SubSeq(ts[1].ids, 1, m)
    BY <2>1, <2>2, <2>3
  <2>5. Holding(u, kv, n, m, 0)
    BY <2>1
  <2>. QED  BY <1>1, <2>4, <2>5
<1>5. CASE m # g + q
  <2>1. u = [i \in 1..n |-> [ids |-> SubSeq(ts[i].ids, 1, m), pending |-> <<>>]]
    BY <1>1, <1>2, <1>5, <1>0 DEF Candidates, RollBackToStep
  <2>2. \A i \in 1..n : SubSeq(ts[i].ids, 1, m) \in Seq(Int) /\ Len(SubSeq(ts[i].ids, 1, m)) = m
    BY <1>3
  <2>3. \A i \in 1..n : Held(SubSeq(ts[i].ids, 1, m), kv[i])
    BY <1>3, HeldPart
  <2>4. u \in Seq(TokSet) /\ Len(u) = n
    BY <2>1, <2>2 DEF TokSet
  <2>5. \A i \in 1..n : u[i].ids = SubSeq(ts[i].ids, 1, m) /\ Len(u[i].pending) = 0
    BY <2>1
  <2>6. kv \in Seq(Seq(Mark)) /\ Len(kv) = n
    BY DEF Holding
  <2>7. Holding(u, kv, n, m, 0)
    BY <2>2, <2>3, <2>4, <2>5, <2>6 DEF Holding
  <2>8. 1 \in 1..n
    OBVIOUS
  <2>. QED  BY <1>1, <2>5, <2>7, <2>8
<1>. QED  BY <1>4, <1>5

LEMMA TokenAtStepIs ==
    ASSUME NEW ts, NEW kv, NEW n \in Nat \ {0}, NEW g \in Nat, NEW q \in 0..1,
           Holding(ts, kv, n, g, q), NEW m \in Nat, m < g
    PROVE  /\ TokenAtStep(ts, m) \in Seq(Int) /\ Len(TokenAtStep(ts, m)) = n
           /\ TokenAtStep(ts, m)[1] = ts[1].ids[m + 1]
<1>0. Candidates(ts, kv, n, g, q)
  BY HoldingFacts
<1>1. PICK u : u = TokenAtStep(ts, m)
  OBVIOUS
<1>2. TokenCount(ts) = g + q
  BY <1>0 DEF Candidates
<1>3. u = [i \in 1..n |-> (ts[i].ids \o ts[i].pending)[m + 1]]
  <2>1. DOMAIN ts = 1..n /\ ~(m < 0 \/ m >= g + q)
    BY <1>0 DEF Candidates
  <2>. QED  BY <1>1, <1>2, <2>1 DEF TokenAtStep
<1>4. ASSUME NEW i \in 1..n
      PROVE  /\ (ts[i].ids \o ts[i].pending)[m + 1] \in Int
             /\ m < g => (ts[i].ids \o ts[i].pending)[m + 1] = ts[i].ids[m + 1]
  <2>1. /\ ts[i].ids \in Seq(Int) /\ ts[i].pending \in Seq(Int)
        /\ Len(ts[i].ids) = g /\ Len(ts[i].pending) = q
    BY <1>0 DEF Candidates
  <2>2. m + 1 \in 1..(Len(ts[i].ids) + Len(ts[i].pending))
        /\ (m < g => m + 1 \in 1..Len(ts[i].ids))
    BY <2>1
  <2>. QED  BY <2>1, <2>2, Appended
<1>5. \A i \in 1..n : u[i] \in Int /\ (m < g => u[i] = ts[i].ids[m + 1])
  BY <1>3, <1>4
<1>6. u \in Seq(Int) /\ Len(u) = n
  <2>1. u = [i \in 1..n |-> u[i]] /\ n \in Nat /\ \A i \in 1..n : u[i] \in Int
    BY <1>3, <1>5
  <2>. QED  BY <2>1, IsSequence
<1>7. 1 \in 1..n
  OBVIOUS
<1>. QED  BY <1>1, <1>5, <1>6, <1>7

(***************************************************************************)
(* The operations of the executor.                                          *)
(***************************************************************************)
Built(c) ==
    /\ c.sampler \in {"internal", "external", "ahead", "draft", "npu"}
    /\ c.heads \in Nat \ {0} /\ c.dynamic \in BOOLEAN /\ c.draft \in Nat
    /\ c.suffix \in Seq(Int) /\ c.increment \in Nat \ {0} /\ c.chunk \in Nat
    /\ c.sampler \in {"draft", "npu"} \/ c.dynamic => c.heads = 1
    /\ c.dynamic => c.sampler \in {"internal", "external"}

LEMMA SoundFacts ==
    ASSUME NEW c, Built(c), NEW e, NEW g, NEW q, Sound(c, e, g, q)
    PROVE  /\ Width(c, e) \in Nat \ {0} /\ g \in Nat /\ q \in 0..1
           /\ Candidates(e.tokens, e.kv, Width(c, e), g, q)
           /\ e \in ExecSet
           /\ e.tokens \in Seq(TokSet) /\ e.kv \in Seq(Seq(Mark))
           /\ e.step \in Nat /\ e.room \in Nat /\ e.ranDecode \in BOOLEAN /\ e.ahead \in BOOLEAN
<1>1. e \in ExecSet /\ g \in Nat /\ q \in 0..1 /\ Holding(e.tokens, e.kv, Width(c, e), g, q)
  BY DEF Sound
<1>2. Width(c, e) \in Nat \ {0}
  BY <1>1 DEF Width, Built
<1>3. Candidates(e.tokens, e.kv, Width(c, e), g, q)
  BY <1>1, <1>2, HoldingFacts
<1>. QED  BY <1>1, <1>2, <1>3 DEF ExecSet

\* What cutting the tokens to the step leaves.
RolledBack(c, e, r, g, q, h, p) ==
    /\ r.ok /\ h \in Nat /\ p \in 0..1 /\ Sound(c, r.e, h, p)
    /\ r.e.step = e.step /\ r.e.ranDecode = e.ranDecode /\ r.e.room = e.room
    /\ r.e.kv = e.kv
    /\ e.step <= g + q => e.step = h + p
    /\ e.step >= g + q => h = g /\ p = q /\ r.e.tokens = e.tokens
    /\ e.step = g + q => r.e = e
    /\ e.step # g + q => ~r.e.ahead
    /\ r.ok \in BOOLEAN

LEMMA RollBackIs ==
    ASSUME NEW c, Built(c), NEW e, NEW g, NEW q, Sound(c, e, g, q),
           Width(c, e) = 1 \/ e.step >= g + q
    PROVE  \E h, p : RolledBack(c, e, RollBackProcessedTokens(e), g, q, h, p)
<1>1. PICK r, ts, n, s, kv : r = RollBackProcessedTokens(e)
                             /\ ts = e.tokens /\ n = Width(c, e) /\ s = e.step /\ kv = e.kv
  OBVIOUS
<1>2. PICK at, cut : at = TokenAtStep(ts, s - 1) /\ cut = RollBackToStep(ts, s - 1)
  OBVIOUS
<1>3. n \in Nat \ {0} /\ g \in Nat /\ q \in 0..1 /\ s \in Nat
  BY <1>1, SoundFacts
<1>4. e \in ExecSet
  BY DEF Sound
<1>5. e.room \in Nat /\ e.ranDecode \in BOOLEAN /\ e.ahead \in BOOLEAN /\ kv \in Seq(Seq(Mark))
  BY <1>1, SoundFacts
<1>6. Candidates(ts, kv, n, g, q)
  BY <1>1, SoundFacts
<1>7. Holding(ts, kv, n, g, q)
  BY <1>1 DEF Sound
<1>8. TokenCount(ts) = g + q /\ ts \in Seq(TokSet)
  BY <1>6 DEF Candidates
<1>9. s <= g + q + 1 /\ (s = g + q + 1 => q = 0) /\ (e.ahead => q = 1)
  BY <1>1 DEF Sound
<1>10. PICK m \in Nat : m = g + q
  BY <1>3
<1>11. m = 0 => e = [e EXCEPT !.tokens = RollBackToStep(ts, 0), !.ahead = FALSE]
  <2>1. CASE m = 0
    <3>1. RollBackToStep(ts, 0) = ts
      BY <1>8, <1>10, <2>1 DEF RollBackToStep
    <3>2. e.ahead = FALSE
      BY <1>3, <1>5, <1>9, <1>10, <2>1
    <3>. QED  BY <1>1, <1>4, <3>1, <3>2 DEF ExecSet
  <2>. QED  BY <2>1
<1>12. TokenCount(e.tokens) = m /\ e.step = s /\ m \in Nat /\ s \in Nat
  BY <1>1, <1>3, <1>8, <1>10
<1>13. /\ s = m => r = Ok(e)
       /\ s = 0 /\ m # 0 => r = Ok([e EXCEPT !.tokens = RollBackToStep(ts, 0), !.ahead = FALSE])
       /\ s = m + 1 => r = Ok([e EXCEPT !.ahead = FALSE])
       /\ s \in 1..(m - 1) /\ Len(at) = 1 =>
            r = Ok([e EXCEPT !.ahead = FALSE,
                             !.tokens = IF at[1] > 0 THEN AddPending(cut, at)
                                        ELSE AddProcessedTokens(cut, at)])
  <2>1. CASE s = m /\ m # 0
    BY <1>1, <1>12, <2>1 DEF RollBackProcessedTokens
  <2>2. CASE s = m /\ m = 0
    BY <1>1, <1>11, <1>12, <2>2 DEF RollBackProcessedTokens
  <2>3. CASE s = 0 /\ m # 0
    BY <1>1, <1>12, <2>3 DEF RollBackProcessedTokens
  <2>4. CASE s = m + 1
    BY <1>1, <1>12, <2>4 DEF RollBackProcessedTokens
  <2>5. CASE s \in 1..(m - 1)
    BY <1>1, <1>2, <1>12, <2>5 DEF RollBackProcessedTokens
  <2>6. s = m \/ (s = 0 /\ m # 0) \/ s = m + 1 \/ s \in 1..(m - 1)
    BY <1>3, <1>9, <1>10
  <2>. QED  BY <2>1, <2>2, <2>3, <2>4, <2>5, <2>6
<1>14. CASE s = m
  <2>1. r = Ok(e)
    BY <1>13, <1>14
  <2>2. r.ok = TRUE /\ r.e = e
    BY <2>1 DEF Ok
  <2>3. RolledBack(c, e, r, g, q, g, q)
    BY <1>1, <1>3, <1>10, <1>14, <2>2 DEF RolledBack
  <2>. QED  BY <1>1, <2>3
<1>15. ASSUME s # m, NEW us, NEW h \in Nat, NEW p \in 0..1, us \in Seq(TokSet),
              r = Ok([e EXCEPT !.tokens = us, !.ahead = FALSE]),
              Holding(us, kv, n, h, p), s <= h + p + 1, s = h + p + 1 => p = 0,
              s <= m => s = h + p, s >= m => h = g /\ p = q /\ us = ts
       PROVE  RolledBack(c, e, r, g, q, h, p)
  <2>1. PICK x : x = [e EXCEPT !.tokens = us, !.ahead = FALSE]
    OBVIOUS
  <2>2. r.ok = TRUE /\ r.e = x
    BY <1>15, <2>1 DEF Ok
  <2>3. /\ x \in ExecSet /\ x.step = s /\ x.ranDecode = e.ranDecode
        /\ x.room = e.room /\ x.kv = kv /\ x.tokens = us /\ x.ahead = FALSE
    BY <1>1, <1>4, <1>15, <2>1 DEF ExecSet
  <2>4. Width(c, x) = n
    BY <1>1, <2>3 DEF Width
  <2>5. /\ c.dynamic => \A i \in 1..Len(kv) : Len(kv[i]) <= e.room
        /\ c.sampler # "npu"
    BY <1>1, <1>10, <1>15 DEF Sound
  <2>6. Sound(c, x, h, p)
    BY <1>15, <2>3, <2>4, <2>5 DEF Sound
  <2>. QED  BY <1>1, <1>10, <1>15, <2>2, <2>3, <2>6 DEF RolledBack
<1>16. CASE s = 0 /\ m # 0
  <2>1. PICK us : us = RollBackToStep(ts, 0)
    OBVIOUS
  <2>2. r = Ok([e EXCEPT !.tokens = us, !.ahead = FALSE])
    BY <1>13, <1>16, <2>1
  <2>3. Holding(us, kv, n, 0, 0)
    <3>1. 0 \in Nat /\ 0 <= g
      BY <1>3
    <3>. QED  BY <1>3, <1>7, <2>1, <3>1, RollBackToStepIs
  <2>4. us \in Seq(TokSet)
    BY <2>3 DEF Holding
  <2>5. /\ 0 \in Nat /\ 0 \in 0..1 /\ s # m /\ s <= 0 + 0 + 1 /\ (s = 0 + 0 + 1 => 0 = 0)
        /\ s <= m => s = 0 + 0
        /\ s >= m => 0 = g /\ 0 = q /\ us = ts
    BY <1>12, <1>16
  <2>6. RolledBack(c, e, r, g, q, 0, 0)
    BY <1>15, <2>2, <2>3, <2>4, <2>5
  <2>. QED  BY <1>1, <2>6
<1>17. CASE s = m + 1
  <2>1. r = Ok([e EXCEPT !.ahead = FALSE])
    BY <1>13, <1>17
  <2>2. [e EXCEPT !.ahead = FALSE] = [e EXCEPT !.tokens = ts, !.ahead = FALSE]
    BY <1>1, <1>4 DEF ExecSet
  <2>3. r = Ok([e EXCEPT !.tokens = ts, !.ahead = FALSE])
    BY <2>1, <2>2
  <2>4. /\ s # m /\ s <= g + q + 1 /\ (s = g + q + 1 => q = 0)
        /\ s <= m => s = g + q
        /\ s >= m => g = g /\ q = q /\ ts = ts
    BY <1>9, <1>12, <1>17
  <2>5. RolledBack(c, e, r, g, q, g, q)
    BY <1>3, <1>7, <1>8, <1>15, <2>3, <2>4
  <2>. QED  BY <1>1, <2>5
<1>18. CASE s \in 1..(m - 1)
  <2>1. n = 1
    BY <1>1, <1>3, <1>10, <1>18
  <2>2. PICK k : k \in Nat /\ k = s - 1 /\ k < g /\ k <= g /\ k < g + q /\ k + 1 = s
    BY <1>3, <1>10, <1>18
  <2>3. at \in Seq(Int) /\ Len(at) = 1 /\ at[1] = ts[1].ids[s]
    <3>1. at = TokenAtStep(ts, k)
      BY <1>2, <2>2
    <3>2. k \in Nat /\ k < g
      BY <2>2
    <3>3. TokenAtStep(ts, k) \in Seq(Int) /\ Len(TokenAtStep(ts, k)) = n
      BY <1>3, <1>7, <3>2, TokenAtStepIs
    <3>4. TokenAtStep(ts, k)[1] = ts[1].ids[k + 1]
      BY ZenonT(40), <1>3, <1>7, <3>2, TokenAtStepIs
    <3>. QED  BY <2>1, <2>2, <3>1, <3>3, <3>4
  <2>4. /\ Holding(cut, kv, n, k, 0)
        /\ cut[1].ids = SubSeq(ts[1].ids, 1, k)
    <3>1. cut = RollBackToStep(ts, k)
      BY <1>2, <2>2
    <3>2. k \in Nat /\ k <= g
      BY <2>2
    <3>3. Holding(RollBackToStep(ts, k), kv, n, k, 0)
      BY <1>3, <1>7, <3>2, RollBackToStepIs
    <3>4. RollBackToStep(ts, k)[1].ids = SubSeq(ts[1].ids, 1, k)
      BY ZenonT(40), <1>3, <1>7, <3>2, RollBackToStepIs
    <3>. QED  BY <2>1, <3>1, <3>3, <3>4
  <2>5. r = Ok([e EXCEPT !.ahead = FALSE,
                         !.tokens = IF at[1] > 0 THEN AddPending(cut, at)
                                    ELSE AddProcessedTokens(cut, at)])
    BY <1>13, <1>18, <2>3
  <2>6. k \in Nat /\ 0 \in 0..1 /\ 1 \in 0..1 /\ n \in Nat \ {0} /\ Len(at) >= n
    BY <2>1, <2>2, <2>3
  <2>7. CASE at[1] > 0
    <3>1. PICK us : us = AddPending(cut, at)
      OBVIOUS
    <3>2. r = Ok([e EXCEPT !.tokens = us, !.ahead = FALSE])
      <4>1. r = Ok([e EXCEPT !.ahead = FALSE, !.tokens = us])
        BY <2>5, <2>7, <3>1
      <4>2. [e EXCEPT !.ahead = FALSE, !.tokens = us] = [e EXCEPT !.tokens = us, !.ahead = FALSE]
        BY <1>4 DEF ExecSet
      <4>. QED  BY <4>1, <4>2
    <3>3. Holding(us, kv, n, k, 1)
      BY <2>3, <2>4, <2>6, <3>1, AddPendingIs DEF PendingAdded
    <3>4. us \in Seq(TokSet)
      BY <3>3 DEF Holding
    <3>5. /\ s # m /\ s <= k + 1 + 1 /\ (s = k + 1 + 1 => 1 = 0)
          /\ s <= m => s = k + 1
          /\ s >= m => k = g /\ 1 = q /\ us = ts
      BY <1>12, <1>18, <2>2, <2>6
    <3>6. RolledBack(c, e, r, g, q, k, 1)
      BY <1>15, <2>6, <3>2, <3>3, <3>4, <3>5
    <3>. QED  BY <1>1, <3>6
  <2>8. CASE ~(at[1] > 0)
    <3>1. PICK us : us = AddProcessedTokens(cut, at)
      OBVIOUS
    <3>2. r = Ok([e EXCEPT !.tokens = us, !.ahead = FALSE])
      <4>1. r = Ok([e EXCEPT !.ahead = FALSE, !.tokens = us])
        BY <2>5, <2>8, <3>1
      <4>2. [e EXCEPT !.ahead = FALSE, !.tokens = us] = [e EXCEPT !.tokens = us, !.ahead = FALSE]
        BY <1>4 DEF ExecSet
      <4>. QED  BY <4>1, <4>2
    <3>3. Held(cut[1].ids \o at, kv[1])
      <4>1. ts[1].ids \in Seq(Int) /\ Len(ts[1].ids) = g /\ Held(ts[1].ids, kv[1])
            /\ kv[1] \in Seq(Mark)
        BY <1>6, <2>1 DEF Candidates
      <4>2. PICK ids : ids = ts[1].ids
        OBVIOUS
      <4>3. ids \in Seq(Int) /\ s \in 0..Len(ids) /\ s = k + 1 /\ k \in Nat /\ Held(ids, kv[1])
        BY <1>3, <2>2, <4>1, <4>2
      <4>4. Held(SubSeq(ids, 1, s), kv[1])
        BY <4>1, <4>3, HeldPart
      <4>5. at = <<ids[s]>>
        BY <2>3, <4>2
      <4>6. SubSeq(ids, 1, k) \o <<ids[s]>> = SubSeq(ids, 1, s)
        BY <4>3
      <4>. QED  BY <2>4, <4>2, <4>4, <4>5, <4>6
    <3>4. Holding(us, kv, n, k + Len(at), 0)
      <4>1. kv \in Seq(Seq(Mark)) /\ Len(kv) = n /\ \A i \in 1..n : Held(cut[i].ids \o at, kv[i])
        BY <1>7, <2>1, <3>3 DEF Holding
      <4>. QED  BY <2>3, <2>4, <2>6, <3>1, <4>1, AddProcessedIs
    <3>5. k + Len(at) = s
      BY <2>2, <2>3
    <3>6. Holding(us, kv, n, s, 0)
      BY <3>4, <3>5
    <3>7. us \in Seq(TokSet)
      BY <3>6 DEF Holding
    <3>8. /\ s # m /\ s <= s + 0 + 1 /\ (s = s + 0 + 1 => 0 = 0)
          /\ s <= m => s = s + 0
          /\ s >= m => s = g /\ 0 = q /\ us = ts
      BY <1>12, <1>18
    <3>9. RolledBack(c, e, r, g, q, s, 0)
      BY <1>3, <1>15, <2>6, <3>2, <3>6, <3>7, <3>8
    <3>. QED  BY <1>1, <3>9
  <2>. QED  BY <2>7, <2>8
<1>19. s = m \/ (s = 0 /\ m # 0) \/ s = m + 1 \/ s \in 1..(m - 1)
  BY <1>3, <1>9, <1>10
<1>. QED  BY <1>14, <1>16, <1>17, <1>18, <1>19, Zenon

LEMMA FirstOnly ==
    ASSUME NEW ts, NEW kv, NEW n \in Nat \ {0}, NEW g \in Nat, NEW q \in 0..1,
           Holding(ts, kv, n, g, q)
    PROVE  Holding(<<ts[1]>>, <<kv[1]>>, 1, g, q)
<1>1. Candidates(ts, kv, n, g, q)
  BY HoldingFacts
<1>2. /\ ts[1] \in TokSet /\ kv[1] \in Seq(Mark)
      /\ Len(ts[1].ids) = g /\ Len(ts[1].pending) = q /\ Held(ts[1].ids, kv[1])
  BY <1>1 DEF Candidates
<1>3. /\ <<ts[1]>> \in Seq(TokSet) /\ Len(<<ts[1]>>) = 1 /\ <<ts[1]>>[1] = ts[1]
      /\ <<kv[1]>> \in Seq(Seq(Mark)) /\ Len(<<kv[1]>>) = 1 /\ <<kv[1]>>[1] = kv[1]
  BY <1>2
<1>. QED  BY <1>2, <1>3 DEF Holding

LEMMA FirstForAll ==
    ASSUME NEW ts, NEW kv, NEW n \in Nat \ {0}, NEW g \in Nat, NEW q \in 0..1,
           Holding(ts, kv, n, g, q), NEW h \in Nat \ {0}
    PROVE  Holding([i \in 1..h |-> ts[1]], [i \in 1..h |-> kv[1]], h, g, q)
<1>1. Candidates(ts, kv, n, g, q)
  BY HoldingFacts
<1>2. /\ ts[1] \in TokSet /\ kv[1] \in Seq(Mark)
      /\ Len(ts[1].ids) = g /\ Len(ts[1].pending) = q /\ Held(ts[1].ids, kv[1])
  BY <1>1 DEF Candidates
<1>3. PICK us, rows : us = [i \in 1..h |-> ts[1]] /\ rows = [i \in 1..h |-> kv[1]]
  OBVIOUS
<1>4. /\ us \in Seq(TokSet) /\ Len(us) = h /\ \A i \in 1..h : us[i] = ts[1]
      /\ rows \in Seq(Seq(Mark)) /\ Len(rows) = h /\ \A i \in 1..h : rows[i] = kv[1]
  BY <1>2, <1>3
<1>. QED  BY <1>2, <1>3, <1>4 DEF Holding

\* The first prefill after a decode, and the first decode after a prefill, change
\* nothing but the number of candidates.
Prepared(c, e, g, q, x, ran) ==
    /\ Sound(c, x, g, q) /\ x.step = e.step /\ x.room = e.room
    /\ x.ranDecode = ran /\ x.ahead = (ran /\ e.ahead)

LEMMA PreparePrefillIs ==
    ASSUME NEW c, Built(c), NEW e, NEW g, NEW q, Sound(c, e, g, q),
           NEW x, x = PrepareFirstPrefillAfterDecode(e)
    PROVE  Prepared(c, e, g, q, x, FALSE)
<1>1. CASE ~e.ranDecode
  <2>1. x = e
    BY <1>1 DEF PrepareFirstPrefillAfterDecode
  <2>2. e.ranDecode = FALSE /\ e.ahead = FALSE
    BY <1>1 DEF Sound, ExecSet
  <2>. QED  BY <2>1, <2>2 DEF Prepared
<1>2. CASE e.ranDecode
  <2>1. x = [e EXCEPT !.ranDecode = FALSE, !.ahead = FALSE,
                      !.tokens = <<e.tokens[1]>>, !.kv = <<e.kv[1]>>]
    BY <1>2 DEF PrepareFirstPrefillAfterDecode
  <2>2. PICK us, rows : us = <<e.tokens[1]>> /\ rows = <<e.kv[1]>>
    OBVIOUS
  <2>3. /\ e \in ExecSet /\ Width(c, e) \in Nat \ {0} /\ g \in Nat /\ q \in 0..1
        /\ Holding(e.tokens, e.kv, Width(c, e), g, q)
    BY SoundFacts DEF Sound
  <2>4. Holding(us, rows, 1, g, q)
    BY <2>2, <2>3, FirstOnly
  <2>5. us \in Seq(TokSet) /\ rows \in Seq(Seq(Mark)) /\ Len(rows) = 1
    BY <2>4 DEF Holding
  <2>6. /\ x \in ExecSet /\ x.step = e.step /\ x.room = e.room /\ x.ranDecode = FALSE
        /\ x.ahead = FALSE /\ x.tokens = us /\ x.kv = rows
    BY <2>1, <2>2, <2>3, <2>5 DEF ExecSet
  <2>7. Width(c, x) = 1
    BY <2>6 DEF Width
  <2>8. c.dynamic => \A i \in 1..Len(rows) : Len(rows[i]) <= e.room
    <3>1. CASE c.dynamic
      <4>1. \A i \in 1..Len(e.kv) : Len(e.kv[i]) <= e.room
        BY <3>1 DEF Sound
      <4>2. 1 \in 1..Len(e.kv)
        BY <2>3 DEF Holding
      <4>3. Len(e.kv[1]) <= e.room
        BY <4>1, <4>2
      <4>4. \A i \in 1..Len(rows) : rows[i] = e.kv[1]
        BY <2>2, <2>5
      <4>. QED  BY <4>3, <4>4
    <3>. QED  BY <3>1
  <2>9. /\ x.step <= g + q + 1 /\ (x.step = g + q + 1 => q = 0)
        /\ c.sampler = "npu" => x.step = g + q
    BY <2>6 DEF Sound
  <2>10. Sound(c, x, g, q)
    BY <2>3, <2>4, <2>6, <2>7, <2>8, <2>9 DEF Sound
  <2>. QED  BY <2>6, <2>10 DEF Prepared
<1>. QED  BY <1>1, <1>2

LEMMA PrepareDecodeIs ==
    ASSUME NEW c, Built(c), NEW e, NEW g, NEW q, Sound(c, e, g, q), c.sampler # "npu",
           NEW x, x = PrepareFirstDecode(c, e)
    PROVE  Prepared(c, e, g, q, x, TRUE)
<1>1. CASE e.ranDecode
  <2>1. x = e
    BY <1>1 DEF PrepareFirstDecode
  <2>2. e.ranDecode = TRUE /\ e.ahead \in BOOLEAN
    BY <1>1 DEF Sound, ExecSet
  <2>. QED  BY <2>1, <2>2 DEF Prepared
<1>2. CASE ~e.ranDecode
  <2>1. PICK us, rows : us = [i \in 1..c.heads |-> e.tokens[1]] /\ rows = [i \in 1..c.heads |-> e.kv[1]]
    OBVIOUS
  <2>2. x = [e EXCEPT !.ranDecode = TRUE, !.tokens = us, !.kv = rows]
    BY <1>2, <2>1 DEF PrepareFirstDecode
  <2>3. /\ e \in ExecSet /\ Width(c, e) \in Nat \ {0} /\ g \in Nat /\ q \in 0..1
        /\ Holding(e.tokens, e.kv, Width(c, e), g, q) /\ c.heads \in Nat \ {0}
    BY SoundFacts DEF Sound, Built
  <2>4. Holding(us, rows, c.heads, g, q)
    BY <2>1, <2>3, FirstForAll
  <2>5. us \in Seq(TokSet) /\ rows \in Seq(Seq(Mark)) /\ Len(rows) = c.heads
    BY <2>4 DEF Holding
  <2>6. /\ x \in ExecSet /\ x.step = e.step /\ x.room = e.room /\ x.ranDecode = TRUE
        /\ x.ahead = e.ahead /\ x.tokens = us /\ x.kv = rows
    BY <2>2, <2>3, <2>5 DEF ExecSet
  <2>7. Width(c, x) = c.heads
    BY <2>6 DEF Width
  <2>8. c.dynamic => \A i \in 1..Len(rows) : Len(rows[i]) <= e.room
    <3>1. CASE c.dynamic
      <4>1. \A i \in 1..Len(e.kv) : Len(e.kv[i]) <= e.room
        BY <3>1 DEF Sound
      <4>2. 1 \in 1..Len(e.kv)
        BY <2>3 DEF Holding
      <4>3. Len(e.kv[1]) <= e.room
        BY <4>1, <4>2
      <4>4. \A i \in 1..Len(rows) : rows[i] = e.kv[1]
        BY <2>1, <2>5
      <4>. QED  BY <4>3, <4>4
    <3>. QED  BY <3>1
  <2>9. x.step <= g + q + 1 /\ (x.step = g + q + 1 => q = 0) /\ ~x.ahead
    BY <1>2, <2>6 DEF Sound
  <2>10. Sound(c, x, g, q)
    BY <2>3, <2>4, <2>6, <2>7, <2>8, <2>9 DEF Sound
  <2>11. e.ahead \in BOOLEAN
    BY <2>3 DEF ExecSet
  <2>. QED  BY <2>6, <2>10, <2>11 DEF Prepared
<1>. QED  BY <1>1, <1>2

\* What a run writes: the tokens, or that it failed.
LEMMA RunMarks ==
    ASSUME NEW toks \in Seq(Int), NEW fail \in BOOLEAN, NEW m,
           m = IF fail THEN Marked(toks, Lost) ELSE toks
    PROVE  /\ m \in Seq(Mark) /\ Len(m) = Len(toks)
           /\ \A j \in 1..Len(toks) : m[j] \in {toks[j], Lost}
<1>1. CASE fail
  BY <1>1, MarkedIs
<1>2. CASE ~fail
  BY <1>2, TokensAreMarks
<1>. QED  BY <1>1, <1>2

\* The rows of a prefill hold the tokens, and are no longer than the tokens or than
\* they were.
LEMMA PrefillRow ==
    ASSUME NEW row \in Seq(Mark), NEW ids \in Seq(Int), NEW pend \in Seq(Int), Held(ids, row),
           NEW front \in Seq(Int), NEW m1, NEW m2, NEW fail \in BOOLEAN,
           m1 = IF fail THEN Marked(pend, Lost) ELSE pend,
           m2 = IF fail THEN Marked(front, Lost) ELSE front,
           NEW w, w = WriteKv(WriteKv(row, Len(ids), m1), Len(ids) + Len(pend), m2)
    PROVE  /\ w \in Seq(Mark) /\ Held((ids \o pend) \o front, w)
           /\ Len(w) <= Len(row) \/ Len(w) <= Len(ids) + Len(pend) + Len(front)
<1>1. PICK v : v = WriteKv(row, Len(ids), m1)
  OBVIOUS
<1>2. PICK all : all = ids \o pend
  OBVIOUS
<1>3. all \in Seq(Int) /\ Len(all) = Len(ids) + Len(pend)
  BY <1>2
<1>4. /\ Len(ids) \in Nat /\ Len(pend) \in Nat /\ Len(front) \in Nat /\ Len(row) \in Nat
      /\ Len(all) \in Nat
  BY <1>3
<1>5. /\ m1 \in Seq(Mark) /\ Len(m1) = Len(pend)
      /\ \A j \in 1..Len(pend) : m1[j] \in {pend[j], Lost}
  BY RunMarks
<1>6. /\ m2 \in Seq(Mark) /\ Len(m2) = Len(front)
      /\ \A j \in 1..Len(front) : m2[j] \in {front[j], Lost}
  BY RunMarks
<1>7. v \in Seq(Mark) /\ Len(v) \in Nat /\ (Len(v) = Len(row) \/ Len(v) = Len(ids) + Len(m1))
  <2>1. PICK a : a \in Nat /\ a = Len(ids) /\ v = WriteKv(row, a, m1)
    BY <1>1, <1>4
  <2>2. /\ v \in Seq(Mark) /\ Len(v) \in Nat
        /\ Len(v) = Len(row) \/ Len(v) = a + Len(m1)
    BY SMTT(30), <1>5, <2>1, WriteLength
  <2>. QED  BY <2>1, <2>2
<1>8. Held(all, v)
  <2>1. Len(m1) >= Len(pend)
    BY <1>4, <1>5
  <2>. QED  BY <1>1, <1>2, <1>5, <2>1, HeldMore
<1>9. w = WriteKv(v, Len(all), m2)
  BY <1>1, <1>3
<1>10. w \in Seq(Mark) /\ Len(w) \in Nat /\ (Len(w) = Len(v) \/ Len(w) = Len(all) + Len(m2))
  <2>1. PICK a : a \in Nat /\ a = Len(all) /\ w = WriteKv(v, a, m2)
    BY <1>4, <1>9
  <2>0. m2 \in Seq(Mark) /\ v \in Seq(Mark) /\ a \in Nat /\ w = WriteKv(v, a, m2)
    BY <1>6, <1>7, <2>1
  <2>2. /\ w \in Seq(Mark) /\ Len(w) \in Nat
        /\ Len(w) = Len(v) \/ Len(w) = a + Len(m2)
    BY SMTT(30), <2>0, WriteLength
  <2>. QED  BY <2>1, <2>2
<1>11. Held(all \o front, w)
  <2>1. Len(m2) >= Len(front)
    BY <1>4, <1>6
  <2>. QED  BY <1>3, <1>6, <1>7, <1>8, <1>9, <2>1, HeldMore
<1>12. Len(w) <= Len(row) \/ Len(w) <= Len(ids) + Len(pend) + Len(front)
  <2>1. CASE Len(w) = Len(v)
    <3>1. CASE Len(v) = Len(row)
      BY <1>4, <1>10, <2>1, <3>1
    <3>2. CASE Len(v) = Len(ids) + Len(m1)
      BY <1>4, <1>5, <1>10, <2>1, <3>2
    <3>. QED  BY <1>7, <3>1, <3>2
  <2>2. CASE Len(w) = Len(all) + Len(m2)
    <3>1. Len(w) = (Len(ids) + Len(pend)) + Len(front)
      BY <1>3, <1>6, <2>2
    <3>. QED  BY <1>4, <3>1
  <2>. QED  BY <1>10, <2>1, <2>2
<1>. QED  BY <1>2, <1>10, <1>11, <1>12

\* What a prefill that has run leaves: its last token pending, the step counted.
Filled(c, r, h) ==
    /\ r.ok \in BOOLEAN /\ h \in Nat /\ Sound(c, r.e, h, 1)
    /\ r.e.step = h + 1 /\ r.e.ranDecode = FALSE /\ r.e.ahead = FALSE

LEMMA PrefillRunIs ==
    ASSUME NEW c, Built(c), NEW e, NEW g, NEW q, Sound(c, e, g, q),
           e.ranDecode = FALSE, e.step = g + q, NEW ids \in Seq(Int), ids # <<>>,
           NEW len, len = g + q + Len(ids) - 1, c.dynamic => e.room >= len, NEW fail \in BOOLEAN,
           NEW r, r = PrefillRun(e, ids, fail)
    PROVE  Filled(c, r, len) /\ (fail = FALSE => r.ok = TRUE)
<1>1. PICK front, last, k : /\ front = SubSeq(ids, 1, Len(ids) - 1)
                            /\ last = ids[Len(ids)] /\ k = Len(ids) - 1
  OBVIOUS
<1>2. /\ front \in Seq(Int) /\ Len(front) = k /\ last \in Int /\ k \in Nat
      /\ Len(ids) = k + 1
  BY <1>1
<1>3. PICK t, row, s : t = e.tokens[1] /\ row = e.kv[1] /\ s = e.step
  OBVIOUS
<1>4. /\ e \in ExecSet /\ g \in Nat /\ q \in 0..1 /\ Width(c, e) = 1 /\ s = g + q
      /\ Candidates(e.tokens, e.kv, 1, g, q)
      /\ Holding(e.tokens, e.kv, 1, g, q)
  BY <1>3, SoundFacts DEF Sound, Width
<1>5. /\ t.ids \in Seq(Int) /\ t.pending \in Seq(Int) /\ row \in Seq(Mark)
      /\ Len(t.ids) = g /\ Len(t.pending) = q /\ Held(t.ids, row)
      /\ GetStep(e.tokens) = g
  BY <1>3, <1>4 DEF Candidates
<1>6. PICK m1, m2 : /\ m1 = IF fail THEN Marked(t.pending, Lost) ELSE t.pending
                    /\ m2 = IF fail THEN Marked(front, Lost) ELSE front
  OBVIOUS
<1>7. PICK w : w = WriteKv(WriteKv(row, g, m1), s, m2)
  OBVIOUS
<1>8. /\ w \in Seq(Mark) /\ Held((t.ids \o t.pending) \o front, w)
      /\ Len(w) <= Len(row) \/ Len(w) <= g + q + k
  <2>1. w = WriteKv(WriteKv(row, Len(t.ids), m1), Len(t.ids) + Len(t.pending), m2)
    BY <1>4, <1>5, <1>7
  <2>2. /\ w \in Seq(Mark) /\ Held((t.ids \o t.pending) \o front, w)
        /\ Len(w) <= Len(row) \/ Len(w) <= Len(t.ids) + Len(t.pending) + Len(front)
    BY <1>2, <1>5, <1>6, <2>1, PrefillRow
  <2>. QED  BY <1>2, <1>5, <2>2
<1>9. PICK v : v = WriteKv(row, g, m1)
  OBVIOUS
<1>10. v \in Seq(Mark) /\ Held(t.ids \o t.pending, v)
  <2>1. /\ m1 \in Seq(Mark) /\ Len(m1) = Len(t.pending)
        /\ \A j \in 1..Len(t.pending) : m1[j] \in {t.pending[j], Lost}
    BY <1>5, <1>6, RunMarks
  <2>2. Len(m1) >= Len(t.pending) /\ v = WriteKv(row, Len(t.ids), m1)
    BY <1>5, <1>9, <2>1
  <2>3. Held(t.ids \o t.pending, v)
    BY <1>5, <2>1, <2>2, HeldMore
  <2>4. v \in Seq(Mark)
    BY <1>4, <1>5, <1>9, <2>1, WriteIs
  <2>. QED  BY <2>3, <2>4
<1>11. PICK us, vs, ws : /\ us = MarkPendingAsProcessed(e.tokens)
                         /\ vs = AddProcessedTokens(us, front)
                         /\ ws = AddPending(vs, <<last>>)
  OBVIOUS
<1>12. Holding(us, <<v>>, 1, g + q, 0) /\ us[1].ids = t.ids \o t.pending
  <2>1. /\ <<v>> \in Seq(Seq(Mark)) /\ Len(<<v>>) = 1
        /\ \A i \in 1..1 : Held(e.tokens[i].ids \o e.tokens[i].pending, <<v>>[i])
    BY <1>3, <1>10
  <2>2. 1 \in Nat \ {0} /\ 1 \in 1..1
    OBVIOUS
  <2>3. /\ Holding(us, <<v>>, 1, g + q, 0)
        /\ \A i \in 1..1 : /\ us[i].ids = e.tokens[i].ids \o e.tokens[i].pending
                           /\ us[i].pending = <<>>
    BY <1>4, <1>11, <2>1, <2>2, MarkPendingIs
  <2>. QED  BY <1>3, <2>2, <2>3
<1>13. PICK gq \in Nat : gq = g + q
  BY <1>4
<1>14. Holding(vs, <<w>>, 1, gq + k, 0)
  <2>1. /\ <<w>> \in Seq(Seq(Mark)) /\ Len(<<w>>) = 1
        /\ \A i \in 1..1 : Held(us[i].ids \o front, <<w>>[i])
    <3>1. Held(us[1].ids \o front, w)
      BY <1>8, <1>12
    <3>2. <<w>> \in Seq(Seq(Mark)) /\ Len(<<w>>) = 1 /\ <<w>>[1] = w
      BY <1>8
    <3>. QED  BY <3>1, <3>2
  <2>2. 1 \in Nat \ {0} /\ 0 \in 0..1 /\ Holding(us, <<v>>, 1, gq, 0)
    BY <1>12, <1>13
  <2>3. Holding(vs, <<w>>, 1, gq + Len(front), 0)
    BY <1>2, <1>11, <2>1, <2>2, AddProcessedIs
  <2>. QED  BY <1>2, <2>3
<1>15. PICK h \in Nat : h = gq + k
  BY <1>2, <1>13
<1>16. Holding(ws, <<w>>, 1, h, 1)
  <2>1. 1 \in Nat \ {0} /\ 0 \in 0..1 /\ <<last>> \in Seq(Int) /\ Len(<<last>>) >= 1
    BY <1>2
  <2>2. Holding(vs, <<w>>, 1, h, 0)
    BY <1>14, <1>15
  <2>. QED  BY <1>11, <2>1, <2>2, AddPendingIs DEF PendingAdded
<1>17. PICK x : x = [e EXCEPT !.tokens = ws, !.kv = <<w>>, !.step = s + Len(ids)]
  OBVIOUS
<1>18. /\ ws \in Seq(TokSet) /\ <<w>> \in Seq(Seq(Mark)) /\ Len(<<w>>) = 1
       /\ s + Len(ids) \in Nat /\ s + Len(ids) = h + 1
  <2>1. ws \in Seq(TokSet)
    BY <1>16 DEF Holding
  <2>2. <<w>> \in Seq(Seq(Mark)) /\ Len(<<w>>) = 1
    BY <1>8
  <2>3. s + Len(ids) \in Nat /\ s + Len(ids) = h + 1
    BY <1>2, <1>4, <1>13, <1>15
  <2>. QED  BY <2>1, <2>2, <2>3
<1>19. /\ x \in ExecSet /\ x.tokens = ws /\ x.kv = <<w>> /\ x.step = h + 1
       /\ x.ranDecode = FALSE /\ x.ahead = e.ahead /\ x.room = e.room
  BY <1>4, <1>17, <1>18 DEF ExecSet
<1>20. Width(c, x) = 1 /\ x.ahead = FALSE
  BY <1>4, <1>19 DEF Width, Sound, ExecSet
<1>21. c.dynamic => \A i \in 1..Len(<<w>>) : Len(<<w>>[i]) <= e.room
  <2>1. CASE c.dynamic
    <3>1. \A i \in 1..Len(e.kv) : Len(e.kv[i]) <= e.room
      BY <2>1 DEF Sound
    <3>2. 1 \in 1..Len(e.kv)
      BY <1>4 DEF Holding
    <3>3. Len(row) <= e.room
      BY <1>3, <3>1, <3>2
    <3>4. e.room \in Nat /\ Len(w) \in Nat /\ Len(row) \in Nat
      BY SMTT(30), <1>4, <1>5, <1>8 DEF ExecSet
    <3>6. e.room >= g + q + Len(ids) - 1
      BY <2>1
    <3>7. e.room >= g + q + k
      BY <1>2, <1>4, <3>4, <3>6
    <3>8. Len(w) <= e.room
      BY <1>4, <1>2, <1>8, <3>3, <3>4, <3>7
    <3>. QED  BY <3>8
  <2>. QED  BY <2>1
<1>22. Sound(c, x, h, 1)
  <2>1. /\ h \in Nat /\ 1 \in 0..1 /\ x.step <= h + 1 + 1 /\ (x.step = h + 1 + 1 => 1 = 0)
        /\ x.step = h + 1
    BY <1>15, <1>19
  <2>. QED  BY <1>16, <1>18, <1>19, <1>20, <1>21, <2>1 DEF Sound
<1>23. (r = Ok(x) \/ r = Err(x)) /\ (fail = FALSE => r = Ok(x))
  BY <1>1, <1>3, <1>5, <1>6, <1>7, <1>11, <1>17 DEF PrefillRun
<1>24. r.e = x /\ r.ok \in BOOLEAN /\ (fail = FALSE => r.ok = TRUE)
  <2>1. Ok(x).e = x /\ Ok(x).ok = TRUE /\ Err(x).e = x /\ Err(x).ok = FALSE
    BY DEF Ok, Err
  <2>2. r.e = x
    BY <1>23, <2>1
  <2>3. r.ok = TRUE \/ r.ok = FALSE
    BY <1>23, <2>1
  <2>4. fail = FALSE => r.ok = TRUE
    BY <1>23, <2>1
  <2>. QED  BY <2>2, <2>3, <2>4
<1>25. h = len
  BY <1>2, <1>4, <1>13, <1>15
<1>. QED  BY <1>15, <1>19, <1>20, <1>22, <1>24, <1>25 DEF Filled

\* The room that the dynamic executor makes before a prefill.
LEMMA RoomForPrefill ==
    ASSUME NEW room \in Nat, NEW g \in Nat, NEW len \in Nat, NEW new,
           new = IF len > room - g THEN room + len ELSE room, g <= room
    PROVE  new \in Nat /\ new >= room /\ new >= g + len
<1>1. CASE len > room - g
  BY <1>1
<1>2. CASE ~(len > room - g)
  BY <1>2
<1>. QED  BY <1>1, <1>2

\* A cache with room for the tokens it holds.
LEMMA RoomForTokens ==
    ASSUME NEW c, Built(c), NEW e, NEW g, NEW q, Sound(c, e, g, q), c.dynamic
    PROVE  g <= e.room
<1>1. /\ e.room \in Nat /\ g \in Nat
      /\ Candidates(e.tokens, e.kv, Width(c, e), g, q)
  BY SoundFacts
<1>2. PICK ids, row : ids = e.tokens[1].ids /\ row = e.kv[1]
  OBVIOUS
<1>3. /\ Len(ids) = g /\ Held(ids, row) /\ Len(row) \in Nat /\ 1 \in 1..Len(e.kv)
  <2>1. 1 \in 1..Width(c, e) /\ 1 \in 1..Len(e.kv)
    BY <1>1 DEF Candidates
  <2>2. Len(ids) = g /\ Held(ids, row) /\ row \in Seq(Mark)
    BY <1>1, <1>2, <2>1 DEF Candidates
  <2>. QED  BY <2>1, <2>2
<1>4. \A i \in 1..Len(e.kv) : Len(e.kv[i]) <= e.room
  BY DEF Sound
<1>5. Len(row) <= e.room
  BY <1>2, <1>3, <1>4
<1>6. g = 0 \/ g \in 1..Len(ids)
  BY <1>1, <1>3
<1>7. g \in 1..Len(ids) => g <= Len(row)
  BY <1>3 DEF Held
<1>. QED  BY <1>1, <1>3, <1>5, <1>6, <1>7

\* More room does not disturb.
LEMMA RoomAdded ==
    ASSUME NEW c, Built(c), NEW e, NEW g, NEW q, Sound(c, e, g, q),
           NEW m \in Nat, m >= e.room, NEW x, x = [e EXCEPT !.room = m]
    PROVE  /\ Sound(c, x, g, q) /\ x.room = m /\ x.step = e.step
           /\ x.ranDecode = e.ranDecode /\ x.ahead = e.ahead
           /\ x.tokens = e.tokens /\ x.kv = e.kv
<1>1. e \in ExecSet
  BY SoundFacts
<1>2. /\ x \in ExecSet /\ x.room = m /\ x.step = e.step
      /\ x.ranDecode = e.ranDecode /\ x.ahead = e.ahead
      /\ x.tokens = e.tokens /\ x.kv = e.kv
  BY <1>1 DEF ExecSet
<1>3. Width(c, x) = Width(c, e)
  BY <1>2 DEF Width
<1>4. c.dynamic => \A i \in 1..Len(e.kv) : Len(e.kv[i]) <= m
  <2>1. CASE c.dynamic
    <3>1. ASSUME NEW i \in 1..Len(e.kv)  PROVE Len(e.kv[i]) <= m
      <4>1. Len(e.kv[i]) <= e.room
        BY <2>1 DEF Sound
      <4>2. Len(e.kv[i]) \in Nat /\ e.room \in Nat
        BY SoundFacts
      <4>. QED  BY <4>1, <4>2
    <3>. QED  BY <3>1
  <2>. QED  BY <2>1
<1>. QED  BY <1>2, <1>3, <1>4 DEF Sound

\* The dynamic executor, its tokens cut to the step: a single token with none
\* pending is stored and not counted.
Stored(c, r, h) ==
    /\ r.ok = TRUE /\ h \in Nat /\ Sound(c, r.e, h, 1)
    /\ r.e.step = h /\ r.e.ranDecode = FALSE /\ r.e.ahead = FALSE

LEMMA StoreIs ==
    ASSUME NEW c, Built(c), NEW e, NEW g, Sound(c, e, g, 0), c.sampler # "npu",
           e.ranDecode = FALSE, e.step = g, NEW ids \in Seq(Int), Len(ids) = 1,
           NEW r, r = Ok([e EXCEPT !.tokens = AddPending(e.tokens, ids)])
    PROVE  Stored(c, r, g)
<1>1. /\ e \in ExecSet /\ g \in Nat /\ 0 \in 0..1 /\ 1 \in Nat \ {0} /\ Width(c, e) = 1
      /\ Holding(e.tokens, e.kv, 1, g, 0) /\ Len(ids) >= 1
  BY SoundFacts DEF Sound, Width
<1>2. PICK ts : ts = AddPending(e.tokens, ids)
  OBVIOUS
<1>3. Holding(ts, e.kv, 1, g, 1)
  BY <1>1, <1>2, AddPendingIs DEF PendingAdded
<1>4. PICK x : x = [e EXCEPT !.tokens = ts]
  OBVIOUS
<1>5. ts \in Seq(TokSet)
  BY <1>3 DEF Holding
<1>6. /\ x \in ExecSet /\ x.tokens = ts /\ x.kv = e.kv /\ x.step = g /\ x.room = e.room
      /\ x.ranDecode = FALSE /\ x.ahead = e.ahead
  BY <1>1, <1>4, <1>5 DEF ExecSet
<1>7. Width(c, x) = 1 /\ x.ahead = FALSE
  BY <1>1, <1>6 DEF Width, Sound, ExecSet
<1>8. c.dynamic => \A i \in 1..Len(x.kv) : Len(x.kv[i]) <= x.room
  BY <1>6 DEF Sound
<1>9. Sound(c, x, g, 1)
  <2>1. x.step <= g + 1 + 1 /\ (x.step = g + 1 + 1 => 1 = 0) /\ 1 \in 0..1
    BY <1>1, <1>6
  <2>. QED  BY <1>1, <1>3, <1>6, <1>7, <1>8, <2>1 DEF Sound
<1>10. r.ok = TRUE /\ r.e = x
  BY <1>2, <1>4 DEF Ok
<1>. QED  BY <1>1, <1>6, <1>7, <1>9, <1>10 DEF Stored

LEMMA PrefillDynamicIs ==
    ASSUME NEW c, Built(c), NEW e, NEW g, NEW q, Sound(c, e, g, q), c.dynamic,
           e.ranDecode = FALSE, e.step = g + q, NEW ids \in Seq(Int), ids # <<>>,
           NEW fail \in BOOLEAN, NEW r, r = PrefillDynamic(e, ids, fail)
    PROVE  \E h : \/ Filled(c, r, h) /\ (fail = FALSE => r.ok = TRUE)
                  \/ Stored(c, r, h) /\ q = 0 /\ Len(ids) = 1
<1>1. /\ e \in ExecSet /\ g \in Nat /\ q \in 0..1 /\ e.room \in Nat
      /\ Candidates(e.tokens, e.kv, Width(c, e), g, q) /\ g <= e.room
      /\ c.sampler # "npu"
  <2>1. c.sampler # "npu"
    BY DEF Built
  <2>. QED  BY <2>1, SoundFacts, RoomForTokens
<1>2. GetStep(e.tokens) = g /\ (HasPending(e.tokens) <=> q = 1)
  BY <1>1 DEF Candidates
<1>3. PICK k \in Nat : Len(ids) = k + 1
  <2>1. Len(ids) - 1 \in Nat /\ Len(ids) = (Len(ids) - 1) + 1
    OBVIOUS
  <2>. QED  BY <2>1
<1>4. PICK len : len = Len(ids) - (IF HasPending(e.tokens) THEN 0 ELSE 1)
  OBVIOUS
<1>5. len = k + q
  <2>1. CASE q = 1
    BY <1>2, <1>3, <1>4, <2>1
  <2>2. CASE q = 0
    BY <1>2, <1>3, <1>4, <2>2
  <2>. QED  BY <1>1, <2>1, <2>2
<1>6. CASE q = 0 /\ k = 0
  <2>0. ~HasPending(e.tokens) /\ Len(ids) - (IF HasPending(e.tokens) THEN 0 ELSE 1) = 0
    BY <1>2, <1>4, <1>5, <1>6
  <2>1. r = Ok([e EXCEPT !.tokens = AddPending(e.tokens, ids)])
    BY <2>0, Zenon DEF PrefillDynamic
  <2>2. Sound(c, e, g, 0) /\ e.step = g /\ Len(ids) = 1
    BY <1>1, <1>3, <1>6
  <2>3. Stored(c, r, g)
    BY <1>1, <2>1, <2>2, StoreIs
  <2>. QED  BY <1>6, <2>2, <2>3
<1>7. CASE ~(q = 0 /\ k = 0)
  <2>1. PICK room : room = IF len > e.room - g THEN e.room + len ELSE e.room
    OBVIOUS
  <2>2. len \in Nat
    BY <1>1, <1>3, <1>5
  <2>3. room \in Nat /\ room >= e.room /\ room >= g + len
    <3>1. PICK old \in Nat : old = e.room
      BY <1>1
    <3>2. g <= old /\ room = IF len > old - g THEN old + len ELSE old
      BY <1>1, <2>1, <3>1
    <3>3. room \in Nat /\ room >= old /\ room >= g + len
      BY <1>1, <2>2, <3>2, RoomForPrefill
    <3>. QED  BY <3>1, <3>3
  <2>4. PICK x : x = [e EXCEPT !.room = room]
    OBVIOUS
  <2>5. /\ Sound(c, x, g, q) /\ x.room = room /\ x.step = g + q /\ x.ranDecode = FALSE
    BY <2>3, <2>4, RoomAdded
  <2>6. ~HasPending(e.tokens) /\ len = 0 => q = 0 /\ k = 0
    BY <1>1, <1>2, <1>3, <1>5
  <2>7. r = PrefillRun(x, ids, fail)
    BY <1>2, <1>4, <1>7, <2>1, <2>4, <2>6 DEF PrefillDynamic
  <2>8. x.room >= g + q + Len(ids) - 1
    BY <1>1, <1>3, <1>5, <2>3, <2>5
  <2>9. PICK h : h = g + q + Len(ids) - 1
    OBVIOUS
  <2>10. /\ x.ranDecode = FALSE /\ x.step = g + q
         /\ c.dynamic => x.room >= h
    BY <2>5, <2>8, <2>9
  <2>11. Filled(c, r, h) /\ (fail = FALSE => r.ok = TRUE)
    BY <2>5, <2>7, <2>9, <2>10, PrefillRunIs
  <2>. QED  BY <2>11
<1>. QED  BY <1>6, <1>7

PartDone(c, e, g, q, ids, fail, r, h) ==
    \/ Filled(c, r, h) /\ (fail = FALSE => r.ok = TRUE)
    \/ Stored(c, r, h) /\ c.dynamic /\ Len(ids) = 1 /\ ~(e.step = g + q /\ q = 1)

LEMMA PrefillInternalIs ==
    ASSUME NEW c, Built(c), NEW e, NEW g, NEW q, Sound(c, e, g, q), c.sampler # "npu",
           ~e.ranDecode, e.step <= g + q, NEW ids \in Seq(Int), ids # <<>>,
           NEW fail \in BOOLEAN, NEW r, r = PrefillInternal(c, e, ids, fail)
    PROVE  \E h : PartDone(c, e, g, q, ids, fail, r, h)
<1>1. PICK b : b = RollBackProcessedTokens(e)
  OBVIOUS
<1>2. Width(c, e) = 1
  BY DEF Width
<1>3. PICK m, p : RolledBack(c, e, b, g, q, m, p)
  BY <1>1, <1>2, RollBackIs
<1>4. PICK x : x = b.e
  OBVIOUS
<1>5. /\ b.ok /\ m \in Nat /\ p \in 0..1 /\ Sound(c, x, m, p)
      /\ x.step = m + p /\ x.ranDecode = FALSE /\ (e.step = g + q => p = q)
  <2>1. g \in Nat /\ q \in 0..1 /\ e.step \in Nat
    BY SoundFacts
  <2>2. e.step = g + q => e.step >= g + q
    BY <2>1
  <2>. QED  BY <1>3, <1>4, <2>2 DEF RolledBack
<1>6. CASE c.dynamic
  <2>1. r = PrefillDynamic(x, ids, fail)
    BY <1>1, <1>4, <1>5, <1>6 DEF PrefillInternal
  <2>2. PICK h : \/ Filled(c, r, h) /\ (fail = FALSE => r.ok = TRUE)
                 \/ Stored(c, r, h) /\ p = 0 /\ Len(ids) = 1
    BY <1>5, <1>6, <2>1, PrefillDynamicIs
  <2>3. p = 0 => ~(e.step = g + q /\ q = 1)
    BY <1>5
  <2>. QED  BY <1>6, <2>2, <2>3 DEF PartDone
<1>7. CASE ~c.dynamic
  <2>1. r = PrefillRun(x, ids, fail)
    BY <1>1, <1>4, <1>5, <1>7 DEF PrefillInternal
  <2>2. PICK h : h = m + p + Len(ids) - 1 /\ (c.dynamic => x.room >= h)
    BY <1>7
  <2>3. Filled(c, r, h) /\ (fail = FALSE => r.ok = TRUE)
    BY <1>5, <2>1, <2>2, PrefillRunIs
  <2>. QED  BY <2>3 DEF PartDone
<1>. QED  BY <1>6, <1>7

\* A prefill leaves one token pending.  It has been counted, unless the dynamic
\* executor has stored it: that takes a part of one token with none pending.
Prefilled(c, r, h) ==
    /\ r.ok \in BOOLEAN /\ h \in Nat /\ Sound(c, r.e, h, 1)
    /\ r.e.step = h \/ r.e.step = h + 1
    /\ r.e.ranDecode = FALSE /\ r.e.ahead = FALSE

LEMMA FilledOrStored ==
    ASSUME NEW c, NEW r, NEW h, Filled(c, r, h) \/ Stored(c, r, h)
    PROVE  Prefilled(c, r, h)
<1>1. CASE Filled(c, r, h)
  BY <1>1 DEF Filled, Prefilled
<1>2. CASE Stored(c, r, h)
  BY <1>2 DEF Stored, Prefilled
<1>. QED  BY <1>1, <1>2

PrefillLeft(c, e, g, q, ids, cut, failAt, r, h) ==
    /\ Prefilled(c, r, h) /\ (failAt = 0 => r.ok = TRUE)
    /\ \/ ~c.dynamic
       \/ Len(ids) >= 2 /\ cut # 1
       \/ e.step = g + q /\ q = 1
       => r.e.step = h + 1

LEMMA PrefillIs ==
    ASSUME NEW c, Built(c), NEW e, NEW g, NEW q, Sound(c, e, g, q), c.sampler # "npu",
           e.step <= g + q, NEW ids \in Seq(Int), NEW cut \in Nat, cut < Len(ids),
           NEW failAt, NEW r, r = Prefill(c, e, ids, cut, failAt)
    PROVE  \E h : PrefillLeft(c, e, g, q, ids, cut, failAt, r, h)
<1>1. PICK x : x = PrepareFirstPrefillAfterDecode(e)
  OBVIOUS
<1>2. Sound(c, x, g, q) /\ x.step = e.step /\ ~x.ranDecode
  <2>1. Prepared(c, e, g, q, x, FALSE)
    BY <1>1, PreparePrefillIs
  <2>. QED  BY <2>1 DEF Prepared
<1>3. PICK f1 \in BOOLEAN, f2 \in BOOLEAN : f1 = (failAt = 1) /\ f2 = (failAt = 2)
  OBVIOUS
<1>4. failAt = 0 => f1 = FALSE /\ f2 = FALSE
  <2>1. 0 # 1 /\ 0 # 2
    OBVIOUS
  <2>. QED  BY <1>3, <2>1, Zenon
<1>5. PICK front, rest : front = SubSeq(ids, 1, cut) /\ rest = SubSeq(ids, cut + 1, Len(ids))
  OBVIOUS
<1>6. PICK a, b : a = PrefillInternal(c, x, front, f1) /\ b = PrefillInternal(c, a.e, rest, f2)
  OBVIOUS
<1>7. CASE cut = 0
  <2>1. r = PrefillInternal(c, x, ids, f1)
    BY <1>1, <1>3, <1>7 DEF Prefill
  <2>2. ids # <<>>
    OBVIOUS
  <2>3. x.step <= g + q
    BY <1>2
  <2>4. PICK h : PartDone(c, x, g, q, ids, f1, r, h)
    BY <1>2, <2>1, <2>2, <2>3, PrefillInternalIs
  <2>5. CASE Filled(c, r, h) /\ (f1 = FALSE => r.ok = TRUE)
    BY <1>4, <2>5, FilledOrStored DEF Filled, PrefillLeft
  <2>6. CASE Stored(c, r, h) /\ c.dynamic /\ Len(ids) = 1 /\ ~(x.step = g + q /\ q = 1)
    <3>1. Prefilled(c, r, h) /\ r.ok = TRUE
      BY <2>6, FilledOrStored DEF Stored
    <3>2. ~(~c.dynamic \/ (Len(ids) >= 2 /\ cut # 1) \/ (e.step = g + q /\ q = 1))
      BY <1>2, <2>6
    <3>. QED  BY <3>1, <3>2 DEF PrefillLeft
  <2>. QED  BY <2>4, <2>5, <2>6 DEF PartDone
<1>8. CASE cut # 0
  <2>1. front \in Seq(Int) /\ Len(front) = cut /\ front # <<>>
    <3>1. cut \in 1..Len(ids)
      BY <1>8
    <3>2. front \in Seq(Int) /\ Len(front) = cut
      BY <1>5, <3>1
    <3>. QED  BY <1>8, <3>2
  <2>2. rest \in Seq(Int) /\ rest # <<>>
    <3>1. rest \in Seq(Int)
      BY <1>5
    <3>2. Len(rest) = Len(ids) - cut
      BY <1>5
    <3>3. Len(rest) # 0
      BY <3>2
    <3>. QED  BY <3>1, <3>3
  <2>3. x.step <= g + q
    BY <1>2
  <2>4a. PICK m : PartDone(c, x, g, q, front, f1, a, m)
    BY <1>2, <1>6, <2>1, <2>3, PrefillInternalIs
  <2>4. \/ Filled(c, a, m) /\ (f1 = FALSE => a.ok = TRUE)
        \/ Stored(c, a, m) /\ c.dynamic /\ Len(front) = 1 /\ ~(x.step = g + q /\ q = 1)
    BY <2>4a DEF PartDone
  <2>5. Prefilled(c, a, m) /\ (f1 = FALSE => a.ok = TRUE)
    <3>1. Prefilled(c, a, m)
      BY <2>4, FilledOrStored
    <3>2. Stored(c, a, m) => a.ok = TRUE
      BY DEF Stored
    <3>. QED  BY <2>4, <3>1, <3>2
  <2>6. CASE ~a.ok
    <3>1. r = a
      BY <1>1, <1>3, <1>5, <1>6, <1>8, <2>6 DEF Prefill
    <3>2. r.ok # TRUE /\ failAt # 0
      BY <1>4, <2>5, <2>6, <3>1
    <3>3. Filled(c, a, m)
      BY <2>4, <2>6 DEF Stored
    <3>4. r.e.step = m + 1
      BY <3>1, <3>3 DEF Filled
    <3>. QED  BY <2>5, <3>1, <3>2, <3>4 DEF PrefillLeft
  <2>7. CASE a.ok
    <3>1. r = b
      BY <1>1, <1>3, <1>5, <1>6, <1>8, <2>7 DEF Prefill
    <3>2. PICK y : y = a.e
      OBVIOUS
    <3>3. /\ Sound(c, y, m, 1) /\ ~y.ranDecode /\ m \in Nat /\ y.step <= m + 1
          /\ b = PrefillInternal(c, y, rest, f2)
      BY <1>6, <2>5, <3>2 DEF Prefilled
    <3>4. PICK h : PartDone(c, y, m, 1, rest, f2, b, h)
      BY <2>2, <3>3, PrefillInternalIs
    <3>5. CASE Filled(c, b, h) /\ (f2 = FALSE => b.ok = TRUE)
      BY <1>4, <3>1, <3>5, FilledOrStored DEF Filled, PrefillLeft
    <3>6. CASE Stored(c, b, h) /\ y.step # m + 1
      <4>1. Prefilled(c, r, h) /\ r.ok = TRUE
        BY <3>1, <3>6, FilledOrStored DEF Stored
      <4>2. ~Filled(c, a, m)
        BY <3>2, <3>6 DEF Filled
      <4>3. c.dynamic /\ cut = 1 /\ ~(e.step = g + q /\ q = 1)
        BY <1>2, <2>1, <2>4, <4>2
      <4>. QED  BY <4>1, <4>3 DEF PrefillLeft
    <3>. QED  BY <3>4, <3>5, <3>6 DEF PartDone
  <2>8. a.ok \in BOOLEAN
    BY <2>5 DEF Prefilled
  <2>. QED  BY <2>6, <2>7, <2>8
<1>. QED  BY <1>7, <1>8

LEMMA NpuPrefillInternalIs ==
    ASSUME NEW c, Built(c), NEW e, NEW g, NEW q, Sound(c, e, g, q), c.sampler = "npu",
           NEW ids \in Seq(Int), ids # <<>>, NEW fail \in BOOLEAN,
           NEW r, r = NpuPrefillInternal(e, ids, fail)
    PROVE  \E h : Filled(c, r, h) /\ (fail = FALSE => r.ok = TRUE)
<1>1. /\ ~c.dynamic /\ e.step = g + q /\ e.ranDecode = FALSE
      /\ Candidates(e.tokens, e.kv, Width(c, e), g, q)
  <2>1. ~c.dynamic
    BY DEF Built
  <2>2. e.step = g + q /\ ~e.ranDecode /\ e.ranDecode \in BOOLEAN
    BY SoundFacts DEF Sound
  <2>3. Candidates(e.tokens, e.kv, Width(c, e), g, q)
    BY SoundFacts
  <2>. QED  BY <2>1, <2>2, <2>3
<1>2. NpuRollBack(e) = e
  BY <1>1 DEF NpuRollBack, Candidates
<1>3. PICK b : b = PrefillRun(e, ids, fail)
  OBVIOUS
<1>4. PICK h : h = g + q + Len(ids) - 1 /\ (c.dynamic => e.room >= h)
  BY <1>1
<1>5. Filled(c, b, h) /\ (fail = FALSE => b.ok = TRUE)
  BY <1>1, <1>3, <1>4, PrefillRunIs
<1>6. CASE fail
  <2>1. r = Err(b.e)
    BY <1>2, <1>3, <1>6 DEF NpuPrefillInternal
  <2>2. r.ok = FALSE /\ r.e = b.e
    BY <2>1 DEF Err
  <2>3. Filled(c, r, h)
    BY <1>5, <2>2 DEF Filled
  <2>. QED  BY <1>6, <2>3
<1>7. CASE ~fail
  <2>1. r = b
    BY <1>2, <1>3, <1>7 DEF NpuPrefillInternal
  <2>. QED  BY <1>5, <2>1
<1>. QED  BY <1>6, <1>7

LEMMA NpuPrefillIs ==
    ASSUME NEW c, Built(c), NEW e, NEW g, NEW q, Sound(c, e, g, q), c.sampler = "npu",
           NEW ids \in Seq(Int), NEW cut \in Nat, cut < Len(ids),
           NEW failAt, NEW r, r = NpuPrefill(e, ids, cut, failAt)
    PROVE  \E h : Filled(c, r, h) /\ (failAt = 0 => r.ok = TRUE)
<1>1. PICK f1 \in BOOLEAN, f2 \in BOOLEAN : f1 = (failAt = 1) /\ f2 = (failAt = 2)
  OBVIOUS
<1>2. failAt = 0 => f1 = FALSE /\ f2 = FALSE
  <2>1. 0 # 1 /\ 0 # 2
    OBVIOUS
  <2>. QED  BY <1>1, <2>1, Zenon
<1>3. PICK front, rest : front = SubSeq(ids, 1, cut) /\ rest = SubSeq(ids, cut + 1, Len(ids))
  OBVIOUS
<1>4. PICK a, b : a = NpuPrefillInternal(e, front, f1) /\ b = NpuPrefillInternal(a.e, rest, f2)
  OBVIOUS
<1>5. CASE cut = 0
  <2>1. r = NpuPrefillInternal(e, ids, f1) /\ ids # <<>>
    BY <1>1, <1>5 DEF NpuPrefill
  <2>2. PICK h : Filled(c, r, h) /\ (f1 = FALSE => r.ok = TRUE)
    BY <2>1, NpuPrefillInternalIs
  <2>. QED  BY <1>2, <2>2
<1>6. CASE cut # 0
  <2>1. front \in Seq(Int) /\ Len(front) = cut /\ front # <<>>
    <3>1. cut \in 1..Len(ids)
      BY <1>6
    <3>2. front \in Seq(Int) /\ Len(front) = cut
      BY <1>3, <3>1
    <3>. QED  BY <1>6, <3>2
  <2>2. rest \in Seq(Int) /\ rest # <<>>
    <3>1. rest \in Seq(Int)
      BY <1>3
    <3>2. Len(rest) = Len(ids) - cut
      BY <1>3
    <3>3. Len(rest) # 0
      BY <3>2
    <3>. QED  BY <3>1, <3>3
  <2>3. PICK m : Filled(c, a, m) /\ (f1 = FALSE => a.ok = TRUE)
    BY <1>4, <2>1, NpuPrefillInternalIs
  <2>4. a.ok \in BOOLEAN
    BY <2>3 DEF Filled
  <2>5. CASE ~a.ok
    <3>1. r = a
      BY <1>1, <1>3, <1>4, <1>6, <2>5 DEF NpuPrefill
    <3>2. a.ok # TRUE
      BY <2>5
    <3>. QED  BY <1>2, <2>3, <3>1, <3>2
  <2>6. CASE a.ok
    <3>1. r = b
      BY <1>1, <1>3, <1>4, <1>6, <2>6 DEF NpuPrefill
    <3>2. PICK y : y = a.e
      OBVIOUS
    <3>3. Sound(c, y, m, 1) /\ b = NpuPrefillInternal(y, rest, f2)
      BY <1>4, <2>3, <3>2 DEF Filled
    <3>4. PICK h : Filled(c, b, h) /\ (f2 = FALSE => b.ok = TRUE)
      BY <2>2, <3>3, NpuPrefillInternalIs
    <3>. QED  BY <1>2, <3>1, <3>4
  <2>. QED  BY <2>4, <2>5, <2>6
<1>. QED  BY <1>5, <1>6

\* Without its pending token, a candidate still holds the processed ones.
LEMMA InvalidateIs ==
    ASSUME NEW ts, NEW kv, NEW n \in Nat \ {0}, NEW g \in Nat, NEW q \in 0..1,
           Holding(ts, kv, n, g, q), NEW u, u = InvalidatePending(ts)
    PROVE  Holding(u, kv, n, g, 0)
<1>0. Candidates(ts, kv, n, g, q)
  BY HoldingFacts
<1>1. u = [i \in 1..n |-> [ids |-> ts[i].ids, pending |-> <<>>]]
  <2>1. ASSUME NEW i \in 1..n
        PROVE  [ts[i] EXCEPT !.pending = <<>>] = [ids |-> ts[i].ids, pending |-> <<>>]
    <3>1. ts[i] = [ids |-> ts[i].ids, pending |-> ts[i].pending]
      BY <1>0 DEF Candidates
    <3>. QED  BY <3>1, PendingExcept
  <2>2. u = [i \in 1..n |-> [ts[i] EXCEPT !.pending = <<>>]]
    BY <1>0 DEF Candidates, InvalidatePending
  <2>. QED  BY <2>1, <2>2, Zenon
<1>2. u \in Seq(TokSet) /\ Len(u) = n
  <2>1. <<>> \in Seq(Int) /\ n \in Nat
    OBVIOUS
  <2>2. ASSUME NEW i \in 1..n  PROVE u[i] \in TokSet
    <3>1. ts[i].ids \in Seq(Int)
      BY <1>0 DEF Candidates
    <3>2. u[i] = [ids |-> ts[i].ids, pending |-> <<>>]
      BY <1>1
    <3>. QED  BY <2>1, <3>1, <3>2, IsCandidate
  <2>3. u = [i \in 1..n |-> u[i]]
    BY <1>1
  <2>. QED  BY <2>1, <2>2, <2>3, IsSequence
<1>3. \A i \in 1..n : u[i].ids = ts[i].ids /\ u[i].pending = <<>> /\ Len(u[i].pending) = 0
  BY <1>1
<1>4. \A i \in 1..n : Len(ts[i].ids) = g /\ Held(ts[i].ids, kv[i])
  BY DEF Holding
<1>5. kv \in Seq(Seq(Mark)) /\ Len(kv) = n
  BY DEF Holding
<1>. QED  BY <1>2, <1>3, <1>4, <1>5 DEF Holding

\* The tokens a decode is given: those of the caller, unless it has none.
Given(ts, given, u, q, p) ==
    \/ (given = <<>> \/ given[1] < 0) /\ u = ts /\ p = q
    \/ given # <<>> /\ given[1] >= 0 /\ p = 1

LEMMA GivenIs ==
    ASSUME NEW ts, NEW kv, NEW n \in Nat \ {0}, NEW g \in Nat, NEW q \in 0..1,
           Holding(ts, kv, n, g, q),
           NEW given \in Seq(Int), given = <<>> \/ Len(given) >= n,
           NEW u, u = TokensToDecode(ts, given)
    PROVE  \E p \in 0..1 : Holding(u, kv, n, g, p) /\ Given(ts, given, u, q, p)
<1>1. CASE given = <<>> \/ given[1] < 0
  <2>1. u = ts
    BY <1>1 DEF TokensToDecode
  <2>. QED  BY <1>1, <2>1 DEF Given
<1>2. CASE ~(given = <<>> \/ given[1] < 0)
  <2>1. PICK v : v = InvalidatePending(ts)
    OBVIOUS
  <2>2. Holding(v, kv, n, g, 0) /\ 0 \in 0..1 /\ Len(given) >= n
    BY <1>2, <2>1, InvalidateIs
  <2>3. u = AddPending(v, given)
    BY <1>2, <2>1 DEF TokensToDecode
  <2>4. Holding(u, kv, n, g, 1)
    BY <2>2, <2>3, AddPendingIs DEF PendingAdded
  <2>5. given[1] \in Int
    BY <1>2
  <2>. QED  BY <1>2, <2>4, <2>5 DEF Given
<1>. QED  BY <1>1, <1>2

\* The run of the pending tokens.
PendingRun(ts, kv, rows, n, g, q) ==
    /\ rows \in Seq(Seq(Mark)) /\ Len(rows) = n
    /\ \A i \in 1..n : /\ Held(ts[i].ids \o ts[i].pending, rows[i])
                       /\ Len(rows[i]) = Len(kv[i]) \/ Len(rows[i]) = g + q

LEMMA RunPendingIs ==
    ASSUME NEW ts, NEW kv, NEW n \in Nat \ {0}, NEW g \in Nat, NEW q \in 0..1,
           Holding(ts, kv, n, g, q),
           NEW rows, rows = [i \in DOMAIN kv |-> WriteKv(kv[i], g, ts[i].pending)]
    PROVE  PendingRun(ts, kv, rows, n, g, q)
<1>0. Candidates(ts, kv, n, g, q)
  BY HoldingFacts
<1>1. rows = [i \in 1..n |-> WriteKv(kv[i], g, ts[i].pending)]
  BY <1>0 DEF Candidates
<1>2. ASSUME NEW i \in 1..n
      PROVE  /\ rows[i] \in Seq(Mark) /\ Held(ts[i].ids \o ts[i].pending, rows[i])
             /\ Len(rows[i]) = Len(kv[i]) \/ Len(rows[i]) = g + q
  <2>1. PICK ids, pend, row, w : /\ ids = ts[i].ids /\ pend = ts[i].pending /\ row = kv[i]
                                 /\ w = WriteKv(row, g, pend)
    OBVIOUS
  <2>2. /\ ids \in Seq(Int) /\ Len(ids) = g /\ pend \in Seq(Int) /\ Len(pend) = q
        /\ row \in Seq(Mark) /\ Held(ids, row)
    BY <1>0, <2>1 DEF Candidates
  <2>3. pend \in Seq(Mark) /\ Len(pend) >= Len(pend) /\ \A j \in 1..Len(pend) : pend[j] \in {pend[j], Lost}
    BY <2>2, TokensAreMarks
  <2>4. Held(ids \o pend, w)
    BY <2>1, <2>2, <2>3, HeldMore
  <2>5. w \in Seq(Mark) /\ (Len(w) = Len(row) \/ Len(w) = g + Len(pend))
    BY <2>1, <2>2, <2>3, WriteLength
  <2>6. rows[i] = w
    BY <1>1, <2>1
  <2>. QED  BY <2>1, <2>2, <2>4, <2>5, <2>6
<1>3. rows \in Seq(Seq(Mark)) /\ Len(rows) = n
  <2>1. rows = [i \in 1..n |-> rows[i]] /\ n \in Nat
    BY <1>1
  <2>. QED  BY <1>2, <2>1, IsSequence
<1>. QED  BY <1>2, <1>3 DEF PendingRun

\* The room the dynamic executor has for one more token.
LEMMA RoomForDecode ==
    ASSUME NEW c, Built(c), NEW e, NEW g, NEW q, Sound(c, e, g, q),
           NEW m, m = DecodeRoom(c, e)
    PROVE  m \in Nat /\ m >= e.room /\ (c.dynamic /\ e.room # 0 /\ e.step = g + 1 => m >= g + 1)
<1>1. /\ e.room \in Nat /\ e.step \in Nat /\ g \in Nat /\ c.increment \in Nat /\ c.increment > 0
  BY SoundFacts DEF Built
<1>2. c.dynamic => g <= e.room
  BY RoomForTokens
<1>3. CASE c.dynamic /\ e.room \in 1..(e.step - 1)
  <2>1. m = e.room + c.increment
    BY <1>3 DEF DecodeRoom
  <2>. QED  BY <1>1, <1>2, <1>3, <2>1
<1>4. CASE ~(c.dynamic /\ e.room \in 1..(e.step - 1))
  <2>1. m = e.room
    BY <1>4 DEF DecodeRoom
  <2>2. c.dynamic /\ e.room # 0 /\ e.step = g + 1 => m >= g + 1
    BY <1>1, <1>4, <2>1
  <2>. QED  BY <1>1, <2>1, <2>2
<1>. QED  BY <1>3, <1>4

\* What a run of one token has left, its sampled one not yet known.
RunDone(c, x, g) ==
    /\ x \in ExecSet /\ g \in Nat /\ Holding(x.tokens, x.kv, c.heads, g, 0)
    /\ x.step = g + 1 /\ x.ranDecode = TRUE
    /\ x.ahead => c.sampler = "ahead"
    /\ c.dynamic => \A i \in 1..Len(x.kv) : Len(x.kv[i]) <= x.room
    /\ c.sampler # "npu"

\* What a run that has failed leaves, past its tokens only if `past' allows it.
Failed(c, x, past) ==
    \E h, p : Sound(c, x, h, p) /\ (x.step = h + p + 1 => past = TRUE)

\* A decode has run, or has failed and left what there was.
Decoded(c, e, past, r) ==
    \/ /\ r.ok = TRUE /\ \E h : RunDone(c, r.e, h)
       /\ r.e.ahead => e.ahead
    \/ r.ok = FALSE /\ r.e.step = e.step /\ Failed(c, r.e, past)

LEMMA DecodeInternalIs ==
    ASSUME NEW c, Built(c), NEW x, NEW h, NEW p, Sound(c, x, h, p), x.ranDecode,
           x.step >= h + p,
           NEW given \in Seq(Int), given = <<>> \/ Len(given) >= c.heads,
           given = <<>> \/ given[1] < 0 \/ (x.step = h + 1 /\ ~x.ahead),
           NEW past \in BOOLEAN,
           x.step = h + p + 1 /\ (given = <<>> \/ given[1] < 0) => past = TRUE,
           NEW fail \in BOOLEAN, NEW r0, r0.ok, r0.e = x,
           NEW r, r = DecodeInternal(c, r0, given, fail)
    PROVE  Decoded(c, x, past, r)
<1>1. PICK n, u, m : n = c.heads /\ u = TokensToDecode(x.tokens, given) /\ m = DecodeRoom(c, x)
  OBVIOUS
<1>2. /\ n \in Nat \ {0} /\ h \in Nat /\ p \in 0..1 /\ x \in ExecSet /\ Width(c, x) = n
      /\ Holding(x.tokens, x.kv, n, h, p)
      /\ x.step \in Nat /\ x.room \in Nat /\ x.ranDecode = TRUE /\ x.ahead \in BOOLEAN
  <2>1. n \in Nat \ {0} /\ Width(c, x) = n
    BY <1>1 DEF Built, Width
  <2>2. x.ranDecode \in BOOLEAN
    BY SoundFacts
  <2>. QED  BY <2>1, <2>2, SoundFacts DEF Sound
<1>3. m \in Nat /\ m >= x.room /\ (c.dynamic /\ x.room # 0 /\ x.step = h + 1 => m >= h + 1)
  BY <1>1, RoomForDecode
<1>4. PICK s : /\ Holding(u, x.kv, n, h, s) /\ s \in 0..1
               /\ \/ (given = <<>> \/ given[1] < 0) /\ u = x.tokens /\ s = p
                  \/ given # <<>> /\ given[1] >= 0 /\ s = 1
  <2>1. PICK ts, kv : ts = x.tokens /\ kv = x.kv
    OBVIOUS
  <2>2. Holding(ts, kv, n, h, p) /\ (given = <<>> \/ Len(given) >= n) /\ u = TokensToDecode(ts, given)
    BY <1>1, <1>2, <2>1
  <2>3. PICK s \in 0..1 : Holding(u, kv, n, h, s) /\ Given(ts, given, u, p, s)
    BY <1>2, <2>2, GivenIs
  <2>. QED  BY <2>1, <2>3 DEF Given
<1>5. PICK y : y = [x EXCEPT !.tokens = u, !.room = m]
  OBVIOUS
<1>6. u \in Seq(TokSet)
  BY <1>4 DEF Holding
<1>7. /\ y \in ExecSet /\ y.tokens = u /\ y.kv = x.kv /\ y.room = m /\ y.step = x.step
      /\ y.ranDecode = TRUE /\ y.ahead = x.ahead
  BY <1>2, <1>3, <1>5, <1>6 DEF ExecSet
<1>8. Width(c, y) = n
  BY <1>1, <1>7 DEF Width
<1>9. c.dynamic => \A i \in 1..Len(x.kv) : Len(x.kv[i]) <= m
  <2>1. CASE c.dynamic
    <3>1. ASSUME NEW i \in 1..Len(x.kv)  PROVE Len(x.kv[i]) <= m
      <4>1. Len(x.kv[i]) <= x.room
        BY <2>1 DEF Sound
      <4>2. Len(x.kv[i]) \in Nat
        BY <1>2 DEF ExecSet
      <4>. QED  BY <1>2, <1>3, <4>1, <4>2
    <3>. QED  BY <3>1
  <2>. QED  BY <2>1
<1>10. given # <<>> /\ given[1] >= 0 => x.step = h + 1 /\ ~x.ahead
  <2>1. given # <<>> => given[1] \in Int
    OBVIOUS
  <2>. QED  BY <2>1
<1>11. x.step <= h + p + 1 /\ (x.step = h + p + 1 => p = 0)
  BY DEF Sound
<1>12. x.ahead => /\ c.sampler = "ahead" /\ u = x.tokens /\ s = 1
                  /\ \A i \in 1..Len(u) : Held(u[i].ids \o u[i].pending, x.kv[i])
  <2>1. CASE x.ahead
    <3>1. /\ c.sampler = "ahead" /\ p = 1
          /\ \A i \in 1..Len(x.tokens) : Held(x.tokens[i].ids \o x.tokens[i].pending, x.kv[i])
      BY <2>1 DEF Sound
    <3>2. u = x.tokens /\ s = p
      BY <1>4, <1>10, <2>1
    <3>. QED  BY <3>1, <3>2
  <2>. QED  BY <2>1
<1>13. c.sampler # "npu"
  BY DEF Sound
<1>14. Sound(c, y, h, s) /\ y.step = x.step /\ (y.step = h + s + 1 => past = TRUE)
  <2>1. x.step <= h + s + 1 /\ (x.step = h + s + 1 => s = 0 /\ past = TRUE)
    <3>1. CASE (given = <<>> \/ given[1] < 0) /\ s = p
      BY <1>2, <1>11, <3>1
    <3>2. CASE given # <<>> /\ given[1] >= 0 /\ s = 1
      BY <1>2, <1>10, <3>2
    <3>. QED  BY <1>4, <3>1, <3>2
  <2>. QED  BY <1>2, <1>4, <1>7, <1>8, <1>9, <1>12, <1>13, <2>1 DEF Sound
<1>15. CASE r = Err(y)
  BY <1>14, <1>15 DEF Err, Decoded, Failed
<1>16. CASE r # Err(y)
  <2>1. PICK us, rows, kv : /\ us = MarkPendingAsProcessed(u)
                            /\ rows = [i \in DOMAIN x.kv |-> WriteKv(x.kv[i], x.step - 1, u[i].pending)]
                            /\ kv = IF x.ahead THEN x.kv ELSE rows
    OBVIOUS
  <2>2. PICK z : z = [y EXCEPT !.tokens = us, !.kv = kv, !.step = x.step + 1]
    OBVIOUS
  <2>3. /\ r = Ok(z) /\ ~(c.dynamic /\ x.room = 0) /\ (x.ahead \/ HasPending(u))
    BY <1>1, <1>5, <1>7, <1>16, <2>1, <2>2 DEF DecodeInternal
  <2>4. s = 1
    <3>1. Candidates(u, x.kv, n, h, s)
      BY <1>2, <1>4, HoldingFacts
    <3>2. HasPending(u) => s = 1
      BY <3>1 DEF Candidates
    <3>. QED  BY <1>12, <2>3, <3>2
  <2>5. x.step = h + 1
    <3>1. CASE s = p
      BY <1>2, <1>11, <2>4, <3>1
    <3>2. CASE given # <<>> /\ given[1] >= 0
      BY <1>10, <3>2
    <3>. QED  BY <1>4, <3>1, <3>2
  <2>6. /\ rows \in Seq(Seq(Mark)) /\ Len(rows) = n
        /\ \A i \in 1..n : /\ Held(u[i].ids \o u[i].pending, rows[i])
                           /\ Len(rows[i]) = Len(x.kv[i]) \/ Len(rows[i]) = h + 1
    <3>1. rows = [i \in DOMAIN x.kv |-> WriteKv(x.kv[i], h, u[i].pending)]
      BY <1>2, <2>1, <2>5
    <3>2. PICK old : old = x.kv
      OBVIOUS
    <3>3. /\ rows = [i \in DOMAIN old |-> WriteKv(old[i], h, u[i].pending)]
          /\ Holding(u, old, n, h, 1) /\ 1 \in 0..1
      BY <1>4, <2>4, <3>1, <3>2
    <3>4. PendingRun(u, old, rows, n, h, 1)
      BY <1>2, <3>3, RunPendingIs
    <3>. QED  BY <3>2, <3>4 DEF PendingRun
  <2>7. /\ kv \in Seq(Seq(Mark)) /\ Len(kv) = n
        /\ \A i \in 1..n : Held(u[i].ids \o u[i].pending, kv[i])
    <3>1. CASE x.ahead
      <4>1. kv = x.kv /\ Len(u) = n /\ x.kv \in Seq(Seq(Mark)) /\ Len(x.kv) = n
        BY <1>4, <2>1, <3>1 DEF Holding
      <4>. QED  BY <1>12, <3>1, <4>1
    <3>2. CASE ~x.ahead
      BY <2>1, <2>6, <3>2
    <3>. QED  BY <3>1, <3>2
  <2>8. PICK k \in Nat : k = h + 1
    BY <1>2
  <2>9. Holding(us, kv, n, k, 0)
    <3>1. Holding(u, x.kv, n, h, 1) /\ 1 \in 0..1
      BY <1>4, <2>4
    <3>2. Holding(us, kv, n, h + 1, 0)
      BY <1>2, <2>1, <2>7, <3>1, MarkPendingIs
    <3>. QED  BY <2>8, <3>2
  <2>10. us \in Seq(TokSet) /\ x.step + 1 \in Nat
    BY <1>2, <2>9 DEF Holding
  <2>11. /\ z \in ExecSet /\ z.tokens = us /\ z.kv = kv /\ z.room = m /\ z.step = x.step + 1
         /\ z.ranDecode = TRUE /\ z.ahead = x.ahead
    BY <1>7, <2>2, <2>7, <2>10 DEF ExecSet
  <2>12. c.dynamic => \A i \in 1..Len(kv) : Len(kv[i]) <= m
    <3>1. CASE c.dynamic
      <4>1. ~x.ahead /\ Len(x.kv) = n
        <5>1. c.sampler # "ahead"
          BY <3>1 DEF Built
        <5>2. Len(x.kv) = n
          BY <1>2 DEF Holding
        <5>. QED  BY <1>12, <5>1, <5>2
      <4>2. kv = rows /\ m >= h + 1
        BY <1>3, <2>1, <2>3, <2>5, <3>1, <4>1
      <4>3. ASSUME NEW i \in 1..n  PROVE Len(rows[i]) <= m
        <5>1. Len(x.kv[i]) <= m
          BY <1>9, <3>1, <4>1
        <5>2. Len(rows[i]) = Len(x.kv[i]) \/ Len(rows[i]) = h + 1
          BY <2>6
        <5>. QED  BY <1>2, <1>3, <4>2, <5>1, <5>2
      <4>. QED  BY <2>6, <4>2, <4>3
    <3>. QED  BY <3>1
  <2>13. RunDone(c, z, k)
    <3>1. z.step = k + 1
      BY <2>5, <2>8, <2>11
    <3>. QED  BY <1>1, <1>12, <1>13, <2>8, <2>9, <2>11, <2>12, <3>1 DEF RunDone
  <2>. QED  BY <2>3, <2>11, <2>13 DEF Decoded, Ok
<1>. QED  BY <1>15, <1>16

LEMMA DecodeLogitsIs ==
    ASSUME NEW c, Built(c), NEW e, NEW g, NEW q, Sound(c, e, g, q), c.sampler # "npu",
           c.heads = 1 \/ e.step >= g + q,
           NEW given \in Seq(Int), given = <<>> \/ Len(given) >= c.heads,
           given = <<>> \/ given[1] < 0 \/ (e.step = g + 1 /\ ~e.ahead),
           NEW past \in BOOLEAN,
           e.step = g + q + 1 /\ (given = <<>> \/ given[1] < 0) => past = TRUE,
           NEW fail \in BOOLEAN, NEW r, r = DecodeLogits(c, e, given, fail)
    PROVE  Decoded(c, e, past, r)
<1>1. PICK y, b, x : /\ y = PrepareFirstDecode(c, e) /\ b = RollBackProcessedTokens(y)
                     /\ x = b.e
  OBVIOUS
<1>2. Prepared(c, e, g, q, y, TRUE)
  BY <1>1, PrepareDecodeIs
<1>3. /\ Sound(c, y, g, q) /\ y.step = e.step /\ y.ranDecode = TRUE /\ (~e.ahead => ~y.ahead)
      /\ g \in Nat /\ q \in 0..1 /\ y.step \in Nat
  <2>1. Sound(c, y, g, q)
    BY <1>2 DEF Prepared
  <2>. QED  BY <1>2, <2>1, SoundFacts DEF Prepared
<1>4. Width(c, y) = 1 \/ y.step >= g + q
  BY <1>3 DEF Width
<1>5. PICK h, p : RolledBack(c, y, b, g, q, h, p)
  BY <1>1, <1>3, <1>4, RollBackIs
<1>6. /\ b.ok /\ h \in Nat /\ p \in 0..1 /\ Sound(c, x, h, p) /\ x.ranDecode /\ x.step = e.step
      /\ e.step <= g + q => e.step = h + p
      /\ e.step >= g + q => h = g /\ p = q
      /\ e.step = g + q => x = y
      /\ e.step # g + q => ~x.ahead
  BY <1>1, <1>3, <1>5 DEF RolledBack
<1>7. x.step >= h + p
  BY <1>3, <1>6
<1>8. given = <<>> \/ given[1] < 0 \/ (x.step = h + 1 /\ ~x.ahead)
  <2>1. CASE e.step = g + 1 /\ ~e.ahead
    <3>1. e.step >= g + q
      BY <1>3, <2>1
    <3>2. x.step = h + 1
      BY <1>6, <2>1, <3>1
    <3>3. ~x.ahead
      BY <1>3, <1>6, <2>1
    <3>. QED  BY <3>2, <3>3
  <2>. QED  BY <2>1
<1>9. x.step = h + p + 1 /\ (given = <<>> \/ given[1] < 0) => past = TRUE
  <2>1. x.step = h + p + 1 => e.step = g + q + 1
    BY <1>3, <1>6
  <2>. QED  BY <2>1
<1>10. r = DecodeInternal(c, b, given, fail)
  BY <1>1 DEF DecodeLogits
<1>11. Decoded(c, x, past, r)
  <2>1. b.e = x /\ b.ok /\ x.ranDecode /\ Sound(c, x, h, p)
    BY <1>1, <1>6
  <2>. QED  BY <1>7, <1>8, <1>9, <1>10, <2>1, DecodeInternalIs
<1>12. x.ahead => e.ahead
  BY <1>3, <1>6
<1>. QED  BY <1>6, <1>11, <1>12 DEF Decoded

LEMMA HeldFront ==
    ASSUME NEW a \in Seq(Int), NEW b \in Seq(Int), NEW row, Held(a \o b, row)
    PROVE  Held(a, row)
<1>1. \A p \in 1..Len(a) : p \in 1..Len(a \o b) /\ (a \o b)[p] = a[p]
  OBVIOUS
<1>. QED  BY <1>1 DEF Held

\* Once the pending tokens have run, the new rows hold the processed ones too.
LEMMA HoldingRun ==
    ASSUME NEW ts, NEW kv, NEW n \in Nat \ {0}, NEW g \in Nat, NEW q \in 0..1,
           Holding(ts, kv, n, g, q), NEW rows, PendingRun(ts, kv, rows, n, g, q)
    PROVE  Holding(ts, rows, n, g, q)
<1>1. Candidates(ts, kv, n, g, q)
  BY HoldingFacts
<1>2. ASSUME NEW i \in 1..n
      PROVE  Len(ts[i].ids) = g /\ Len(ts[i].pending) = q /\ Held(ts[i].ids, rows[i])
  <2>1. /\ ts[i].ids \in Seq(Int) /\ Len(ts[i].ids) = g
        /\ ts[i].pending \in Seq(Int) /\ Len(ts[i].pending) = q
    BY <1>1 DEF Candidates
  <2>2. Held(ts[i].ids \o ts[i].pending, rows[i])
    BY DEF PendingRun
  <2>. QED  BY <2>1, <2>2, HeldFront
<1>3. ts \in Seq(TokSet) /\ Len(ts) = n /\ rows \in Seq(Seq(Mark)) /\ Len(rows) = n
  BY <1>1 DEF Candidates, PendingRun
<1>. QED  BY <1>2, <1>3 DEF Holding

\* A token for every candidate is pending, or there is none.
Sampling(c, e, past, r) ==
    \/ r.ok = TRUE /\ \E h : Sound(c, r.e, h, 1) /\ r.e.step = h + 1
    \/ r.ok = FALSE /\ r.e.step = e.step /\ Failed(c, r.e, past)

LEMMA SampleIs ==
    ASSUME NEW c, Built(c), NEW e, NEW past, NEW r, Decoded(c, e, past, r),
           NEW toks \in Seq(Int), Len(toks) >= c.heads,
           NEW w, w = SampleAndStore(c, r, toks)
    PROVE  Sampling(c, e, past, w)
<1>1. CASE r.ok = FALSE
  <2>1. w = r
    BY <1>1 DEF SampleAndStore
  <2>. QED  BY <1>1, <2>1 DEF Decoded, Sampling
<1>2. CASE r.ok = TRUE
  <2>1. PICK x : x = r.e
    OBVIOUS
  <2>2. PICK g : RunDone(c, x, g)
    BY <1>2, <2>1 DEF Decoded
  <2>3. PICK n, old : n = c.heads /\ old = x.kv
    OBVIOUS
  <2>4. /\ x \in ExecSet /\ g \in Nat /\ n \in Nat \ {0} /\ Holding(x.tokens, old, n, g, 0)
        /\ x.step = g + 1 /\ x.ranDecode = TRUE /\ x.ahead \in BOOLEAN
        /\ c.sampler # "npu" /\ 0 \in 0..1 /\ 1 \in 0..1 /\ Len(toks) >= n
    BY <2>2, <2>3 DEF RunDone, Built, ExecSet
  <2>5. PICK us : us = AddPending(x.tokens, toks)
    OBVIOUS
  <2>6. Holding(us, old, n, g, 1) /\ \A i \in 1..n : us[i].pending = <<toks[i]>>
    <3>1. PICK ts : ts = x.tokens
      OBVIOUS
    <3>2. Holding(ts, old, n, g, 0) /\ us = AddPending(ts, toks)
      BY <2>4, <2>5, <3>1
    <3>3. PendingAdded(ts, old, us, n, g, toks)
      BY <2>4, <3>2, AddPendingIs
    <3>. QED  BY <3>3 DEF PendingAdded
  <2>7. PICK rows : rows = [i \in DOMAIN old |-> WriteKv(old[i], g, us[i].pending)]
    OBVIOUS
  <2>8. PendingRun(us, old, rows, n, g, 1)
    BY <2>4, <2>6, <2>7, RunPendingIs
  <2>9. Holding(us, rows, n, g, 1)
    BY <2>4, <2>6, <2>8, HoldingRun
  <2>10. rows = [i \in DOMAIN old |-> WriteKv(old[i], x.step - 1, <<toks[i]>>)]
    <3>1. DOMAIN old = 1..n
      BY <2>6 DEF Holding
    <3>2. x.step - 1 = g
      BY <2>4
    <3>. QED  BY <2>6, <2>7, <3>1, <3>2
  <2>11. PICK kv : kv = IF c.sampler # "ahead" THEN old ELSE rows
    OBVIOUS
  <2>12. Holding(us, kv, n, g, 1)
    BY <2>6, <2>9, <2>11
  <2>13. PICK z : z = [x EXCEPT !.tokens = us, !.ahead = (c.sampler = "ahead"), !.kv = kv]
    OBVIOUS
  <2>14. w = Ok(z)
    BY <1>2, <2>1, <2>3, <2>5, <2>10, <2>11, <2>13 DEF SampleAndStore
  <2>15. us \in Seq(TokSet) /\ kv \in Seq(Seq(Mark)) /\ Len(kv) = n /\ Len(us) = n
    BY <2>12 DEF Holding
  <2>16. /\ z \in ExecSet /\ z.tokens = us /\ z.kv = kv /\ z.room = x.room /\ z.step = g + 1
         /\ z.ranDecode = TRUE /\ z.ahead = (c.sampler = "ahead")
    BY <2>4, <2>13, <2>15 DEF ExecSet
  <2>17. z.ahead => /\ c.sampler = "ahead"
                    /\ \A i \in 1..Len(us) : Held(us[i].ids \o us[i].pending, kv[i])
    BY <2>8, <2>11, <2>15, <2>16 DEF PendingRun
  <2>18. c.dynamic => \A i \in 1..Len(kv) : Len(kv[i]) <= x.room
    <3>1. CASE c.dynamic
      <4>1. c.sampler # "ahead"
        BY <3>1 DEF Built
      <4>2. kv = x.kv
        BY <2>3, <2>11, <4>1
      <4>. QED  BY <2>2, <3>1, <4>2 DEF RunDone
    <3>. QED  BY <3>1
  <2>19. Width(c, z) = n /\ z.step <= g + 1 + 1 /\ (z.step = g + 1 + 1 => 1 = 0)
    BY <2>3, <2>4, <2>16 DEF Width
  <2>20. Sound(c, z, g, 1)
    BY <2>4, <2>12, <2>15, <2>16, <2>17, <2>18, <2>19 DEF Sound
  <2>. QED  BY <2>14, <2>16, <2>20 DEF Sampling, Ok
<1>. QED  BY <1>1, <1>2 DEF Decoded

LEMMA DecodeSampledIs ==
    ASSUME NEW c, Built(c), NEW e, NEW g, NEW q, Sound(c, e, g, q), c.sampler # "npu",
           c.heads = 1 \/ e.step >= g + q,
           NEW past \in BOOLEAN, e.step = g + q + 1 => past = TRUE,
           NEW toks \in Seq(Int), Len(toks) >= c.heads,
           NEW fail \in BOOLEAN, NEW w, w = DecodeSampled(c, e, toks, fail)
    PROVE  Sampling(c, e, past, w)
<1>1. PICK none, r : none = <<>> /\ r = DecodeLogits(c, e, none, fail)
  OBVIOUS
<1>2. none \in Seq(Int) /\ none = <<>>
  BY <1>1
<1>3. Decoded(c, e, past, r)
  BY <1>1, <1>2, DecodeLogitsIs
<1>4. w = SampleAndStore(c, r, toks)
  BY <1>1 DEF DecodeSampled
<1>. QED  BY <1>3, <1>4, SampleIs

(***************************************************************************)
(* With a drafter.                                                          *)
(***************************************************************************)
LEMMA Associative ==
    ASSUME NEW a \in Seq(Int), NEW b \in Seq(Int), NEW d \in Seq(Int)
    PROVE  a \o (b \o d) = (a \o b) \o d
  OBVIOUS

LEMMA WriteDraftIs ==
    ASSUME NEW c, Built(c), NEW row \in Seq(Mark), NEW ids \in Seq(Int), Held(ids, row),
           NEW run \in Seq(Int), Len(run) <= c.draft + 1,
           NEW w, w = WriteDraft(c, row, Len(ids), run)
    PROVE  w \in Seq(Mark) /\ Held(ids \o run, w)
<1>1. PICK k : k = c.draft + 1 - Len(run)
  OBVIOUS
<1>2. k \in Nat
  BY <1>1 DEF Built
<1>3. PICK fill : fill = [i \in 1..k |-> Unwritten]
  OBVIOUS
<1>4. fill \in Seq(Mark) /\ run \in Seq(Mark)
  BY <1>2, <1>3, TokensAreMarks DEF Mark
<1>5. PICK toks : toks = run \o fill
  OBVIOUS
<1>6. /\ toks \in Seq(Mark) /\ Len(toks) >= Len(run)
      /\ \A j \in 1..Len(run) : toks[j] \in {run[j], Lost}
  BY <1>4, <1>5
<1>7. w = WriteKv(row, Len(ids), toks)
  BY <1>1, <1>3, <1>5 DEF WriteDraft
<1>8. Len(ids) \in Nat
  OBVIOUS
<1>. QED  BY <1>6, <1>7, <1>8, HeldMore, WriteLength

\* A draft that is accepted up to its last token, which becomes pending.
LEMMA DraftIs ==
    ASSUME NEW c, Built(c), c.sampler = "draft", NEW x \in ExecSet,
           NEW h \in Nat, NEW p \in 0..1, Holding(x.tokens, x.kv, 1, h, p),
           x.ranDecode = TRUE, ~x.ahead, x.step <= h + 1,
           NEW front \in Seq(Int), NEW last \in Int,
           NEW run, run = x.tokens[1].pending \o front, Len(run) <= c.draft + 1,
           NEW z, z = [x EXCEPT
                    !.tokens = AddPending(AddProcessedTokens(
                                   MarkPendingAsProcessed(x.tokens), front), <<last>>),
                    !.kv     = <<WriteDraft(c, x.kv[1], h, run)>>,
                    !.step   = x.step + Len(run)]
    PROVE  \E g : Sound(c, z, g, 1) /\ z.step <= g + 1
<1>1. PICK ids, pend, row, w : /\ ids = x.tokens[1].ids /\ pend = x.tokens[1].pending
                               /\ row = x.kv[1] /\ w = WriteDraft(c, row, h, run)
  OBVIOUS
<1>2. PICK ts, us, vs, ws : /\ ts = x.tokens /\ us = MarkPendingAsProcessed(ts)
                            /\ vs = AddProcessedTokens(us, front)
                            /\ ws = AddPending(vs, <<last>>)
  OBVIOUS
<1>3. /\ Candidates(x.tokens, x.kv, 1, h, p) /\ 1 \in Nat \ {0} /\ 1 \in 1..1
      /\ x.step \in Nat /\ x.room \in Nat
  <2>1. 1 \in Nat \ {0} /\ 1 \in 1..1
    OBVIOUS
  <2>2. x.step \in Nat /\ x.room \in Nat
    BY DEF ExecSet
  <2>3. PICK kv : kv = x.kv
    OBVIOUS
  <2>4. Holding(ts, kv, 1, h, p)
    BY <1>2, <2>3
  <2>5. Candidates(ts, kv, 1, h, p)
    BY <2>1, <2>4, HoldingFacts
  <2>. QED  BY <1>2, <2>1, <2>2, <2>3, <2>5
<1>4. /\ ids \in Seq(Int) /\ Len(ids) = h /\ pend \in Seq(Int) /\ Len(pend) = p
      /\ row \in Seq(Mark) /\ Held(ids, row)
  BY <1>1, <1>3 DEF Candidates
<1>5. run \in Seq(Int) /\ run = pend \o front /\ Len(run) = p + Len(front)
  <2>1. run = pend \o front
    BY <1>1
  <2>2. pend \o front \in Seq(Int) /\ Len(pend \o front) = Len(pend) + Len(front)
    BY <1>4, Appended
  <2>. QED  BY <1>4, <2>1, <2>2
<1>6. w \in Seq(Mark) /\ Held(ids \o run, w)
  <2>1. w = WriteDraft(c, row, Len(ids), run)
    BY <1>1, <1>4
  <2>. QED  BY <1>4, <1>5, <2>1, WriteDraftIs
<1>7. Held((ids \o pend) \o front, w)
  <2>1. ids \o (pend \o front) = (ids \o pend) \o front
    BY <1>4, Associative
  <2>. QED  BY <1>5, <1>6, <2>1
<1>8. ids \o pend \in Seq(Int)
  BY <1>4
<1>9. Held(ids \o pend, w)
  BY <1>7, <1>8, HeldFront
<1>10. <<w>> \in Seq(Seq(Mark)) /\ Len(<<w>>) = 1 /\ <<w>>[1] = w
  BY <1>6
<1>11. PICK hp \in Nat : hp = h + p
  OBVIOUS
<1>12. Holding(us, <<w>>, 1, hp, 0) /\ us[1].ids = ids \o pend
  <2>1. \A i \in 1..1 : Held(ts[i].ids \o ts[i].pending, <<w>>[i])
    BY <1>1, <1>2, <1>9, <1>10
  <2>2. Holding(ts, x.kv, 1, h, p)
    BY <1>2
  <2>3. /\ Holding(us, <<w>>, 1, h + p, 0)
        /\ \A i \in 1..1 : us[i].ids = ts[i].ids \o ts[i].pending /\ us[i].pending = <<>>
    BY <1>2, <1>3, <1>10, <2>1, <2>2, MarkPendingIs
  <2>. QED  BY <1>1, <1>2, <1>3, <1>11, <2>3
<1>13. PICK g \in Nat : g = hp + Len(front)
  BY <1>11
<1>14. Holding(vs, <<w>>, 1, g, 0)
  <2>1. \A i \in 1..1 : Held(us[i].ids \o front, <<w>>[i])
    <3>1. Held(us[1].ids \o front, w)
      BY <1>7, <1>12
    <3>2. <<w>>[1] = w
      OBVIOUS
    <3>. QED  BY <3>1, <3>2
  <2>2. 0 \in 0..1
    OBVIOUS
  <2>3. Holding(vs, <<w>>, 1, hp + Len(front), 0)
    BY <1>2, <1>3, <1>10, <1>12, <2>1, <2>2, AddProcessedIs
  <2>. QED  BY <1>13, <2>3
<1>15. Holding(ws, <<w>>, 1, g, 1)
  <2>1. 0 \in 0..1 /\ <<last>> \in Seq(Int) /\ Len(<<last>>) >= 1
    OBVIOUS
  <2>. QED  BY <1>2, <1>3, <1>14, <2>1, AddPendingIs DEF PendingAdded
<1>16. PICK s : s = x.step + Len(run)
  OBVIOUS
<1>17. s \in Nat /\ s <= g + 1
  BY SMTT(30), <1>3, <1>5, <1>11, <1>13, <1>16
<1>18. z = [x EXCEPT !.tokens = ws, !.kv = <<w>>, !.step = s]
  BY <1>1, <1>2, <1>16
<1>19. ws \in Seq(TokSet)
  BY <1>15 DEF Holding
<1>20. /\ z \in ExecSet /\ z.tokens = ws /\ z.kv = <<w>> /\ z.step = s
       /\ z.ranDecode = TRUE /\ z.ahead = x.ahead
  BY <1>10, <1>17, <1>18, <1>19 DEF ExecSet
<1>21. Width(c, z) = 1 /\ ~c.dynamic /\ c.sampler # "npu"
  BY <1>20 DEF Width, Built
<1>22. Sound(c, z, g, 1)
  <2>1. z.step <= g + 1 + 1 /\ (z.step = g + 1 + 1 => 1 = 0) /\ 1 \in 0..1
    BY <1>17, <1>20
  <2>. QED  BY <1>15, <1>20, <1>21, <2>1 DEF Sound
<1>. QED  BY <1>17, <1>20, <1>22

\* A drafter that fails: the token it has been given is lost, and counted.
LEMMA DraftFailIs ==
    ASSUME NEW c, Built(c), c.sampler = "draft", NEW x \in ExecSet,
           NEW h \in Nat, NEW p \in 0..1, Holding(x.tokens, x.kv, 1, h, p),
           x.ranDecode = TRUE, ~x.ahead, x.step <= h + p + 1,
           NEW z, z = [x EXCEPT
                    !.kv = <<WriteKv(x.kv[1], h, Marked(x.tokens[1].pending, Lost))>>,
                    !.tokens = MarkPendingAsProcessed(x.tokens)]
    PROVE  \E g : Sound(c, z, g, 0) /\ z.step <= g + 1
<1>1. PICK ids, pend, row, m, w : /\ ids = x.tokens[1].ids /\ pend = x.tokens[1].pending
                                  /\ row = x.kv[1] /\ m = Marked(pend, Lost)
                                  /\ w = WriteKv(row, h, m)
  OBVIOUS
<1>2. PICK ts, kv, us : ts = x.tokens /\ kv = x.kv /\ us = MarkPendingAsProcessed(ts)
  OBVIOUS
<1>3. Candidates(ts, kv, 1, h, p) /\ 1 \in Nat \ {0} /\ 1 \in 1..1
  <2>1. 1 \in Nat \ {0} /\ 1 \in 1..1 /\ Holding(ts, kv, 1, h, p)
    BY <1>2
  <2>. QED  BY <2>1, HoldingFacts
<1>4. /\ ids \in Seq(Int) /\ Len(ids) = h /\ pend \in Seq(Int) /\ Len(pend) = p
      /\ row \in Seq(Mark) /\ Held(ids, row)
  BY <1>1, <1>2, <1>3 DEF Candidates
<1>5. m \in Seq(Mark) /\ Len(m) = Len(pend) /\ \A j \in 1..Len(pend) : m[j] = Lost
  BY <1>1, <1>4, MarkedIs
<1>6. w \in Seq(Mark) /\ Held(ids \o pend, w)
  <2>1. w = WriteKv(row, Len(ids), m) /\ Len(m) >= Len(pend)
    BY <1>1, <1>4, <1>5
  <2>2. \A j \in 1..Len(pend) : m[j] \in {pend[j], Lost}
    BY <1>5
  <2>3. Held(ids \o pend, w)
    BY <1>4, <1>5, <2>1, <2>2, HeldMore
  <2>4. w \in Seq(Mark)
    BY <1>1, <1>4, <1>5, WriteLength
  <2>. QED  BY <2>3, <2>4
<1>7. <<w>> \in Seq(Seq(Mark)) /\ Len(<<w>>) = 1 /\ <<w>>[1] = w
  BY <1>6
<1>8. PICK g \in Nat : g = h + p
  OBVIOUS
<1>9. Holding(us, <<w>>, 1, g, 0)
  <2>1. \A i \in 1..1 : Held(ts[i].ids \o ts[i].pending, <<w>>[i])
    BY <1>1, <1>2, <1>6, <1>7
  <2>2. Holding(ts, kv, 1, h, p)
    BY <1>2
  <2>3. Holding(us, <<w>>, 1, h + p, 0)
    BY <1>2, <1>3, <1>7, <2>1, <2>2, MarkPendingIs
  <2>. QED  BY <1>8, <2>3
<1>10. us \in Seq(TokSet)
  BY <1>9 DEF Holding
<1>11. z = [x EXCEPT !.kv = <<w>>, !.tokens = us]
  BY <1>1, <1>2
<1>12. /\ z \in ExecSet /\ z.tokens = us /\ z.kv = <<w>> /\ z.step = x.step
       /\ z.ranDecode = TRUE /\ z.ahead = x.ahead
  BY <1>7, <1>10, <1>11 DEF ExecSet
<1>13. Width(c, z) = 1 /\ ~c.dynamic /\ c.sampler # "npu"
  BY <1>12 DEF Width, Built
<1>14. Sound(c, z, g, 0) /\ z.step <= g + 1
  <2>1. /\ z.step <= g + 0 + 1 /\ (z.step = g + 0 + 1 => 0 = 0) /\ 0 \in 0..1
        /\ z.step <= g + 1
    BY <1>8, <1>12
  <2>. QED  BY <1>9, <1>12, <1>13, <2>1 DEF Sound
<1>. QED  BY <1>14

\* A drafted turn: a failure may leave the step past the tokens.
Drafting(c, past, failAt, r) ==
    \/ r.ok = TRUE /\ \E g : Sound(c, r.e, g, 1) /\ r.e.step <= g + 1
    \/ r.ok = FALSE /\ Failed(c, r.e, past)
    \/ r.ok = FALSE /\ failAt # 0 /\ \E g, p : Sound(c, r.e, g, p)

LEMMA DraftedIs ==
    ASSUME NEW c, Built(c), c.sampler = "draft", NEW x \in ExecSet,
           NEW h \in Nat, NEW p \in 0..1, Holding(x.tokens, x.kv, 1, h, p),
           x.ranDecode = TRUE, ~x.ahead, x.step <= h + 1, x.step <= h + p + 1,
           NEW first \in BOOLEAN, first => p = 0 /\ x.step = h + 1,
           NEW out \in Seq(Int), Len(out) >= 1, p + Len(out) <= c.draft + 2,
           NEW r0, r0.ok = TRUE, r0.e = x, NEW past, NEW failAt,
           NEW r, r = Drafted(c, first, r0, out, failAt)
    PROVE  Drafting(c, past, failAt, r)
<1>1. PICK ts, kv, front, last : /\ ts = x.tokens /\ kv = x.kv
                                 /\ front = SubSeq(out, 1, Len(out) - 1) /\ last = out[Len(out)]
  OBVIOUS
<1>2. front \in Seq(Int) /\ Len(front) = Len(out) - 1 /\ last \in Int /\ x.step \in Nat
  <2>1. x.step \in Nat
    BY DEF ExecSet
  <2>2. PICK k : k = Len(out)
    OBVIOUS
  <2>3. k \in Nat /\ k >= 1 /\ k \in 1..Len(out) /\ k - 1 \in 0..Len(out)
    BY <2>2
  <2>4. front = SubSeq(out, 1, k - 1) /\ last = out[k]
    BY <1>1, <2>2
  <2>5. front \in Seq(Int) /\ Len(front) = k - 1
    BY <2>3, <2>4
  <2>6. last \in Int
    BY <2>3, <2>4
  <2>. QED  BY <2>1, <2>2, <2>5, <2>6
<1>3. Candidates(ts, kv, 1, h, p) /\ 1 \in 1..1
  <2>1. 1 \in Nat \ {0} /\ 1 \in 1..1 /\ Holding(ts, kv, 1, h, p)
    BY <1>1
  <2>. QED  BY <2>1, HoldingFacts
<1>4. PICK pend, run : pend = ts[1].pending /\ run = pend \o front
  OBVIOUS
<1>5. pend \in Seq(Int) /\ Len(pend) = p /\ GetStep(ts) = h
  BY <1>3, <1>4 DEF Candidates
<1>6. run \in Seq(Int) /\ Len(run) <= c.draft + 1
  <2>1. run \in Seq(Int) /\ Len(run) = Len(pend) + Len(front)
    BY <1>2, <1>4, <1>5, Appended
  <2>2. c.draft \in Nat
    BY DEF Built
  <2>. QED  BY SMTT(30), <1>2, <1>5, <2>1, <2>2
<1>7. first => front = run /\ x.step - 1 = h
  <2>1. CASE first
    <3>1. pend = <<>>
      BY <1>5, <2>1
    <3>2. run = front
      BY <1>2, <1>4, <3>1
    <3>3. x.step - 1 = h
      BY SMTT(30), <2>1
    <3>. QED  BY <3>2, <3>3
  <2>. QED  BY <2>1
<1>8. CASE failAt # 0
  <2>1. PICK z : z = [x EXCEPT
                    !.kv = <<WriteKv(x.kv[1], h, Marked(x.tokens[1].pending, Lost))>>,
                    !.tokens = MarkPendingAsProcessed(x.tokens)]
    OBVIOUS
  <2>2. r = Err(z)
    BY <1>1, <1>5, <1>8, <2>1 DEF Drafted
  <2>3. PICK g : Sound(c, z, g, 0) /\ z.step <= g + 1
    BY <2>1, DraftFailIs
  <2>. QED  BY <1>8, <2>2, <2>3 DEF Drafting, Err
<1>9. CASE failAt = 0
  <2>1. PICK z : z = [x EXCEPT
                    !.tokens = AddPending(AddProcessedTokens(
                                   MarkPendingAsProcessed(x.tokens), front), <<last>>),
                    !.kv     = <<WriteDraft(c, x.kv[1], h, run)>>,
                    !.step   = x.step + Len(run)]
    OBVIOUS
  <2>2. r = Ok(z)
    <3>1. CASE first
      BY <1>1, <1>7, <1>9, <2>1, <3>1 DEF Drafted
    <3>2. CASE ~first
      BY <1>1, <1>4, <1>5, <1>9, <2>1, <3>2 DEF Drafted
    <3>. QED  BY <3>1, <3>2
  <2>3. run = x.tokens[1].pending \o front
    BY <1>1, <1>4
  <2>4. PICK g : Sound(c, z, g, 1) /\ z.step <= g + 1
    BY <1>2, <1>6, <2>1, <2>3, DraftIs
  <2>. QED  BY <2>2, <2>4 DEF Drafting, Ok
<1>. QED  BY <1>8, <1>9

LEMMA DecodeDraftedIs ==
    ASSUME NEW c, Built(c), c.sampler = "draft", NEW e, NEW g, NEW q, Sound(c, e, g, q),
           NEW past \in BOOLEAN, e.step = g + q + 1 => past = TRUE,
           NEW out \in Seq(Int), Len(out) >= 1,
           Len(out) <= c.draft + (IF e.ranDecode THEN 1 ELSE 2),
           NEW failAt, NEW r, r = DecodeDrafted(c, e, out, failAt)
    PROVE  Drafting(c, past, failAt, r)
<1>1. /\ c.heads = 1 /\ c.draft \in Nat /\ g \in Nat /\ q \in 0..1 /\ e.step \in Nat
      /\ e.ranDecode \in BOOLEAN /\ c.sampler # "npu"
  BY SoundFacts DEF Built
<1>2. PICK fail \in BOOLEAN : fail = (failAt = 1)
  OBVIOUS
<1>2a. PICK none : none = <<>>
  OBVIOUS
<1>3. CASE ~e.ranDecode
  <2>1. PICK b : b = DecodeLogits(c, e, none, fail)
    OBVIOUS
  <2>2. none \in Seq(Int) /\ none = <<>>
    BY <1>2a
  <2>3. Decoded(c, e, past, b)
    BY <1>1, <2>1, <2>2, DecodeLogitsIs
  <2>4. r = Drafted(c, TRUE, b, out, failAt)
    BY <1>2, <1>2a, <1>3, <2>1 DEF DecodeDrafted
  <2>5. CASE b.ok = FALSE
    <3>1. r = b
      BY <2>4, <2>5 DEF Drafted
    <3>. QED  BY <2>3, <2>5, <3>1 DEF Decoded, Drafting
  <2>6. CASE b.ok = TRUE
    <3>1. PICK x : x = b.e
      OBVIOUS
    <3>2. PICK h : RunDone(c, x, h)
      BY <2>3, <2>6, <3>1 DEF Decoded
    <3>3. /\ x \in ExecSet /\ h \in Nat /\ Holding(x.tokens, x.kv, 1, h, 0) /\ 0 \in 0..1
          /\ x.ranDecode = TRUE /\ x.step = h + 1 /\ x.step <= h + 1 /\ x.step <= h + 0 + 1
          /\ ~x.ahead
      BY <1>1, <3>2 DEF RunDone
    <3>4. PICK first \in BOOLEAN : first = TRUE
      OBVIOUS
    <3>5. 0 + Len(out) <= c.draft + 2
      BY <1>1, <1>3
    <3>6. r = Drafted(c, first, b, out, failAt) /\ (first => 0 = 0 /\ x.step = h + 1)
      BY <2>4, <3>3, <3>4
    <3>. QED  BY <2>6, <3>1, <3>3, <3>5, <3>6, DraftedIs
  <2>. QED  BY <2>3, <2>5, <2>6 DEF Decoded
<1>4. CASE e.ranDecode
  <2>1. PICK b, x : b = RollBackProcessedTokens(e) /\ x = b.e
    OBVIOUS
  <2>2. r = Drafted(c, FALSE, b, out, failAt)
    BY <1>4, <2>1 DEF DecodeDrafted
  <2>3. Width(c, e) = 1
    BY <1>1, <1>4 DEF Width
  <2>4. PICK h, p : RolledBack(c, e, b, g, q, h, p)
    BY <2>1, <2>3, RollBackIs
  <2>5. /\ b.ok = TRUE /\ h \in Nat /\ p \in 0..1 /\ Sound(c, x, h, p) /\ x.ranDecode = TRUE
        /\ x.step = e.step
    <3>1. e.ranDecode = TRUE
      BY <1>1, <1>4
    <3>. QED  BY <2>1, <2>4, <3>1 DEF RolledBack
  <2>6. /\ x \in ExecSet /\ Width(c, x) = 1 /\ x.step <= h + p + 1
        /\ (x.step = h + p + 1 => p = 0) /\ ~x.ahead
    <3>1. Width(c, x) = 1
      BY <1>1, <2>5 DEF Width
    <3>2. c.sampler # "ahead"
      OBVIOUS
    <3>. QED  BY <2>5, <3>1, <3>2 DEF Sound
  <2>7. Holding(x.tokens, x.kv, 1, h, p)
    BY <2>5, <2>6 DEF Sound
  <2>8. x.step <= h + 1
    <3>1. x.step \in Nat
      BY <2>6 DEF ExecSet
    <3>. QED  BY <2>5, <2>6, <3>1
  <2>9. p + Len(out) <= c.draft + 2
    BY <1>1, <1>4, <2>5
  <2>10. PICK first \in BOOLEAN : first = FALSE
    OBVIOUS
  <2>11. r = Drafted(c, first, b, out, failAt) /\ (first => p = 0 /\ x.step = h + 1)
    BY <2>2, <2>10
  <2>. QED  BY <2>1, <2>5, <2>6, <2>7, <2>8, <2>9, <2>11, DraftedIs
<1>. QED  BY <1>3, <1>4

(***************************************************************************)
(* The NPU, and the step.                                                   *)
(***************************************************************************)
LEMMA NpuDecodeIs ==
    ASSUME NEW c, Built(c), NEW e, NEW g, NEW q, Sound(c, e, g, q), c.sampler = "npu",
           NEW toks \in Seq(Int), Len(toks) >= 1, NEW fail \in BOOLEAN,
           NEW r, r = NpuDecode(e, toks, fail)
    PROVE  r.ok \in BOOLEAN /\ \E h, p : Sound(c, r.e, h, p)
<1>1. PICK ts, kv, n : ts = e.tokens /\ kv = e.kv /\ n = 1
  OBVIOUS
<1>2. /\ ~c.dynamic /\ e.step = g + q /\ e.ranDecode = FALSE /\ g \in Nat /\ q \in 0..1
      /\ e \in ExecSet /\ Width(c, e) = n /\ n \in Nat \ {0} /\ n = 1
      /\ Holding(ts, kv, n, g, q) /\ Candidates(ts, kv, n, g, q) /\ ~e.ahead
  <2>1. ~c.dynamic
    BY DEF Built
  <2>2. e.step = g + q /\ ~e.ranDecode /\ e.ranDecode \in BOOLEAN /\ ~e.ahead
    BY SoundFacts DEF Sound
  <2>3. Width(c, e) = n /\ n \in Nat \ {0} /\ n = 1
    BY <1>1, <2>2 DEF Width
  <2>4. Candidates(ts, kv, n, g, q)
    BY <1>1, <2>3, SoundFacts
  <2>5. e \in ExecSet /\ Holding(ts, kv, n, g, q) /\ g \in Nat /\ q \in 0..1
    BY <1>1, <2>3 DEF Sound
  <2>. QED  BY <2>1, <2>2, <2>3, <2>4, <2>5
<1>3. NpuRollBack(e) = e
  BY <1>1, <1>2 DEF NpuRollBack, Candidates
<1>4. GetStep(ts) = g /\ (HasPending(ts) <=> q = 1)
  BY <1>2 DEF Candidates
<1>5. CASE q = 0
  <2>1. r = Err(e)
    BY <1>1, <1>3, <1>4, <1>5 DEF NpuDecode
  <2>. QED  BY <2>1 DEF Err
<1>6. CASE q = 1
  <2>1. PICK ids, pend, row : ids = ts[1].ids /\ pend = ts[1].pending /\ row = kv[1]
    OBVIOUS
  <2>2. /\ ids \in Seq(Int) /\ Len(ids) = g /\ pend \in Seq(Int) /\ Len(pend) = 1
        /\ row \in Seq(Mark) /\ Held(ids, row)
    BY <1>2, <1>6, <2>1 DEF Candidates
  <2>3. PICK toks1 : toks1 = IF fail THEN <<Lost>> ELSE pend
    OBVIOUS
  <2>4. toks1 \in Seq(Mark) /\ Len(toks1) >= Len(pend) /\ \A j \in 1..Len(pend) : toks1[j] \in {pend[j], Lost}
    <3>1. CASE fail = TRUE
      <4>1. toks1 = <<Lost>> /\ Lost \in Mark
        BY <2>3, <3>1 DEF Mark
      <4>2. toks1 \in Seq(Mark) /\ Len(toks1) = 1 /\ toks1[1] = Lost
        BY <4>1
      <4>3. \A j \in 1..Len(pend) : j = 1
        BY <2>2
      <4>4. \A j \in 1..Len(pend) : toks1[j] \in {pend[j], Lost}
        BY <4>2, <4>3
      <4>5. Len(toks1) >= Len(pend)
        BY <2>2, <4>2
      <4>. QED  BY <4>2, <4>4, <4>5
    <3>2. CASE fail = FALSE
      <4>1. toks1 = pend
        BY <2>3, <3>2
      <4>2. pend \in Seq(Mark)
        BY <2>2, TokensAreMarks
      <4>3. Len(pend) >= Len(pend)
        BY <2>2
      <4>. QED  BY <4>1, <4>2, <4>3
    <3>. QED  BY <3>1, <3>2
  <2>5. PICK w : w = WriteKv(row, g, toks1)
    OBVIOUS
  <2>6. w \in Seq(Mark) /\ Held(ids \o pend, w) /\ Held(ids, w)
    <3>1. w = WriteKv(row, Len(ids), toks1)
      BY <2>2, <2>5
    <3>2. Held(ids \o pend, w)
      BY <2>2, <2>4, <3>1, HeldMore
    <3>3. w \in Seq(Mark)
      BY <2>2, <2>4, <2>5, WriteLength
    <3>. QED  BY <2>2, <3>2, <3>3, HeldFront
  <2>7. <<w>> \in Seq(Seq(Mark)) /\ Len(<<w>>) = 1 /\ <<w>>[1] = w
    BY <2>6
  <2>8. CASE fail
    <3>1. PICK z : z = [e EXCEPT !.kv = <<w>>]
      OBVIOUS
    <3>2. w = WriteKv(row, g, <<Lost>>)
      BY <2>3, <2>5, <2>8
    <3>3. r = Err(z)
      BY <1>1, <1>3, <1>4, <1>6, <2>1, <2>8, <3>1, <3>2 DEF NpuDecode
    <3>4. /\ z \in ExecSet /\ z.tokens = ts /\ z.kv = <<w>> /\ z.step = e.step
          /\ z.ranDecode = FALSE /\ z.ahead = e.ahead
      BY <1>1, <1>2, <2>7, <3>1 DEF ExecSet
    <3>5. Width(c, z) = n
      BY <1>2, <3>4 DEF Width
    <3>6. Holding(ts, <<w>>, n, g, q)
      <4>1. ts \in Seq(TokSet) /\ Len(ts) = 1 /\ Len(ts[1].ids) = g /\ Len(ts[1].pending) = q
        BY <1>2 DEF Candidates
      <4>. QED  BY <1>2, <2>1, <2>6, <2>7, <4>1 DEF Holding
    <3>7. e.step <= g + q + 1 /\ (e.step = g + q + 1 => q = 0)
      BY <1>2
    <3>8. Sound(c, z, g, q)
      BY <1>2, <3>4, <3>5, <3>6, <3>7 DEF Sound
    <3>. QED  BY <3>3, <3>8 DEF Err
  <2>9. CASE ~fail
    <3>1. PICK us, ws : us = MarkPendingAsProcessed(ts) /\ ws = AddPending(us, toks)
      OBVIOUS
    <3>2. PICK z : z = [e EXCEPT !.kv = <<w>>, !.tokens = ws, !.step = e.step + 1]
      OBVIOUS
    <3>3. w = WriteKv(row, g, pend)
      BY <2>3, <2>5, <2>9
    <3>4. r = Ok(z)
      BY <1>1, <1>3, <1>4, <1>6, <2>1, <2>9, <3>1, <3>2, <3>3 DEF NpuDecode
    <3>5. PICK h \in Nat : h = g + q
      BY <1>2
    <3>6. Holding(us, <<w>>, n, h, 0)
      <4>1. \A i \in 1..n : Held(ts[i].ids \o ts[i].pending, <<w>>[i])
        BY <1>2, <2>1, <2>6, <2>7
      <4>2. Holding(us, <<w>>, n, g + q, 0)
        BY <1>2, <2>7, <3>1, <4>1, MarkPendingIs
      <4>. QED  BY <3>5, <4>2
    <3>7. Holding(ws, <<w>>, n, h, 1)
      <4>1. 0 \in 0..1 /\ Len(toks) >= n
        BY <1>2
      <4>. QED  BY <1>2, <3>1, <3>5, <3>6, <4>1, AddPendingIs DEF PendingAdded
    <3>8. ws \in Seq(TokSet) /\ e.step + 1 \in Nat /\ e.step + 1 = h + 1
      BY <1>2, <3>5, <3>7 DEF Holding
    <3>9. /\ z \in ExecSet /\ z.tokens = ws /\ z.kv = <<w>> /\ z.step = h + 1
          /\ z.ranDecode = FALSE /\ z.ahead = e.ahead
      BY <1>2, <2>7, <3>2, <3>8 DEF ExecSet
    <3>10. Width(c, z) = n
      BY <1>2, <3>9 DEF Width
    <3>11. z.step <= h + 1 + 1 /\ (z.step = h + 1 + 1 => 1 = 0) /\ 1 \in 0..1
      BY <3>5, <3>9
    <3>12. Sound(c, z, h, 1)
      BY <1>2, <3>5, <3>7, <3>9, <3>10, <3>11 DEF Sound
    <3>. QED  BY <3>4, <3>12 DEF Ok
  <2>. QED  BY <2>8, <2>9
<1>. QED  BY <1>2, <1>5, <1>6

\* The step may be set back anywhere.
SetTo(e, n, r) ==
    \/ n \in 0..e.step /\ r.e.step = n /\ r.e.tokens = e.tokens /\ r.ok = TRUE
    \/ n \notin 0..e.step /\ r.e = e /\ r.ok = FALSE

LEMMA SetStepIs ==
    ASSUME NEW c, Built(c), NEW e, NEW g, NEW q, Sound(c, e, g, q), c.sampler # "npu",
           NEW n, NEW r, r = SetCurrentStep(e, n)
    PROVE  Sound(c, r.e, g, q) /\ SetTo(e, n, r)
<1>1. e \in ExecSet /\ e.step \in Nat /\ g \in Nat /\ q \in 0..1
  BY SoundFacts
<1>2. CASE n \in 0..e.step
  <2>1. PICK x : x = [e EXCEPT !.step = n]
    OBVIOUS
  <2>2. r = Ok(x)
    BY <1>2, <2>1 DEF SetCurrentStep
  <2>3. /\ x \in ExecSet /\ x.step = n /\ x.tokens = e.tokens /\ x.kv = e.kv /\ x.room = e.room
        /\ x.ranDecode = e.ranDecode /\ x.ahead = e.ahead
    BY SMTT(30), <1>1, <1>2, <2>1 DEF ExecSet
  <2>4. Width(c, x) = Width(c, e)
    BY <2>3 DEF Width
  <2>5. e.step <= g + q + 1 /\ (e.step = g + q + 1 => q = 0)
    BY DEF Sound
  <2>6. n <= g + q + 1 /\ (n = g + q + 1 => q = 0)
    BY <1>1, <1>2, <2>5
  <2>7. Sound(c, x, g, q)
    BY <2>3, <2>4, <2>6 DEF Sound
  <2>8. r.e = x /\ r.ok = TRUE
    BY <2>2 DEF Ok
  <2>9. r.e.step = n
    BY <2>3, <2>8
  <2>10. Sound(c, r.e, g, q)
    BY <2>7, <2>8
  <2>. QED  BY <1>2, <2>3, <2>8, <2>9, <2>10 DEF SetTo
<1>3. CASE n \notin 0..e.step
  <2>1. r = Err(e)
    BY <1>3 DEF SetCurrentStep
  <2>2. r.e = e /\ r.ok = FALSE
    BY <2>1 DEF Err
  <2>. QED  BY <1>3, <2>2 DEF SetTo
<1>. QED  BY <1>2, <1>3

\* A run whose token was given by the caller leaves the step past the tokens.
LEMMA RunDoneIs ==
    ASSUME NEW c, Built(c), NEW x, NEW g, RunDone(c, x, g), ~x.ahead
    PROVE  Sound(c, x, g, 0) /\ x.step = g + 1
<1>1. /\ x \in ExecSet /\ g \in Nat /\ Holding(x.tokens, x.kv, c.heads, g, 0)
      /\ x.step = g + 1 /\ x.ranDecode = TRUE /\ c.sampler # "npu"
      /\ c.dynamic => \A i \in 1..Len(x.kv) : Len(x.kv[i]) <= x.room
  BY DEF RunDone
<1>2. Width(c, x) = c.heads
  BY <1>1 DEF Width
<1>3. x.step <= g + 0 + 1 /\ (x.step = g + 0 + 1 => 0 = 0) /\ 0 \in 0..1
  BY <1>1
<1>. QED  BY <1>1, <1>2, <1>3 DEF Sound

\* Whether the executor is ready, or past its tokens, in the numbers of its tokens.
Counts(c, e, g, q) ==
    /\ g \in Nat /\ q \in 0..1 /\ e.step \in Nat
    /\ GetStep(e.tokens) = g /\ Len(e.tokens[1].pending) = q /\ TokenCount(e.tokens) = g + q
    /\ HasPending(e.tokens) <=> q = 1
    /\ Ready(e) <=> (e.step = g + 1 /\ q = 1 /\ ~e.ahead)
    /\ Past(e) <=> e.step = g + q + 1
    /\ e.step <= g + q + 1 /\ (e.step = g + q + 1 => q = 0) /\ (e.ahead => q = 1)

LEMMA SoundCounts ==
    ASSUME NEW c, Built(c), NEW e, NEW g, NEW q, Sound(c, e, g, q)
    PROVE  Counts(c, e, g, q)
<1>1. /\ g \in Nat /\ q \in 0..1 /\ e.step \in Nat /\ Candidates(e.tokens, e.kv, Width(c, e), g, q)
  BY SoundFacts
<1>2. /\ GetStep(e.tokens) = g /\ TokenCount(e.tokens) = g + q
      /\ HasPending(e.tokens) <=> q = 1
      /\ Len(e.tokens[1].pending) = q
  BY <1>1 DEF Candidates
<1>3. e.step <= g + q + 1 /\ (e.step = g + q + 1 => q = 0) /\ (e.ahead => q = 1)
  BY DEF Sound
<1>4. Past(e) <=> e.step = g + q + 1
  BY <1>2 DEF Past
<1>5. Ready(e) <=> (e.step = g + q /\ q = 1 /\ ~e.ahead)
  BY <1>2 DEF Ready
<1>6. Ready(e) <=> (e.step = g + 1 /\ q = 1 /\ ~e.ahead)
  BY <1>1, <1>5
<1>. QED  BY <1>1, <1>2, <1>3, <1>4, <1>6 DEF Counts

(***************************************************************************)
(* What the operations make of the context: the tokens of the first         *)
(* candidate, up to the step.                                               *)
(***************************************************************************)
\* The first candidate has processed a, and b is pending.
Has(ts, a, b) ==
    1 \in DOMAIN ts /\ a \in Seq(Int) /\ b \in Seq(Int) /\ ts[1] = [ids |-> a, pending |-> b]

Line(ts) == ts[1].ids \o ts[1].pending

LEMMA HasIs ==
    ASSUME NEW c, Built(c), NEW e, NEW g, NEW q, Sound(c, e, g, q)
    PROVE  \E a, b : Has(e.tokens, a, b) /\ Len(a) = g /\ Len(b) = q
<1>1. PICK ts, n : ts = e.tokens /\ n = Width(c, e) /\ Candidates(ts, e.kv, n, g, q)
  BY SoundFacts
<1>2. /\ 1 \in DOMAIN ts /\ ts[1].ids \in Seq(Int) /\ Len(ts[1].ids) = g
      /\ ts[1].pending \in Seq(Int) /\ Len(ts[1].pending) = q
      /\ ts[1] = [ids |-> ts[1].ids, pending |-> ts[1].pending]
  BY <1>1 DEF Candidates
<1>. QED  BY <1>1, <1>2 DEF Has

LEMMA LineIs ==
    ASSUME NEW ts, NEW a, NEW b, Has(ts, a, b)
    PROVE  Line(ts) = a \o b /\ Line(ts) \in Seq(Int) /\ Len(Line(ts)) = Len(a) + Len(b)
  BY DEF Has, Line

LEMMA HasMarked ==
    ASSUME NEW ts, NEW a, NEW b, Has(ts, a, b)
    PROVE  Has(MarkPendingAsProcessed(ts), a \o b, <<>>)
<1>1. a \o b \in Seq(Int) /\ <<>> \in Seq(Int)
  BY DEF Has
<1>2. ts[1].ids = a /\ ts[1].pending = b /\ 1 \in DOMAIN ts
  BY DEF Has
<1>3. PICK u : u = MarkPendingAsProcessed(ts)
  OBVIOUS
<1>4. DOMAIN u = DOMAIN ts /\ u[1] = [ids |-> ts[1].ids \o ts[1].pending, pending |-> <<>>]
  BY <1>2, <1>3 DEF MarkPendingAsProcessed
<1>. QED  BY <1>1, <1>2, <1>3, <1>4 DEF Has

LEMMA HasPended ==
    ASSUME NEW ts, NEW a, NEW b, Has(ts, a, b), NEW toks, toks[1] \in Int
    PROVE  Has(AddPending(ts, toks), a, <<toks[1]>>)
<1>1. <<toks[1]>> \in Seq(Int)
  OBVIOUS
<1>2. [ts[1] EXCEPT !.pending = <<toks[1]>>] = [ids |-> a, pending |-> <<toks[1]>>]
  BY DEF Has
<1>. QED  BY <1>1, <1>2 DEF Has, AddPending

LEMMA HasProcessed ==
    ASSUME NEW ts, NEW a, NEW b, Has(ts, a, b), NEW new \in Seq(Int)
    PROVE  Has(AddProcessedTokens(ts, new), a \o new, b)
<1>1. a \o new \in Seq(Int)
  BY DEF Has
<1>2. [ts[1] EXCEPT !.ids = ts[1].ids \o new] = [ids |-> a \o new, pending |-> b]
  <2>1. ts[1].ids = a /\ ts[1].pending = b /\ ts[1] = [ids |-> ts[1].ids, pending |-> ts[1].pending]
    BY DEF Has
  <2>. QED  BY <2>1, IdsExcept
<1>. QED  BY <1>1, <1>2 DEF Has, AddProcessedTokens

LEMMA HasInvalidated ==
    ASSUME NEW ts, NEW a, NEW b, Has(ts, a, b)
    PROVE  Has(InvalidatePending(ts), a, <<>>)
<1>1. [ts[1] EXCEPT !.pending = <<>>] = [ids |-> a, pending |-> <<>>] /\ <<>> \in Seq(Int)
  BY DEF Has
<1>. QED  BY <1>1 DEF Has, InvalidatePending

LEMMA HasCut ==
    ASSUME NEW ts, NEW a, NEW b, Has(ts, a, b), NEW m \in Nat, m <= Len(a), m # TokenCount(ts)
    PROVE  Has(RollBackToStep(ts, m), SubSeq(a, 1, m), <<>>)
<1>1. SubSeq(a, 1, m) \in Seq(Int) /\ <<>> \in Seq(Int)
  BY DEF Has
<1>2. ts[1].ids = a /\ 1 \in DOMAIN ts
  BY DEF Has
<1>3. PICK u : u = RollBackToStep(ts, m)
  OBVIOUS
<1>4. DOMAIN u = DOMAIN ts /\ u[1] = [ids |-> SubSeq(ts[1].ids, 1, m), pending |-> <<>>]
  BY <1>2, <1>3 DEF RollBackToStep
<1>. QED  BY <1>1, <1>2, <1>3, <1>4 DEF Has

\* A sequence up to a place, or all of it.
Upto(s, n) == SubSeq(s, 1, IF n < Len(s) THEN n ELSE Len(s))

LEMMA UptoIs ==
    ASSUME NEW s \in Seq(Int), NEW n \in Nat
    PROVE  /\ Upto(s, n) \in Seq(Int)
           /\ n >= Len(s) => Upto(s, n) = s
           /\ n < Len(s) => Upto(s, n) = SubSeq(s, 1, n) /\ Len(Upto(s, n)) = n
<1>1. CASE n < Len(s)
  <2>1. Upto(s, n) = SubSeq(s, 1, n)
    BY <1>1 DEF Upto
  <2>2. SubSeq(s, 1, n) \in Seq(Int) /\ Len(SubSeq(s, 1, n)) = n
    BY <1>1
  <2>. QED  BY <1>1, <2>1, <2>2
<1>2. CASE n >= Len(s)
  <2>1. Upto(s, n) = SubSeq(s, 1, Len(s))
    BY <1>2 DEF Upto
  <2>. QED  BY <1>2, <2>1
<1>. QED  BY <1>1, <1>2

LEMMA ContextIs ==
    ASSUME NEW e, NEW a, NEW b, Has(e.tokens, a, b)
    PROVE  ContextOf(e) = Upto(Line(e.tokens), e.step)
<1>1. CopyOfTokens(e.tokens)[1] = Line(e.tokens)
  BY DEF Has, CopyOfTokens, Line
<1>. QED  BY <1>1 DEF ContextOf, Upto

\* The context of an executor with n tokens.
Content(e, n, s, x) ==
    /\ s \in Seq(Int) /\ Len(s) = n /\ x \in Seq(Int) /\ e.step \in Nat
    /\ e.step >= n => x = s
    /\ e.step < n => x = SubSeq(s, 1, e.step) /\ Len(x) = e.step

LEMMA ContentIs ==
    ASSUME NEW e, NEW a, NEW b, Has(e.tokens, a, b), e.step \in Nat
    PROVE  Content(e, Len(a) + Len(b), Line(e.tokens), ContextOf(e))
<1>1. PICK s, x : s = Line(e.tokens) /\ x = ContextOf(e)
  OBVIOUS
<1>2. s \in Seq(Int) /\ Len(s) = Len(a) + Len(b) /\ x = Upto(s, e.step)
  BY <1>1, LineIs, ContextIs
<1>3. PICK m : m = e.step
  OBVIOUS
<1>4. /\ x \in Seq(Int) /\ m \in Nat
      /\ m >= Len(s) => x = s
      /\ m < Len(s) => x = SubSeq(s, 1, m) /\ Len(x) = m
  BY <1>2, <1>3, UptoIs
<1>. QED  BY <1>1, <1>2, <1>3, <1>4 DEF Content

LEMMA SoundContent ==
    ASSUME NEW c, Built(c), NEW e, NEW g, NEW q, Sound(c, e, g, q)
    PROVE  Content(e, g + q, Line(e.tokens), ContextOf(e))
<1>1. PICK a, b : Has(e.tokens, a, b) /\ Len(a) = g /\ Len(b) = q
  BY HasIs
<1>2. e.step \in Nat
  BY SoundFacts
<1>. QED  BY <1>1, <1>2, ContentIs

LEMMA PartOfLine ==
    ASSUME NEW a \in Seq(Int), NEW b \in Seq(Int), NEW n \in Nat, n <= Len(a)
    PROVE  SubSeq(a \o b, 1, n) = SubSeq(a, 1, n)
<1>1. PICK s : s = a \o b
  OBVIOUS
<1>2. s \in Seq(Int) /\ Len(s) = Len(a) + Len(b) /\ \A p \in 1..Len(a) : s[p] = a[p]
  BY <1>1, Appended
<1>3. Len(SubSeq(s, 1, n)) = n /\ Len(SubSeq(a, 1, n)) = n
  BY <1>2
<1>4. \A p \in 1..n : SubSeq(s, 1, n)[p] = SubSeq(a, 1, n)[p]
  BY SMTT(30), <1>2
<1>5. SubSeq(s, 1, n) \in Seq(Int) /\ SubSeq(a, 1, n) \in Seq(Int)
  BY <1>2
<1>. QED  BY <1>1, <1>3, <1>4, <1>5, SeqEqual

FoundAt(ts, m, n, u) == u \in Seq(Int) /\ Len(u) = n /\ u[1] = ts[1].ids[m + 1]

LEMMA FoundAtIs ==
    ASSUME NEW ts, NEW kv, NEW n \in Nat \ {0}, NEW g \in Nat, NEW q \in 0..1,
           Holding(ts, kv, n, g, q), NEW m \in Nat, m < g
    PROVE  FoundAt(ts, m, n, TokenAtStep(ts, m))
  BY TokenAtStepIs DEF FoundAt

\* Cutting the tokens to the step leaves the context.
LEMMA RollBackSays ==
    ASSUME NEW c, Built(c), NEW e, NEW g, NEW q, Sound(c, e, g, q),
           Width(c, e) = 1 \/ e.step >= g + q,
           NEW r, r = RollBackProcessedTokens(e)
    PROVE  \E a, b : Has(r.e.tokens, a, b) /\ Line(r.e.tokens) = ContextOf(e)
<1>1. PICK ts, s, kv : ts = e.tokens /\ s = e.step /\ kv = e.kv
  OBVIOUS
<1>2. PICK a, b : Has(ts, a, b) /\ Len(a) = g /\ Len(b) = q
  BY <1>1, HasIs
<1>3. PICK all, x : all = Line(ts) /\ x = ContextOf(e) /\ Content(e, g + q, all, x)
  BY <1>1, SoundContent
<1>4. /\ s \in Nat /\ g \in Nat /\ q \in 0..1 /\ e \in ExecSet /\ TokenCount(ts) = g + q
      /\ a \in Seq(Int) /\ b \in Seq(Int)
  <2>1. Candidates(ts, kv, Width(c, e), g, q)
    BY <1>1, SoundFacts
  <2>. QED  BY <1>1, <1>2, <2>1, SoundFacts DEF Candidates, Has
<1>5. CASE s >= g + q
  <2>1. r.e.tokens = ts
    <3>1. PICK h, p : RolledBack(c, e, r, g, q, h, p)
      BY RollBackIs
    <3>. QED  BY <1>1, <1>5, <3>1 DEF RolledBack
  <2>2. x = all
    BY <1>1, <1>3, <1>5 DEF Content
  <2>. QED  BY <1>2, <1>3, <2>1, <2>2
<1>6. CASE s < g + q
  <2>1. Width(c, e) = 1
    BY <1>1, <1>4, <1>6
  <2>2. x = SubSeq(all, 1, s) /\ all = a \o b
    <3>1. all = a \o b
      BY <1>2, <1>3, LineIs
    <3>. QED  BY <1>1, <1>3, <1>6, <3>1 DEF Content
  <2>3. s <= g
    BY <1>4, <1>6
  <2>4. x = SubSeq(a, 1, s)
    BY <1>2, <1>4, <2>2, <2>3, PartOfLine
  <2>5. ASSUME NEW us, NEW a2, NEW b2, Has(us, a2, b2), a2 \o b2 = x,
               r = Ok([e EXCEPT !.tokens = us, !.ahead = FALSE])
        PROVE  \E a3, b3 : Has(r.e.tokens, a3, b3) /\ Line(r.e.tokens) = x
    <3>1. r.e = [e EXCEPT !.tokens = us, !.ahead = FALSE]
      BY <2>5 DEF Ok
    <3>2. [e EXCEPT !.tokens = us, !.ahead = FALSE].tokens = us
      BY <1>4 DEF ExecSet
    <3>3. r.e.tokens = us
      BY <3>1, <3>2
    <3>. QED  BY <2>5, <3>3, LineIs
  <2>6. CASE s = 0
    <3>1. PICK us : us = RollBackToStep(ts, 0)
      OBVIOUS
    <3>2. r = Ok([e EXCEPT !.tokens = us, !.ahead = FALSE])
      BY <1>1, <1>4, <1>6, <2>6, <3>1 DEF RollBackProcessedTokens
    <3>3. 0 \in Nat /\ 0 <= Len(a) /\ 0 # TokenCount(ts)
      BY <1>2, <1>4, <1>6, <2>6
    <3>4. Has(us, SubSeq(a, 1, 0), <<>>)
      BY <1>2, <3>1, <3>3, HasCut
    <3>5. SubSeq(a, 1, 0) \o <<>> = x
      BY <1>4, <2>4, <2>6
    <3>. QED  BY <1>3, <2>5, <3>2, <3>4, <3>5
  <2>7. CASE s # 0
    <3>1. PICK k \in Nat : k = s - 1 /\ k + 1 = s /\ k < g /\ k <= Len(a) /\ k # g + q
      <4>1. s - 1 \in Nat /\ (s - 1) + 1 = s /\ s - 1 < g /\ s - 1 <= Len(a) /\ s - 1 # g + q
        BY <1>2, <1>4, <1>6, <2>3, <2>7
      <4>. QED  BY <4>1
    <3>2. PICK at, cut : at = TokenAtStep(ts, k) /\ cut = RollBackToStep(ts, k)
      OBVIOUS
    <3>3. at \in Seq(Int) /\ Len(at) = 1 /\ at[1] = a[s]
      <4>1. PICK n \in Nat \ {0} : n = 1 /\ Holding(ts, kv, n, g, q)
        BY <1>1, <2>1 DEF Sound
      <4>2. at \in Seq(Int) /\ Len(at) = 1 /\ at[1] = ts[1].ids[k + 1]
        <5>1. k \in Nat /\ k < g /\ g \in Nat /\ q \in 0..1
          BY <1>4, <3>1
        <5>2. FoundAt(ts, k, n, TokenAtStep(ts, k))
          BY <4>1, <5>1, FoundAtIs
        <5>. QED  BY <3>2, <4>1, <5>2 DEF FoundAt
      <4>3. ts[1].ids = a
        BY <1>2 DEF Has
      <4>. QED  BY <3>1, <4>2, <4>3
    <3>4. Has(cut, SubSeq(a, 1, k), <<>>)
      BY <1>2, <1>4, <3>1, <3>2, HasCut
    <3>5. r = Ok([e EXCEPT !.ahead = FALSE,
                           !.tokens = IF at[1] > 0 THEN AddPending(cut, at)
                                      ELSE AddProcessedTokens(cut, at)])
      <4>1. s # g + q /\ s # 0 /\ ~(s > g + q + 1) /\ s # g + q + 1
            /\ ~(s \in 1..(g + q - 1) /\ Len(at) # 1)
        BY <1>4, <1>6, <2>7, <3>3
      <4>2. at = TokenAtStep(e.tokens, e.step - 1) /\ cut = RollBackToStep(e.tokens, e.step - 1)
        BY <1>1, <3>1, <3>2
      <4>. QED  BY <1>1, <1>4, <4>1, <4>2 DEF RollBackProcessedTokens
    <3>6. SubSeq(a, 1, k) \o <<a[s]>> = SubSeq(a, 1, s) /\ at = <<a[s]>> /\ a[s] \in Int
      <4>1. s \in 1..Len(a) /\ k \in 0..Len(a)
        BY <1>2, <1>4, <2>3, <2>7, <3>1
      <4>2. SubSeq(a, 1, k) \o <<a[s]>> = SubSeq(a, 1, s)
        BY <1>4, <3>1, <4>1
      <4>. QED  BY <1>4, <3>3, <4>1, <4>2
    <3>7. CASE at[1] > 0
      <4>1. PICK us : us = AddPending(cut, at)
        OBVIOUS
      <4>2. r = Ok([e EXCEPT !.tokens = us, !.ahead = FALSE])
        <5>1. r = Ok([e EXCEPT !.ahead = FALSE, !.tokens = us])
          BY <3>5, <3>7, <4>1
        <5>2. [e EXCEPT !.ahead = FALSE, !.tokens = us] = [e EXCEPT !.tokens = us, !.ahead = FALSE]
          BY <1>4 DEF ExecSet
        <5>. QED  BY <5>1, <5>2
      <4>3. Has(us, SubSeq(a, 1, k), <<at[1]>>)
        BY <3>3, <3>4, <3>6, <4>1, HasPended
      <4>4. SubSeq(a, 1, k) \o <<at[1]>> = x
        BY <2>4, <3>3, <3>6
      <4>. QED  BY <1>3, <2>5, <4>2, <4>3, <4>4
    <3>8. CASE ~(at[1] > 0)
      <4>1. PICK us : us = AddProcessedTokens(cut, at)
        OBVIOUS
      <4>2. r = Ok([e EXCEPT !.tokens = us, !.ahead = FALSE])
        <5>1. r = Ok([e EXCEPT !.ahead = FALSE, !.tokens = us])
          BY <3>5, <3>8, <4>1
        <5>2. [e EXCEPT !.ahead = FALSE, !.tokens = us] = [e EXCEPT !.tokens = us, !.ahead = FALSE]
          BY <1>4 DEF ExecSet
        <5>. QED  BY <5>1, <5>2
      <4>3. Has(us, SubSeq(a, 1, k) \o at, <<>>)
        BY <3>3, <3>4, <4>1, HasProcessed
      <4>4. (SubSeq(a, 1, k) \o at) \o <<>> = x
        <5>1. SubSeq(a, 1, k) \o at = x /\ x \in Seq(Int)
          BY <1>3, <2>4, <3>6 DEF Content
        <5>. QED  BY <5>1
      <4>. QED  BY <1>3, <2>5, <4>2, <4>3, <4>4
    <3>. QED  BY <3>7, <3>8
  <2>. QED  BY <2>6, <2>7
<1>. QED  BY <1>4, <1>5, <1>6

LEMMA PreparedHas ==
    ASSUME NEW c, NEW e \in ExecSet, NEW a, NEW b, Has(e.tokens, a, b), c.heads \in Nat \ {0}
    PROVE  /\ Has(PrepareFirstPrefillAfterDecode(e).tokens, a, b)
           /\ Has(PrepareFirstDecode(c, e).tokens, a, b)
<1>1. 1 \in DOMAIN e.tokens /\ e.tokens[1] = [ids |-> a, pending |-> b] /\ a \in Seq(Int) /\ b \in Seq(Int)
  BY DEF Has
<1>2. ASSUME NEW us, 1 \in DOMAIN us, us[1] = e.tokens[1]
      PROVE  Has(us, a, b)
  BY <1>1, <1>2 DEF Has
<1>3. Has(PrepareFirstPrefillAfterDecode(e).tokens, a, b)
  <2>1. CASE ~e.ranDecode
    BY <2>1 DEF PrepareFirstPrefillAfterDecode
  <2>2. CASE e.ranDecode
    <3>1. PrepareFirstPrefillAfterDecode(e).tokens = <<e.tokens[1]>>
      BY <2>2 DEF PrepareFirstPrefillAfterDecode, ExecSet
    <3>2. 1 \in DOMAIN <<e.tokens[1]>> /\ <<e.tokens[1]>>[1] = e.tokens[1]
      OBVIOUS
    <3>. QED  BY <1>2, <3>1, <3>2
  <2>. QED  BY <2>1, <2>2
<1>4. Has(PrepareFirstDecode(c, e).tokens, a, b)
  <2>1. CASE e.ranDecode
    BY <2>1 DEF PrepareFirstDecode
  <2>2. CASE ~e.ranDecode
    <3>1. PrepareFirstDecode(c, e).tokens = [i \in 1..c.heads |-> e.tokens[1]]
      BY <2>2 DEF PrepareFirstDecode, ExecSet
    <3>2. 1 \in 1..c.heads
      OBVIOUS
    <3>. QED  BY <1>2, <3>1, <3>2
  <2>. QED  BY <2>1, <2>2
<1>. QED  BY <1>3, <1>4

LEMMA PreparedSays ==
    ASSUME NEW c, Built(c), NEW e, NEW g, NEW q, Sound(c, e, g, q), NEW x, NEW ran,
           Prepared(c, e, g, q, x, ran),
           x = PrepareFirstPrefillAfterDecode(e) \/ x = PrepareFirstDecode(c, e)
    PROVE  ContextOf(x) = ContextOf(e) /\ \E a, b : Has(e.tokens, a, b) /\ Has(x.tokens, a, b)
<1>1. PICK a, b : Has(e.tokens, a, b)
  BY HasIs
<1>2. e \in ExecSet /\ c.heads \in Nat \ {0}
  BY DEF Sound, Built
<1>3. Has(x.tokens, a, b)
  BY <1>1, <1>2, PreparedHas
<1>4. x.step = e.step
  BY DEF Prepared
<1>5. Line(x.tokens) = Line(e.tokens)
  BY <1>1, <1>3, LineIs
<1>. QED  BY <1>1, <1>3, <1>4, <1>5, ContextIs

\* The tokens us hold s and ids behind it, the last of which is pending.
Grown(us, s, ids) ==
    \E a, b : Has(us, a, b) /\ b = <<ids[Len(ids)]>> /\ Line(us) = s \o ids

FrontLast(ids, front, last) ==
    /\ front = SubSeq(ids, 1, Len(ids) - 1) /\ last = ids[Len(ids)]
    /\ front \in Seq(Int) /\ last \in Int /\ ids = front \o <<last>>

LEMMA FrontAndLast ==
    ASSUME NEW ids \in Seq(Int), ids # <<>>
    PROVE  \E front, last : FrontLast(ids, front, last)
<1>1. PICK k \in Nat : k = Len(ids) - 1 /\ k + 1 = Len(ids)
  <2>1. Len(ids) - 1 \in Nat /\ (Len(ids) - 1) + 1 = Len(ids)
    OBVIOUS
  <2>. QED  BY <2>1
<1>2. PICK front, last : front = SubSeq(ids, 1, k) /\ last = ids[Len(ids)]
  OBVIOUS
<1>3. front \in Seq(Int) /\ last \in Int /\ Len(front) = k /\ \A p \in 1..k : front[p] = ids[p]
  BY <1>1, <1>2
<1>4. PICK all : all = front \o <<last>>
  OBVIOUS
<1>5. all \in Seq(Int) /\ Len(all) = k + 1 /\ \A p \in 1..(k + 1) : all[p] = ids[p]
  BY <1>1, <1>2, <1>3, <1>4
<1>6. ids = all
  BY <1>1, <1>5, SeqEqual
<1>. QED  BY <1>1, <1>2, <1>3, <1>4, <1>6 DEF FrontLast

LEMMA PrefillRunSays ==
    ASSUME NEW e \in ExecSet, NEW a, NEW b, Has(e.tokens, a, b),
           NEW ids \in Seq(Int), ids # <<>>, NEW fail, NEW r, r = PrefillRun(e, ids, fail)
    PROVE  Grown(r.e.tokens, Line(e.tokens), ids)
<1>0. PICK front, last : FrontLast(ids, front, last)
  BY FrontAndLast
<1>1. /\ front = SubSeq(ids, 1, Len(ids) - 1) /\ last = ids[Len(ids)]
      /\ front \in Seq(Int) /\ last \in Int /\ ids = front \o <<last>>
  BY <1>0 DEF FrontLast
<1>2. PICK us, vs, ws : /\ us = MarkPendingAsProcessed(e.tokens)
                        /\ vs = AddProcessedTokens(us, front)
                        /\ ws = AddPending(vs, <<last>>)
  OBVIOUS
<1>3. Has(us, a \o b, <<>>)
  BY <1>2, HasMarked
<1>4. Has(vs, (a \o b) \o front, <<>>)
  BY <1>1, <1>2, <1>3, HasProcessed
<1>5. Has(ws, (a \o b) \o front, <<last>>)
  <2>1. PICK toks : toks = <<last>> /\ toks[1] = last /\ toks[1] \in Int
    BY <1>1
  <2>. QED  BY <1>2, <1>4, <2>1, HasPended
<1>6. r.e.tokens = ws
  BY <1>1, <1>2 DEF PrefillRun, Ok, Err, ExecSet
<1>7. Line(ws) = (a \o b) \o ids
  <2>1. PICK ab, l : ab = a \o b /\ l = <<last>>
    OBVIOUS
  <2>2. ab \in Seq(Int) /\ l \in Seq(Int)
    <3>1. a \in Seq(Int) /\ b \in Seq(Int)
      BY DEF Has
    <3>. QED  BY <1>1, <2>1, <3>1
  <2>3. ab \o (front \o l) = (ab \o front) \o l
    BY <1>1, <2>2, Associative
  <2>4. Line(ws) = (ab \o front) \o l
    BY <1>5, <2>1, LineIs
  <2>5. ids = front \o l
    BY <1>1, <2>1
  <2>6. Line(ws) = ab \o ids
    BY <2>3, <2>4, <2>5
  <2>. QED  BY <2>1, <2>6
<1>8. Line(e.tokens) = a \o b
  BY LineIs
<1>. QED  BY <1>1, <1>5, <1>6, <1>7, <1>8 DEF Grown

LEMMA PrefillDynamicSays ==
    ASSUME NEW e \in ExecSet, NEW a, NEW b, Has(e.tokens, a, b),
           NEW ids \in Seq(Int), ids # <<>>, NEW fail, NEW r, r = PrefillDynamic(e, ids, fail)
    PROVE  Grown(r.e.tokens, Line(e.tokens), ids)
<1>1. CASE ~HasPending(e.tokens) /\ Len(ids) = 1
  <2>1. r = Ok([e EXCEPT !.tokens = AddPending(e.tokens, ids)])
    BY <1>1 DEF PrefillDynamic
  <2>2. r.e.tokens = AddPending(e.tokens, ids)
    BY <2>1 DEF Ok, ExecSet
  <2>3. b = <<>> /\ a \in Seq(Int)
    BY <1>1 DEF HasPending, Has
  <2>4. ids[1] \in Int /\ ids = <<ids[1]>> /\ ids[1] = ids[Len(ids)]
    BY <1>1
  <2>5. Has(r.e.tokens, a, <<ids[1]>>)
    BY <2>2, <2>4, HasPended
  <2>6. Line(r.e.tokens) = a \o ids
    BY <2>4, <2>5, LineIs
  <2>7. Line(e.tokens) = a
    <3>1. Line(e.tokens) = a \o b
      BY LineIs
    <3>. QED  BY <2>3, <3>1
  <2>. QED  BY <2>4, <2>5, <2>6, <2>7 DEF Grown
<1>2. CASE ~(~HasPending(e.tokens) /\ Len(ids) = 1)
  <2>1. PICK room \in Nat : r = PrefillRun([e EXCEPT !.room = room], ids, fail)
    <3>1. GetStep(e.tokens) \in Nat /\ e.room \in Nat
      <4>1. GetStep(e.tokens) = Len(a) /\ a \in Seq(Int)
        BY DEF GetStep, Has
      <4>. QED  BY <4>1 DEF ExecSet
    <3>2. PICK len : len = Len(ids) - (IF HasPending(e.tokens) THEN 0 ELSE 1)
      OBVIOUS
    <3>3. len \in Nat
      BY <3>2
    <3>4. ~(~HasPending(e.tokens) /\ len = 0)
      BY <1>2, <3>2
    <3>5. PICK room : room = IF len > e.room - GetStep(e.tokens) THEN e.room + len ELSE e.room
      OBVIOUS
    <3>6. room \in Nat
      BY <3>1, <3>3, <3>5
    <3>7. r = PrefillRun([e EXCEPT !.room = room], ids, fail)
      BY <3>2, <3>4, <3>5 DEF PrefillDynamic
    <3>. QED  BY <3>6, <3>7
  <2>2. PICK x : x = [e EXCEPT !.room = room]
    OBVIOUS
  <2>3. x \in ExecSet /\ x.tokens = e.tokens
    BY <2>1, <2>2 DEF ExecSet
  <2>4. Grown(r.e.tokens, Line(x.tokens), ids)
    BY <2>1, <2>2, <2>3, PrefillRunSays
  <2>. QED  BY <2>3, <2>4
<1>. QED  BY <1>1, <1>2

LEMMA PrefillInternalSays ==
    ASSUME NEW c, Built(c), NEW e, NEW g, NEW q, Sound(c, e, g, q),
           ~e.ranDecode, e.step <= g + q, NEW ids \in Seq(Int), ids # <<>>,
           NEW fail, NEW r, r = PrefillInternal(c, e, ids, fail)
    PROVE  Grown(r.e.tokens, ContextOf(e), ids)
<1>1. PICK b : b = RollBackProcessedTokens(e)
  OBVIOUS
<1>2. Width(c, e) = 1
  BY DEF Width
<1>3. PICK m, p : RolledBack(c, e, b, g, q, m, p)
  BY <1>1, <1>2, RollBackIs
<1>4. PICK u, v : Has(b.e.tokens, u, v) /\ Line(b.e.tokens) = ContextOf(e)
  BY <1>1, <1>2, RollBackSays
<1>5. PICK x : x = b.e
  OBVIOUS
<1>6. b.ok /\ x \in ExecSet
  BY <1>3, <1>5 DEF RolledBack, Sound
<1>7. CASE c.dynamic
  <2>1. r = PrefillDynamic(x, ids, fail)
    BY <1>1, <1>5, <1>6, <1>7 DEF PrefillInternal
  <2>2. Grown(r.e.tokens, Line(x.tokens), ids)
    BY <1>4, <1>5, <1>6, <2>1, PrefillDynamicSays
  <2>. QED  BY <1>4, <1>5, <2>2
<1>8. CASE ~c.dynamic
  <2>1. r = PrefillRun(x, ids, fail)
    BY <1>1, <1>5, <1>6, <1>8 DEF PrefillInternal
  <2>2. Grown(r.e.tokens, Line(x.tokens), ids)
    BY <1>4, <1>5, <1>6, <2>1, PrefillRunSays
  <2>. QED  BY <1>4, <1>5, <2>2
<1>. QED  BY <1>7, <1>8

\* ids have been added to the context and counted, the last of them pending.
Took(e, ids, x) ==
    /\ ContextOf(x) = ContextOf(e) \o ids /\ x.step = e.step + Len(ids)
    /\ x.tokens[1].pending = <<ids[Len(ids)]>>

\* The context is what it was, ids being pending behind it.
Kept(e, ids, x) ==
    /\ ContextOf(x) = ContextOf(e) /\ x.step = e.step
    /\ x.tokens[1].pending = <<ids[Len(ids)]>>

\* A part of a prefill adds its tokens to the context, or leaves them pending.
PartTaken(c, e, g, q, ids, fail, r, h) ==
    \/ Filled(c, r, h) /\ Took(e, ids, r.e)
    \/ Stored(c, r, h) /\ c.dynamic /\ Len(ids) = 1 /\ ~(e.step = g + q /\ q = 1) /\ Kept(e, ids, r.e)

LEMMA ContextLength ==
    ASSUME NEW c, Built(c), NEW e, NEW g, NEW q, Sound(c, e, g, q)
    PROVE  /\ ContextOf(e) \in Seq(Int)
           /\ e.step <= g + q => Len(ContextOf(e)) = e.step
           /\ e.step > g + q => Len(ContextOf(e)) = g + q
<1>1. PICK s, x, n : s = Line(e.tokens) /\ x = ContextOf(e) /\ n = e.step
  OBVIOUS
<1>2. PICK m : m = g + q
  OBVIOUS
<1>3. Content(e, m, s, x)
  BY <1>1, <1>2, SoundContent
<1>4. n \in Nat /\ m \in Nat
  BY <1>1, <1>2, SoundFacts
<1>. QED  BY <1>1, <1>2, <1>3, <1>4 DEF Content

LEMMA PartTakenIs ==
    ASSUME NEW c, Built(c), NEW e, NEW g, NEW q, Sound(c, e, g, q), c.sampler # "npu",
           ~e.ranDecode, e.step <= g + q, NEW ids \in Seq(Int), ids # <<>>,
           NEW fail \in BOOLEAN, NEW r, r = PrefillInternal(c, e, ids, fail)
    PROVE  \E h : PartTaken(c, e, g, q, ids, fail, r, h)
<1>1. PICK h : PartDone(c, e, g, q, ids, fail, r, h)
  BY PrefillInternalIs
<1>2. Grown(r.e.tokens, ContextOf(e), ids)
  BY PrefillInternalSays
<1>3. PICK a, b : Has(r.e.tokens, a, b) /\ b = <<ids[Len(ids)]>> /\ Line(r.e.tokens) = ContextOf(e) \o ids
  BY <1>2 DEF Grown
<1>4. r.e.tokens[1].pending = <<ids[Len(ids)]>>
  BY <1>3 DEF Has
<1>5. PICK s, t, line : s = ContextOf(e) /\ t = ContextOf(r.e) /\ line = s \o ids
  OBVIOUS
<1>6. PICK n : n = e.step /\ n \in Nat
  BY SoundFacts
<1>7. s \in Seq(Int) /\ Len(s) = n
  BY <1>5, <1>6, ContextLength
<1>8. line \in Seq(Int) /\ Len(line) = n + Len(ids)
  BY <1>5, <1>7
<1>9. ASSUME Sound(c, r.e, h, 1), h \in Nat
      PROVE  /\ h + 1 = n + Len(ids)
             /\ r.e.step >= h + 1 => t = line
             /\ r.e.step < h + 1 => t = SubSeq(line, 1, r.e.step)
  <2>1. PICK m : m = h + 1
    OBVIOUS
  <2>2. Content(r.e, m, line, t)
    BY <1>3, <1>5, <1>9, <2>1, SoundContent
  <2>. QED  BY <1>8, <2>1, <2>2 DEF Content
<1>10. CASE Filled(c, r, h)
  <2>1. Sound(c, r.e, h, 1) /\ h \in Nat /\ r.e.step = h + 1
    BY <1>10 DEF Filled
  <2>2. t = line /\ r.e.step = n + Len(ids)
    BY <1>9, <2>1
  <2>3. Took(e, ids, r.e)
    BY <1>4, <1>5, <1>6, <2>2 DEF Took
  <2>. QED  BY <1>10, <2>3 DEF PartTaken
<1>11. CASE Stored(c, r, h) /\ c.dynamic /\ Len(ids) = 1 /\ ~(e.step = g + q /\ q = 1)
  <2>1. Sound(c, r.e, h, 1) /\ h \in Nat /\ r.e.step = h
    BY <1>11 DEF Stored
  <2>2. h = n /\ t = SubSeq(line, 1, n)
    BY <1>6, <1>9, <1>11, <2>1
  <2>3. SubSeq(line, 1, n) = SubSeq(s, 1, n)
    <3>1. n <= Len(s)
      BY <1>6, <1>7
    <3>. QED  BY <1>5, <1>6, <1>7, <3>1, PartOfLine
  <2>4. SubSeq(s, 1, n) = s
    BY <1>7
  <2>5. Kept(e, ids, r.e)
    BY <1>4, <1>5, <1>6, <2>1, <2>2, <2>3, <2>4 DEF Kept
  <2>. QED  BY <1>11, <2>5 DEF PartTaken
<1>. QED  BY <1>1, <1>10, <1>11 DEF PartDone

\* Nothing of the context is lost.
Longer(e, x) == \E more \in Seq(Int) : ContextOf(x) = ContextOf(e) \o more

LEMMA LongerSame ==
    ASSUME NEW e, NEW x, ContextOf(e) \in Seq(Int), ContextOf(x) = ContextOf(e)
    PROVE  Longer(e, x)
<1>1. PICK s : s = ContextOf(e)
  OBVIOUS
<1>2. s \o <<>> = s /\ <<>> \in Seq(Int)
  BY <1>1
<1>. QED  BY <1>1, <1>2 DEF Longer

LEMMA LongerTwice ==
    ASSUME NEW e, NEW y, NEW x, ContextOf(e) \in Seq(Int), Longer(e, y), Longer(y, x)
    PROVE  Longer(e, x)
<1>1. PICK a \in Seq(Int) : ContextOf(y) = ContextOf(e) \o a
  BY DEF Longer
<1>2. PICK b \in Seq(Int) : ContextOf(x) = ContextOf(y) \o b
  BY DEF Longer
<1>3. PICK s : s = ContextOf(e)
  OBVIOUS
<1>4. s \o (a \o b) = (s \o a) \o b
  BY <1>3, Associative
<1>5. ContextOf(x) = s \o (a \o b) /\ a \o b \in Seq(Int)
  BY <1>1, <1>2, <1>3, <1>4
<1>. QED  BY <1>3, <1>5 DEF Longer

LEMMA TookLonger ==
    ASSUME NEW e, NEW x, NEW ids \in Seq(Int), Took(e, ids, x)
    PROVE  Longer(e, x)
  BY DEF Took, Longer

LEMMA PartLonger ==
    ASSUME NEW c, Built(c), NEW e, NEW g, NEW q, Sound(c, e, g, q), NEW ids \in Seq(Int),
           NEW fail, NEW r, NEW h, PartTaken(c, e, g, q, ids, fail, r, h)
    PROVE  Longer(e, r.e)
<1>1. ContextOf(e) \in Seq(Int)
  BY ContextLength
<1>2. CASE Took(e, ids, r.e)
  BY <1>2, TookLonger
<1>3. CASE Kept(e, ids, r.e)
  BY <1>1, <1>3, LongerSame DEF Kept
<1>. QED  BY <1>2, <1>3 DEF PartTaken

\* Two parts of a prompt.
Parts(ids, front, rest, cut) ==
    /\ front \in Seq(Int) /\ rest \in Seq(Int) /\ Len(front) = cut /\ Len(rest) = Len(ids) - cut
    /\ front # <<>> /\ rest # <<>> /\ ids = front \o rest /\ rest[Len(rest)] = ids[Len(ids)]

LEMMA PartsAre ==
    ASSUME NEW ids \in Seq(Int), NEW cut \in Nat, cut < Len(ids), cut # 0
    PROVE  Parts(ids, SubSeq(ids, 1, cut), SubSeq(ids, cut + 1, Len(ids)), cut)
<1>1. PICK k \in Nat : k = Len(ids) - cut /\ k > 0
  <2>1. Len(ids) - cut \in Nat /\ Len(ids) - cut > 0
    OBVIOUS
  <2>. QED  BY <2>1
<1>2. PICK front, rest : front = SubSeq(ids, 1, cut) /\ rest = SubSeq(ids, cut + 1, Len(ids))
  OBVIOUS
<1>3. front \in Seq(Int) /\ Len(front) = cut /\ \A p \in 1..cut : front[p] = ids[p]
  <2>1. cut <= Len(ids)
    OBVIOUS
  <2>2. \A p \in 1..cut : p \in 1..Len(ids)
    BY <2>1
  <2>3. front \in Seq(Int) /\ Len(front) = cut
    BY SMTT(30), <1>2, <2>2
  <2>4. \A p \in 1..cut : front[p] = ids[p]
    BY SMTT(30), <1>2
  <2>. QED  BY <2>3, <2>4
<1>4. rest \in Seq(Int) /\ Len(rest) = k /\ \A p \in 1..k : rest[p] = ids[cut + p]
  <2>1. \A p \in 1..k : cut + p \in 1..Len(ids)
    BY <1>1
  <2>2. rest \in Seq(Int) /\ Len(rest) = k
    BY SMTT(30), <1>1, <1>2
  <2>3. \A p \in 1..k : rest[p] = ids[cut + p]
    BY SMTT(30), <1>1, <1>2, <2>1
  <2>. QED  BY <2>2, <2>3
<1>5. PICK all : all = front \o rest
  OBVIOUS
<1>6. Len(all) = Len(ids) /\ all \in Seq(Int)
  <2>1. all \in Seq(Int) /\ Len(all) = Len(front) + Len(rest)
    BY <1>3, <1>4, <1>5, Appended
  <2>2. cut + k = Len(ids)
    BY <1>1
  <2>. QED  BY <1>3, <1>4, <2>1, <2>2
<1>7. ASSUME NEW p \in 1..Len(ids)
      PROVE  all[p] = ids[p]
  <2>1. CASE p <= cut
    BY <1>3, <1>5, <2>1
  <2>2. CASE p > cut
    <3>1. p - cut \in 1..k /\ cut + (p - cut) = p
      BY <1>1, <2>2
    <3>2. all[p] = rest[p - cut]
      BY SMTT(30), <1>3, <1>4, <1>5, <2>2, <3>1
    <3>. QED  BY <1>4, <3>1, <3>2
  <2>. QED  BY <2>1, <2>2
<1>8. ids = all
  BY <1>6, <1>7, SeqEqual
<1>9. rest[k] = ids[Len(ids)]
  <2>1. k \in 1..k /\ cut + k = Len(ids)
    BY <1>1
  <2>. QED  BY <1>4, <2>1
<1>10. front # <<>> /\ rest # <<>>
  BY <1>1, <1>3, <1>4
<1>. QED  BY <1>1, <1>2, <1>3, <1>4, <1>5, <1>8, <1>9, <1>10 DEF Parts

LEMMA TookTwice ==
    ASSUME NEW e, NEW y, NEW x, ContextOf(e) \in Seq(Int), e.step \in Nat, NEW ids \in Seq(Int),
           NEW front, NEW rest, NEW cut \in Nat, Parts(ids, front, rest, cut),
           Took(e, front, y), Took(y, rest, x)
    PROVE  Took(e, ids, x)
<1>1. PICK s : s = ContextOf(e)
  OBVIOUS
<1>2. /\ front \in Seq(Int) /\ rest \in Seq(Int) /\ Len(front) = cut /\ Len(rest) = Len(ids) - cut
      /\ ids = front \o rest /\ rest[Len(rest)] = ids[Len(ids)]
  BY DEF Parts
<1>3. s \o ids = (s \o front) \o rest
  BY <1>1, <1>2, Associative
<1>4. ContextOf(x) = (s \o front) \o rest /\ x.step = (e.step + cut) + (Len(ids) - cut)
  BY <1>1, <1>2 DEF Took
<1>5. x.step = e.step + Len(ids)
  BY <1>4
<1>6. x.tokens[1].pending = <<ids[Len(ids)]>>
  BY <1>2 DEF Took
<1>. QED  BY <1>1, <1>3, <1>4, <1>5, <1>6 DEF Took

\* When is a prefill counted?
IsCounted(c, e, g, q, ids, cut) ==
    ~c.dynamic \/ (Len(ids) >= 2 /\ cut # 1) \/ (e.step = g + q /\ q = 1)

PrefillTaken(c, e, g, q, ids, cut, r) ==
    /\ Longer(e, r.e)
    /\ (r.ok \/ cut = 0) /\ IsCounted(c, e, g, q, ids, cut) => Took(e, ids, r.e)

LEMMA PrefillSays ==
    ASSUME NEW c, Built(c), NEW e, NEW g, NEW q, Sound(c, e, g, q), c.sampler # "npu",
           e.step <= g + q, NEW ids \in Seq(Int), NEW cut \in Nat, cut < Len(ids),
           NEW failAt, NEW r, r = Prefill(c, e, ids, cut, failAt)
    PROVE  PrefillTaken(c, e, g, q, ids, cut, r)
<1>1. PICK x : x = PrepareFirstPrefillAfterDecode(e)
  OBVIOUS
<1>2. Sound(c, x, g, q) /\ x.step = e.step /\ ~x.ranDecode /\ ContextOf(x) = ContextOf(e)
  <2>1. Prepared(c, e, g, q, x, FALSE)
    BY <1>1, PreparePrefillIs
  <2>2. ContextOf(x) = ContextOf(e)
    BY <1>1, <2>1, PreparedSays
  <2>. QED  BY <2>1, <2>2 DEF Prepared
<1>3. PICK f1 \in BOOLEAN, f2 \in BOOLEAN : f1 = (failAt = 1) /\ f2 = (failAt = 2)
  OBVIOUS
<1>4. x.step <= g + q /\ ContextOf(x) \in Seq(Int) /\ ContextOf(e) \in Seq(Int) /\ x.step \in Nat
  BY <1>2, ContextLength, SoundFacts
<1>5. ASSUME Took(x, ids, r.e)
      PROVE  Took(e, ids, r.e)
  BY <1>2, <1>5 DEF Took
<1>6. ASSUME Longer(x, r.e)
      PROVE  Longer(e, r.e)
  BY <1>2, <1>6 DEF Longer
<1>7. CASE cut = 0
  <2>1. r = PrefillInternal(c, x, ids, f1)
    BY <1>1, <1>3, <1>7 DEF Prefill
  <2>2. ids # <<>>
    OBVIOUS
  <2>3. PICK h : PartTaken(c, x, g, q, ids, f1, r, h)
    BY <1>2, <1>4, <2>1, <2>2, PartTakenIs
  <2>4. Longer(e, r.e)
    BY <1>2, <1>6, <2>3, PartLonger
  <2>5. ASSUME ~Took(x, ids, r.e)
        PROVE  ~IsCounted(c, e, g, q, ids, cut)
    <3>1. c.dynamic /\ Len(ids) = 1 /\ ~(e.step = g + q /\ q = 1)
      BY <1>2, <2>3, <2>5 DEF PartTaken
    <3>. QED  BY <3>1 DEF IsCounted
  <2>. QED  BY <1>5, <2>4, <2>5 DEF PrefillTaken
<1>8. CASE cut # 0
  <2>1. PICK front, rest : front = SubSeq(ids, 1, cut) /\ rest = SubSeq(ids, cut + 1, Len(ids))
    OBVIOUS
  <2>2. Parts(ids, front, rest, cut)
    BY <1>8, <2>1, PartsAre
  <2>3. /\ front \in Seq(Int) /\ rest \in Seq(Int) /\ Len(front) = cut
        /\ front # <<>> /\ rest # <<>>
    BY <2>2 DEF Parts
  <2>4. PICK a, b : a = PrefillInternal(c, x, front, f1) /\ b = PrefillInternal(c, a.e, rest, f2)
    OBVIOUS
  <2>5. PICK m : PartTaken(c, x, g, q, front, f1, a, m)
    BY <1>2, <1>4, <2>3, <2>4, PartTakenIs
  <2>6. Longer(x, a.e)
    BY <1>2, <2>3, <2>5, PartLonger
  <2>7. r = IF ~a.ok THEN a ELSE b
    BY <1>1, <1>3, <1>8, <2>1, <2>4 DEF Prefill
  <2>8. CASE ~a.ok
    BY <1>6, <1>8, <2>6, <2>7, <2>8 DEF PrefillTaken
  <2>9. CASE a.ok
    <3>1. r = b
      BY <2>7, <2>9
    <3>2. PICK y : y = a.e
      OBVIOUS
    <3>3. Sound(c, y, m, 1) /\ ~y.ranDecode /\ m \in Nat /\ y.step <= m + 1
          /\ b = PrefillInternal(c, y, rest, f2)
      BY <2>4, <2>5, <3>2 DEF PartTaken, Filled, Stored
    <3>4. PICK h : PartTaken(c, y, m, 1, rest, f2, b, h)
      BY <2>3, <3>3, PartTakenIs
    <3>5. Longer(y, b.e)
      BY <2>3, <3>3, <3>4, PartLonger
    <3>6. Longer(e, r.e)
      BY <1>4, <1>6, <2>6, <3>1, <3>2, <3>5, LongerTwice
    <3>7. ASSUME IsCounted(c, e, g, q, ids, cut)
          PROVE  Took(x, ids, r.e)
      <4>1. Filled(c, a, m) /\ Took(x, front, y)
        <5>1. ~(c.dynamic /\ Len(front) = 1 /\ ~(x.step = g + q /\ q = 1))
          BY <1>2, <2>3, <3>7 DEF IsCounted
        <5>. QED  BY <2>5, <3>2, <5>1 DEF PartTaken
      <4>2. y.step = m + 1
        BY <3>2, <4>1 DEF Filled
      <4>3. Took(y, rest, b.e)
        BY <3>4, <4>2 DEF PartTaken
      <4>. QED  BY <1>4, <2>2, <3>1, <4>1, <4>3, TookTwice
    <3>. QED  BY <1>5, <3>6, <3>7 DEF PrefillTaken
  <2>. QED  BY <2>8, <2>9
<1>. QED  BY <1>7, <1>8

LEMMA NpuPartTaken ==
    ASSUME NEW c, Built(c), NEW e, NEW g, NEW q, Sound(c, e, g, q), c.sampler = "npu",
           NEW ids \in Seq(Int), ids # <<>>, NEW fail \in BOOLEAN,
           NEW r, r = NpuPrefillInternal(e, ids, fail)
    PROVE  \E h : Filled(c, r, h) /\ Took(e, ids, r.e)
<1>1. PICK h : Filled(c, r, h) /\ (fail = FALSE => r.ok = TRUE)
  BY NpuPrefillInternalIs
<1>2. NpuRollBack(e) = e
  <2>1. TokenCount(e.tokens) = g + q
    <3>1. Candidates(e.tokens, e.kv, Width(c, e), g, q)
      BY SoundFacts
    <3>. QED  BY <3>1 DEF Candidates
  <2>2. e.step = g + q
    BY DEF Sound
  <2>. QED  BY <2>1, <2>2 DEF NpuRollBack
<1>3. PICK p : p = PrefillRun(e, ids, fail)
  OBVIOUS
<1>4. r.e = p.e
  BY <1>2, <1>3 DEF NpuPrefillInternal, Err
<1>5. PICK a, b : Has(e.tokens, a, b)
  BY HasIs
<1>6. e \in ExecSet
  BY DEF Sound
<1>7. Grown(r.e.tokens, Line(e.tokens), ids)
  BY <1>3, <1>4, <1>5, <1>6, PrefillRunSays
<1>8. PICK s, t, n, m : s = ContextOf(e) /\ t = ContextOf(r.e) /\ n = e.step /\ m = g + q
  OBVIOUS
<1>9. n = m /\ n \in Nat
  BY <1>8, SoundFacts DEF Sound
<1>10. s = Line(e.tokens) /\ s \in Seq(Int) /\ Len(s) = n
  <2>1. Content(e, m, Line(e.tokens), s)
    BY <1>8, SoundContent
  <2>. QED  BY <1>8, <1>9, <2>1 DEF Content
<1>11. PICK u, v : Has(r.e.tokens, u, v) /\ v = <<ids[Len(ids)]>> /\ Line(r.e.tokens) = s \o ids
  BY <1>7, <1>10 DEF Grown
<1>12. r.e.tokens[1].pending = <<ids[Len(ids)]>>
  BY <1>11 DEF Has
<1>13. PICK line : line = s \o ids /\ line \in Seq(Int) /\ Len(line) = n + Len(ids)
  <2>1. s \o ids \in Seq(Int) /\ Len(s \o ids) = n + Len(ids)
    BY <1>10, Appended
  <2>. QED  BY <2>1
<1>14. PICK k : k = h + 1 /\ Sound(c, r.e, h, 1) /\ h \in Nat /\ r.e.step = k
  BY <1>1 DEF Filled
<1>15. Content(r.e, k, line, t)
  BY <1>8, <1>11, <1>13, <1>14, SoundContent
<1>16. t = line /\ k = n + Len(ids)
  BY SMTT(30), <1>13, <1>14, <1>15 DEF Content
<1>17. Took(e, ids, r.e)
  BY <1>8, <1>12, <1>13, <1>14, <1>16 DEF Took
<1>. QED  BY <1>1, <1>17

LEMMA NpuPrefillSays ==
    ASSUME NEW c, Built(c), NEW e, NEW g, NEW q, Sound(c, e, g, q), c.sampler = "npu",
           NEW ids \in Seq(Int), NEW cut \in Nat, cut < Len(ids),
           NEW failAt, NEW r, r = NpuPrefill(e, ids, cut, failAt)
    PROVE  PrefillTaken(c, e, g, q, ids, cut, r)
<1>1. PICK f1 \in BOOLEAN, f2 \in BOOLEAN : f1 = (failAt = 1) /\ f2 = (failAt = 2)
  OBVIOUS
<1>2. ContextOf(e) \in Seq(Int) /\ e.step \in Nat
  BY ContextLength, SoundFacts
<1>3. CASE cut = 0
  <2>1. r = NpuPrefillInternal(e, ids, f1)
    BY <1>1, <1>3 DEF NpuPrefill
  <2>2. ids # <<>>
    OBVIOUS
  <2>3. PICK h : Filled(c, r, h) /\ Took(e, ids, r.e)
    BY <2>1, <2>2, NpuPartTaken
  <2>. QED  BY <2>3, TookLonger DEF PrefillTaken
<1>4. CASE cut # 0
  <2>1. PICK front, rest : front = SubSeq(ids, 1, cut) /\ rest = SubSeq(ids, cut + 1, Len(ids))
    OBVIOUS
  <2>2. Parts(ids, front, rest, cut)
    BY <1>4, <2>1, PartsAre
  <2>3. front \in Seq(Int) /\ rest \in Seq(Int) /\ front # <<>> /\ rest # <<>>
    BY <2>2 DEF Parts
  <2>4. PICK a, b : a = NpuPrefillInternal(e, front, f1) /\ b = NpuPrefillInternal(a.e, rest, f2)
    OBVIOUS
  <2>5. PICK m : Filled(c, a, m) /\ Took(e, front, a.e)
    BY <2>3, <2>4, NpuPartTaken
  <2>6. r = IF ~a.ok THEN a ELSE b
    BY <1>1, <1>4, <2>1, <2>4 DEF NpuPrefill
  <2>7. CASE ~a.ok
    <3>1. Longer(e, r.e)
      BY <2>3, <2>5, <2>6, <2>7, TookLonger
    <3>2. ~r.ok
      BY <2>6, <2>7
    <3>. QED  BY <1>4, <3>1, <3>2 DEF PrefillTaken
  <2>8. CASE a.ok
    <3>1. PICK y : y = a.e
      OBVIOUS
    <3>2. Sound(c, y, m, 1) /\ r = NpuPrefillInternal(y, rest, f2)
      BY <2>4, <2>5, <2>6, <2>8, <3>1 DEF Filled
    <3>3. PICK h : Filled(c, r, h) /\ Took(y, rest, r.e)
      BY <2>3, <3>2, NpuPartTaken
    <3>4. Took(e, ids, r.e)
      BY <1>2, <2>2, <2>5, <3>1, <3>3, TookTwice
    <3>. QED  BY <3>4, TookLonger DEF PrefillTaken
  <2>. QED  BY <2>7, <2>8
<1>. QED  BY <1>3, <1>4

\* The pending token of a decode that is given one.
Instead(b, given) == IF given = <<>> \/ given[1] < 0 THEN b ELSE <<given[1]>>

\* A decode has made its token part of the line, run or not.
RanTo(r, a, b) ==
    /\ ContextOf(r.e) = a \o b
    /\ IF r.ok THEN Has(r.e.tokens, a \o b, <<>>) ELSE Has(r.e.tokens, a, b)

LEMMA GivenHas ==
    ASSUME NEW ts, NEW a, NEW b, Has(ts, a, b), NEW given \in Seq(Int)
    PROVE  Has(TokensToDecode(ts, given), a, Instead(b, given))
<1>1. CASE given = <<>> \/ given[1] < 0
  BY <1>1 DEF TokensToDecode, Instead
<1>2. CASE ~(given = <<>> \/ given[1] < 0)
  <2>1. PICK us, vs : us = InvalidatePending(ts) /\ vs = AddPending(us, given)
    OBVIOUS
  <2>2. given[1] \in Int
    <3>1. 1 \in 1..Len(given)
      BY <1>2
    <3>. QED  BY <3>1
  <2>3. Has(us, a, <<>>)
    BY <2>1, HasInvalidated
  <2>4. Has(vs, a, <<given[1]>>)
    BY <2>1, <2>2, <2>3, HasPended
  <2>. QED  BY <1>2, <2>1, <2>4 DEF TokensToDecode, Instead
<1>. QED  BY <1>1, <1>2

LEMMA WholeLine ==
    ASSUME NEW e, NEW a, NEW b, Has(e.tokens, a, b), e.step \in Nat, e.step >= Len(a) + Len(b)
    PROVE  ContextOf(e) = a \o b
<1>1. PICK s, n : s = a \o b /\ n = e.step
  OBVIOUS
<1>2. s \in Seq(Int) /\ Len(s) = Len(a) + Len(b) /\ ContextOf(e) = Upto(s, n)
  BY <1>1, LineIs, ContextIs
<1>3. n \in Nat /\ n >= Len(s)
  BY <1>1, <1>2
<1>. QED  BY <1>1, <1>2, <1>3, UptoIs

LEMMA DecodeInternalSays ==
    ASSUME NEW c, NEW x \in ExecSet, NEW a, NEW b, Has(x.tokens, a, b), NEW given \in Seq(Int),
           NEW d, d = Instead(b, given), x.step >= Len(a) + Len(d),
           NEW fail, NEW r0, r0.ok, r0.e = x, NEW r, r = DecodeInternal(c, r0, given, fail)
    PROVE  RanTo(r, a, d)
<1>1. PICK us : us = TokensToDecode(x.tokens, given) /\ Has(us, a, d)
  BY GivenHas
<1>2. PICK y : y = [x EXCEPT !.tokens = us, !.room = DecodeRoom(c, x)]
  OBVIOUS
<1>3. y.tokens = us /\ y.step = x.step /\ x.step \in Nat
  BY <1>2 DEF ExecSet
<1>4. CASE r = Err(y)
  <2>1. r.e = y /\ r.ok = FALSE
    BY <1>4 DEF Err
  <2>2. ContextOf(y) = a \o d
    BY <1>1, <1>3, WholeLine
  <2>. QED  BY <1>1, <1>3, <2>1, <2>2 DEF RanTo
<1>5. ASSUME NEW kv, r = Ok([y EXCEPT !.tokens = MarkPendingAsProcessed(us), !.kv = kv,
                                      !.step = y.step + 1])
      PROVE  RanTo(r, a, d)
  <2>1. PICK z : z = [y EXCEPT !.tokens = MarkPendingAsProcessed(us), !.kv = kv,
                               !.step = y.step + 1]
    OBVIOUS
  <2>2. r.e = z /\ r.ok = TRUE
    BY <1>5, <2>1 DEF Ok
  <2>3. z.tokens = MarkPendingAsProcessed(us) /\ z.step = x.step + 1
    BY <1>2, <1>3, <2>1 DEF ExecSet
  <2>4. Has(z.tokens, a \o d, <<>>)
    BY <1>1, <2>3, HasMarked
  <2>5. PICK ad : ad = a \o d
    OBVIOUS
  <2>6. ad \in Seq(Int) /\ Len(ad) = Len(a) + Len(d)
    BY ZenonT(40), <1>1, <2>5, LineIs
  <2>7. z.step \in Nat /\ z.step >= Len(ad) + Len(<<>>)
    BY <1>3, <2>3, <2>6
  <2>8. ContextOf(z) = ad \o <<>>
    BY <2>4, <2>5, <2>7, WholeLine
  <2>9. ad \o <<>> = ad
    BY <2>6
  <2>. QED  BY <2>2, <2>4, <2>5, <2>8, <2>9 DEF RanTo
<1>6. r = Err(y) \/ \E kv : r = Ok([y EXCEPT !.tokens = MarkPendingAsProcessed(us), !.kv = kv,
                                             !.step = y.step + 1])
  <2>1. y = [r0.e EXCEPT !.tokens = TokensToDecode(r0.e.tokens, given), !.room = DecodeRoom(c, r0.e)]
    BY <1>1, <1>2
  <2>2. PICK kv : kv = IF y.ahead THEN y.kv
                       ELSE [i \in DOMAIN y.kv |-> WriteKv(y.kv[i], y.step - 1, y.tokens[i].pending)]
    OBVIOUS
  <2>3. \/ r = Err(y)
        \/ r = Ok([y EXCEPT !.tokens = MarkPendingAsProcessed(y.tokens), !.kv = kv,
                            !.step = y.step + 1])
    BY <2>1, <2>2 DEF DecodeInternal
  <2>. QED  BY <1>3, <2>3
<1>. QED  BY <1>4, <1>5, <1>6

Sized(a, b, g, q) == a \in Seq(Int) /\ b \in Seq(Int) /\ Len(a) = g /\ Len(b) = q

LEMMA HasLengths ==
    ASSUME NEW c, Built(c), NEW e, NEW g, NEW q, Sound(c, e, g, q), NEW a, NEW b, Has(e.tokens, a, b)
    PROVE  Sized(a, b, g, q)
<1>1. PICK a2, b2 : Has(e.tokens, a2, b2) /\ Len(a2) = g /\ Len(b2) = q
  BY HasIs
<1>2. a = a2 /\ b = b2
  BY <1>1 DEF Has
<1>. QED  BY <1>1, <1>2 DEF Has, Sized

\* The token given to a decode is the pending one, or comes after all that there
\* are: what the caller has sampled.
GivenFits(e, g, q, given) ==
    \/ given = <<>> \/ given[1] < 0 \/ e.step = g + q + 1
    \/ e.step = g + q /\ e.tokens[1].pending = <<given[1]>>

LogitsTo(e, g, q, given, r, a, d) ==
    /\ RanTo(r, a, d)
    /\ a \o d = IF e.step = g + q + 1 /\ given # <<>> /\ given[1] >= 0
                THEN ContextOf(e) \o <<given[1]>> ELSE ContextOf(e)

LEMMA DecodeLogitsSays ==
    ASSUME NEW c, Built(c), NEW e, NEW g, NEW q, Sound(c, e, g, q), c.sampler # "npu",
           c.heads = 1 \/ e.step >= g + q,
           NEW given \in Seq(Int), GivenFits(e, g, q, given),
           NEW fail, NEW r, r = DecodeLogits(c, e, given, fail)
    PROVE  \E a, d : LogitsTo(e, g, q, given, r, a, d)
<1>1. PICK x : x = PrepareFirstDecode(c, e)
  OBVIOUS
<1>2. Prepared(c, e, g, q, x, TRUE)
  BY <1>1, PrepareDecodeIs
<1>3. PICK a0, b0 : ContextOf(x) = ContextOf(e) /\ Has(e.tokens, a0, b0) /\ Has(x.tokens, a0, b0)
  BY <1>1, <1>2, PreparedSays
<1>4. Sound(c, x, g, q) /\ x.step = e.step /\ x.ranDecode
  BY <1>2 DEF Prepared
<1>5. Width(c, x) = 1 \/ x.step >= g + q
  BY <1>4 DEF Width
<1>6. PICK r0 : r0 = RollBackProcessedTokens(x)
  OBVIOUS
<1>7. PICK h, p : RolledBack(c, x, r0, g, q, h, p)
  BY <1>4, <1>5, <1>6, RollBackIs
<1>8. PICK a, b : Has(r0.e.tokens, a, b) /\ Line(r0.e.tokens) = ContextOf(e)
  BY <1>3, <1>4, <1>5, <1>6, RollBackSays
<1>9. PICK y : y = r0.e
  OBVIOUS
<1>10. /\ r0.ok /\ Sound(c, y, h, p) /\ y.step = e.step /\ y \in ExecSet
       /\ e.step <= g + q => e.step = h + p
       /\ e.step >= g + q => h = g /\ p = q /\ y.tokens = x.tokens
  BY <1>4, <1>7, <1>9 DEF RolledBack, Sound
<1>11. a \in Seq(Int) /\ b \in Seq(Int) /\ Len(a) = h /\ Len(b) = p
  <2>1. Has(y.tokens, a, b) /\ Sound(c, y, h, p)
    BY <1>8, <1>9, <1>10
  <2>2. Sized(a, b, h, p)
    BY <2>1, HasLengths
  <2>. QED  BY <2>2 DEF Sized
<1>12. g \in Nat /\ q \in 0..1 /\ e.step \in Nat /\ h \in Nat /\ p \in 0..1
       /\ e.step <= g + q + 1 /\ (e.step = g + q + 1 => q = 0)
  BY <1>10, SoundFacts DEF Sound
<1>13. PICK d : d = Instead(b, given)
  OBVIOUS
<1>14. r = DecodeInternal(c, r0, given, fail)
  BY <1>1, <1>6 DEF DecodeLogits
<1>15. a \o b = ContextOf(e)
  BY <1>8, LineIs
<1>16. CASE e.step = g + q + 1 /\ given # <<>> /\ given[1] >= 0
  <2>1. d = <<given[1]>> /\ b = <<>> /\ Len(d) = 1
    <3>1. given[1] \in Int
      BY <1>16
    <3>2. p = 0
      BY <1>10, <1>12, <1>16
    <3>. QED  BY <1>11, <1>13, <1>16, <3>1, <3>2 DEF Instead
  <2>2. y.step >= Len(a) + Len(d)
    BY <1>10, <1>11, <1>12, <1>16, <2>1
  <2>3. RanTo(r, a, d)
    BY <1>8, <1>9, <1>10, <1>13, <1>14, <2>2, DecodeInternalSays
  <2>4. a = ContextOf(e)
    BY <1>11, <1>15, <2>1
  <2>. QED  BY <1>16, <2>1, <2>3, <2>4 DEF LogitsTo
<1>17. CASE ~(e.step = g + q + 1 /\ given # <<>> /\ given[1] >= 0)
  <2>1. d = b
    <3>1. CASE given = <<>> \/ given[1] < 0
      BY <1>13, <3>1 DEF Instead
    <3>2. CASE given # <<>> /\ ~(given[1] < 0)
      <4>1. given[1] >= 0
        <5>1. 1 \in 1..Len(given)
          BY <3>2
        <5>. QED  BY <3>2, <5>1
      <4>2. e.step = g + q /\ e.tokens[1].pending = <<given[1]>>
        BY <1>17, <3>2, <4>1 DEF GivenFits
      <4>3. y.tokens = x.tokens
        BY <1>10, <1>12, <4>2
      <4>4. b = b0
        BY <1>3, <1>8, <1>9, <4>3 DEF Has
      <4>5. b0 = <<given[1]>>
        BY <1>3, <4>2 DEF Has
      <4>. QED  BY <1>13, <3>2, <4>4, <4>5 DEF Instead
    <3>. QED  BY <3>1, <3>2
  <2>2. y.step >= Len(a) + Len(d)
    BY <1>10, <1>11, <1>12, <2>1
  <2>3. RanTo(r, a, d)
    BY <1>8, <1>9, <1>10, <1>13, <1>14, <2>2, DecodeInternalSays
  <2>. QED  BY <1>15, <1>17, <2>1, <2>3 DEF LogitsTo
<1>. QED  BY <1>16, <1>17

\* One sampled token becomes part of the context, or the run has failed.
Spoke(e, toks, r) ==
    ContextOf(r.e) = IF r.ok THEN ContextOf(e) \o toks ELSE ContextOf(e)

LEMMA DecodeSampledSays ==
    ASSUME NEW c, Built(c), NEW e, NEW g, NEW q, Sound(c, e, g, q), c.sampler # "npu",
           c.heads = 1 \/ e.step >= g + q, e.step <= g + q,
           NEW toks \in Seq(Int), Len(toks) >= c.heads,
           NEW fail \in BOOLEAN, NEW w, w = DecodeSampled(c, e, toks, fail)
    PROVE  Spoke(e, <<toks[1]>>, w)
<1>1. PICK r : r = DecodeLogits(c, e, <<>>, fail)
  OBVIOUS
<1>2. PICK none : none = <<>> /\ none \in Seq(Int) /\ GivenFits(e, g, q, none)
  <2>1. GivenFits(e, g, q, <<>>) /\ <<>> \in Seq(Int)
    BY DEF GivenFits
  <2>. QED  BY <2>1
<1>3. PICK a, d : LogitsTo(e, g, q, none, r, a, d)
  BY <1>1, <1>2, DecodeLogitsSays
<1>4. RanTo(r, a, d) /\ a \o d = ContextOf(e)
  BY <1>2, <1>3 DEF LogitsTo
<1>5. w = SampleAndStore(c, r, toks)
  BY <1>1 DEF DecodeSampled
<1>6. PICK past \in BOOLEAN : past = FALSE
  OBVIOUS
<1>7. ~(e.step = g + q + 1)
  BY SoundFacts
<1>8. Sampling(c, e, past, w)
  BY <1>7, DecodeSampledIs
<1>9. CASE ~r.ok
  <2>1. w = r
    BY <1>5, <1>9 DEF SampleAndStore
  <2>. QED  BY <1>4, <1>9, <2>1 DEF RanTo, Spoke
<1>10. CASE r.ok
  <2>1. w.ok = TRUE
    BY <1>5, <1>10 DEF SampleAndStore, Ok
  <2>2. PICK h : Sound(c, w.e, h, 1) /\ w.e.step = h + 1
    BY <1>8, <2>1 DEF Sampling
  <2>3. PICK ts : ts = r.e.tokens /\ Has(ts, a \o d, <<>>)
    BY <1>4, <1>10 DEF RanTo
  <2>4. w.e.tokens = AddPending(ts, toks)
    <3>1. r.e \in ExecSet
      <4>1. Decoded(c, e, past, r)
        <5>1. none = <<>> \/ Len(none) >= c.heads
          BY <1>2
        <5>2. none = <<>> \/ none[1] < 0 \/ (e.step = g + 1 /\ ~e.ahead)
          BY <1>2
        <5>3. e.step = g + q + 1 /\ (none = <<>> \/ none[1] < 0) => past = TRUE
          BY <1>7
        <5>4. r = DecodeLogits(c, e, none, fail)
          BY <1>1, <1>2
        <5>. QED  BY <1>2, <1>6, <5>1, <5>2, <5>3, <5>4, DecodeLogitsIs
      <4>. QED  BY <1>10, <4>1 DEF Decoded, RunDone
    <3>2. PICK x : x = r.e
      OBVIOUS
    <3>3. PICK ah, kv : w = Ok([x EXCEPT !.tokens = AddPending(ts, toks), !.ahead = ah, !.kv = kv])
      BY ZenonT(40), <1>5, <1>10, <2>3, <3>2 DEF SampleAndStore
    <3>4. w.e = [x EXCEPT !.tokens = AddPending(ts, toks), !.ahead = ah, !.kv = kv]
      BY <3>3 DEF Ok
    <3>5. x \in ExecSet
      BY <3>1, <3>2
    <3>6. [x EXCEPT !.tokens = AddPending(ts, toks), !.ahead = ah, !.kv = kv].tokens = AddPending(ts, toks)
      BY <3>5 DEF ExecSet
    <3>. QED  BY <3>4, <3>6
  <2>5. toks[1] \in Int
    <3>1. 1 \in 1..Len(toks)
      BY DEF Built
    <3>. QED  BY <3>1
  <2>6. Has(w.e.tokens, a \o d, <<toks[1]>>)
    BY <2>3, <2>4, <2>5, HasPended
  <2>7. PICK ad, t : ad = a \o d /\ t = <<toks[1]>>
    OBVIOUS
  <2>8. Sized(ad, t, h, 1)
    BY <2>2, <2>6, <2>7, HasLengths
  <2>9. PICK n : n = w.e.step
    OBVIOUS
  <2>10. n \in Nat /\ n >= Len(ad) + Len(t)
    <3>1. h \in Nat /\ n = h + 1
      BY <2>2, <2>9 DEF Sound
    <3>2. Len(ad) = h /\ Len(t) = 1
      BY <2>8 DEF Sized
    <3>. QED  BY <3>1, <3>2
  <2>11. ContextOf(w.e) = ad \o t
    BY <2>6, <2>7, <2>9, <2>10, WholeLine
  <2>. QED  BY <1>4, <2>1, <2>7, <2>11 DEF Spoke
<1>. QED  BY <1>9, <1>10

\* A draft that is accepted becomes part of the context and is counted, its last
\* token pending; one that fails leaves the context.
DraftTo(s, out, r) ==
    /\ ContextOf(r.e) = IF r.ok THEN s \o out ELSE s
    /\ r.ok => /\ r.e.step = Len(s) + Len(out) /\ r.e.step = TokenCount(r.e.tokens)
               /\ r.e.tokens[1].pending = <<out[Len(out)]>>

LEMMA OneToken ==
    ASSUME NEW v \in Int
    PROVE  <<v>> \in Seq(Int) /\ Len(<<v>>) = 1
  OBVIOUS

LEMMA DraftedSays ==
    ASSUME NEW c, NEW x \in ExecSet, NEW a, NEW b, Has(x.tokens, a, b), NEW first \in BOOLEAN,
           first = TRUE => b = <<>> /\ x.step = Len(a) + 1,
           first = FALSE => Len(b) = 1 /\ x.step = Len(a) + 1,
           NEW out \in Seq(Int), out # <<>>, NEW r0, r0.ok, r0.e = x, NEW failAt,
           NEW r, r = Drafted(c, first, r0, out, failAt)
    PROVE  DraftTo(a \o b, out, r)
<1>1. PICK s, us : s = a \o b /\ us = MarkPendingAsProcessed(x.tokens)
  OBVIOUS
<1>2. PICK n : n = x.step /\ n \in Nat
  BY DEF ExecSet
<1>3. s \in Seq(Int) /\ Len(s) = Len(a) + Len(b) /\ a \in Seq(Int) /\ b \in Seq(Int)
  BY <1>1, LineIs DEF Has
<1>4. Has(us, s, <<>>)
  BY <1>1, HasMarked
<1>5. Len(b) \in 0..1 /\ n = Len(a) + 1 /\ (first = TRUE => Len(b) = 0 /\ n = Len(s) + 1)
      /\ (first = FALSE => Len(b) = 1 /\ n = Len(s))
  <2>1. CASE first = TRUE
    <3>1. b = <<>> /\ n = Len(a) + 1
      BY <1>2, <2>1
    <3>2. Len(b) = 0
      BY <3>1
    <3>3. Len(s) = Len(a) /\ Len(a) \in Nat
      BY <1>3, <3>2
    <3>. QED  BY <2>1, <3>1, <3>2, <3>3
  <2>2. CASE first = FALSE
    <3>1. Len(b) = 1 /\ n = Len(a) + 1
      BY <1>2, <2>2
    <3>2. Len(s) = Len(a) + 1 /\ Len(a) \in Nat
      BY <1>3, <3>1
    <3>. QED  BY <2>2, <3>1, <3>2
  <2>. QED  BY <2>1, <2>2
<1>6. CASE failAt # 0
  <2>1. PICK kv : r = Err([x EXCEPT !.kv = kv, !.tokens = us])
    BY <1>1, <1>6 DEF Drafted
  <2>2. r.e = [x EXCEPT !.kv = kv, !.tokens = us] /\ r.ok = FALSE
    BY <2>1 DEF Err
  <2>3. r.e.tokens = us /\ r.e.step = n
    BY <1>2, <2>2 DEF ExecSet
  <2>4. n >= Len(s) + Len(<<>>)
    BY <1>3, <1>5
  <2>5. ContextOf(r.e) = s \o <<>>
    BY <1>2, <1>4, <2>3, <2>4, WholeLine
  <2>6. s \o <<>> = s
    BY <1>3
  <2>. QED  BY <1>1, <2>2, <2>5, <2>6 DEF DraftTo
<1>7. CASE failAt = 0
  <2>1. PICK front, last : FrontLast(out, front, last)
    BY FrontAndLast
  <2>2. /\ front = SubSeq(out, 1, Len(out) - 1) /\ last = out[Len(out)]
        /\ front \in Seq(Int) /\ last \in Int /\ out = front \o <<last>>
    BY <2>1 DEF FrontLast
  <2>3. PICK vs, ws : vs = AddProcessedTokens(us, front) /\ ws = AddPending(vs, <<last>>)
    OBVIOUS
  <2>4. Has(vs, s \o front, <<>>)
    BY <1>4, <2>2, <2>3, HasProcessed
  <2>5. Has(ws, s \o front, <<last>>)
    <3>1. PICK toks : toks = <<last>> /\ toks[1] = last /\ toks[1] \in Int
      BY <2>2
    <3>. QED  BY <2>3, <2>4, <3>1, HasPended
  <2>6. PICK run : run = IF first THEN front ELSE x.tokens[1].pending \o front
    OBVIOUS
  <2>7. PICK kv : r = Ok([x EXCEPT !.tokens = ws, !.kv = kv, !.step = x.step + Len(run)])
    BY <1>1, <1>7, <2>2, <2>3, <2>6 DEF Drafted
  <2>8. r.e = [x EXCEPT !.tokens = ws, !.kv = kv, !.step = x.step + Len(run)] /\ r.ok = TRUE
    BY <2>7 DEF Ok
  <2>9. r.e.tokens = ws /\ r.e.step = n + Len(run)
    BY <1>2, <2>8 DEF ExecSet
  <2>10. PICK k \in Nat : k = Len(front)
    BY <2>2
  <2>11. Len(out) = k + 1
    <3>1. PICK l : l = <<last>> /\ l \in Seq(Int) /\ Len(l) = 1
      <4>1. last \in Int
        BY <2>2
      <4>. QED  BY <4>1, OneToken
    <3>2. Len(front \o l) = Len(front) + Len(l)
      BY <2>2, <3>1, Appended
    <3>. QED  BY <2>2, <2>10, <3>1, <3>2
  <2>12. Len(run) = IF first THEN k ELSE 1 + k
    <3>1. CASE first = TRUE
      BY <2>6, <2>10, <3>1
    <3>2. CASE first = FALSE
      <4>1. x.tokens[1].pending = b
        BY DEF Has
      <4>2. Len(b \o front) = Len(b) + Len(front)
        BY <1>3, <2>2, Appended
      <4>. QED  BY <1>5, <2>6, <2>10, <3>2, <4>1, <4>2
    <3>. QED  BY <3>1, <3>2
  <2>13. n + Len(run) = Len(s) + Len(out)
    <3>1. Len(s) \in Nat
      BY <1>3
    <3>2. CASE first = TRUE
      BY <1>5, <2>11, <2>12, <3>1, <3>2
    <3>3. CASE first = FALSE
      BY <1>5, <2>11, <2>12, <3>1, <3>3
    <3>. QED  BY <3>2, <3>3
  <2>14. PICK sf, l : sf = s \o front /\ l = <<last>>
    OBVIOUS
  <2>15. sf \in Seq(Int) /\ Len(sf) = Len(s) + k /\ l \in Seq(Int) /\ Len(l) = 1
    <3>1. front \in Seq(Int) /\ last \in Int
      BY <2>2
    <3>2. sf \in Seq(Int) /\ Len(sf) = Len(s) + Len(front)
      BY <1>3, <2>14, <3>1, Appended
    <3>3. l \in Seq(Int) /\ Len(l) = 1
      BY <2>14, <3>1, OneToken
    <3>. QED  BY <2>10, <3>2, <3>3
  <2>16. r.e.step \in Nat /\ r.e.step >= Len(sf) + Len(l)
    <3>1. Len(s) \in Nat
      BY <1>3
    <3>. QED  BY <2>9, <2>11, <2>13, <2>15, <3>1
  <2>17. ContextOf(r.e) = sf \o l
    <3>1. Has(r.e.tokens, sf, l)
      BY <2>5, <2>9, <2>14
    <3>. QED  BY <2>16, <3>1, WholeLine
  <2>18. s \o (front \o l) = (s \o front) \o l
    <3>1. front \in Seq(Int) /\ s \in Seq(Int) /\ l \in Seq(Int)
      BY <1>3, <2>2, <2>15
    <3>. QED  BY <3>1, Associative
  <2>19. ContextOf(r.e) = s \o out
    BY <2>2, <2>14, <2>17, <2>18
  <2>20. r.e.tokens[1].pending = <<out[Len(out)]>>
    <3>1. ws[1].pending = <<last>>
      BY <2>5 DEF Has
    <3>2. last = out[Len(out)]
      BY <2>2
    <3>. QED  BY <2>9, <3>1, <3>2
  <2>21. r.e.step = TokenCount(r.e.tokens)
    <3>1. ws[1].ids = sf /\ ws[1].pending = l
      BY <2>5, <2>14 DEF Has
    <3>2. TokenCount(ws) = Len(sf) + Len(l)
      BY <3>1 DEF TokenCount, GetStep
    <3>3. Len(s) \in Nat
      BY <1>3
    <3>. QED  BY <2>9, <2>11, <2>13, <2>15, <3>2, <3>3
  <2>. QED  BY <1>1, <2>8, <2>9, <2>13, <2>19, <2>20, <2>21 DEF DraftTo
<1>. QED  BY <1>6, <1>7

\* A drafter that goes on with its own tokens has one pending.
DraftReady(e) == e.ranDecode => HasPending(RollBackProcessedTokens(e).e.tokens)

LEMMA DecodeDraftedSays ==
    ASSUME NEW c, Built(c), c.sampler = "draft", NEW e, NEW g, NEW q, Sound(c, e, g, q),
           e.step <= g + q, DraftReady(e),
           NEW out \in Seq(Int), out # <<>>,
           NEW failAt, NEW r, r = DecodeDrafted(c, e, out, failAt)
    PROVE  DraftTo(ContextOf(e), out, r)
<1>1. c.heads = 1 /\ c.sampler # "npu" /\ Width(c, e) = 1
  BY DEF Built, Width
<1>2. e.ranDecode \in BOOLEAN /\ g \in Nat /\ q \in 0..1 /\ e.step \in Nat
  BY SoundFacts
<1>3. PICK s : s = ContextOf(e) /\ s \in Seq(Int) /\ Len(s) = e.step
  BY ContextLength
<1>4. CASE e.ranDecode = TRUE
  <2>1. PICK r0 : r0 = RollBackProcessedTokens(e)
    OBVIOUS
  <2>2. PICK h, p : RolledBack(c, e, r0, g, q, h, p)
    BY <1>1, <2>1, RollBackIs
  <2>3. PICK a, b : Has(r0.e.tokens, a, b) /\ Line(r0.e.tokens) = s
    BY <1>1, <1>3, <2>1, RollBackSays
  <2>4. PICK x : x = r0.e
    OBVIOUS
  <2>5. r0.ok /\ Sound(c, x, h, p) /\ x \in ExecSet /\ x.step = e.step /\ h \in Nat /\ p \in 0..1
        /\ e.step = h + p
    BY <1>2, <2>2, <2>4 DEF RolledBack, Sound
  <2>6. Sized(a, b, h, p)
    BY <2>3, <2>4, <2>5, HasLengths
  <2>7. b # <<>>
    <3>1. HasPending(x.tokens)
      BY <1>4, <2>1, <2>4 DEF DraftReady
    <3>. QED  BY <2>3, <2>4, <3>1 DEF HasPending, Has
  <2>8. Len(b) = 1 /\ x.step = Len(a) + 1
    BY <2>5, <2>6, <2>7 DEF Sized
  <2>9. PICK first \in BOOLEAN : first = FALSE
    OBVIOUS
  <2>10. r = Drafted(c, first, r0, out, failAt)
    BY <1>4, <2>1, <2>9 DEF DecodeDrafted
  <2>11. DraftTo(a \o b, out, r)
    BY <2>3, <2>4, <2>5, <2>8, <2>9, <2>10, DraftedSays
  <2>12. a \o b = s
    BY <2>3, LineIs
  <2>. QED  BY <1>3, <2>11, <2>12
<1>5. CASE e.ranDecode = FALSE
  <2>1. PICK fail \in BOOLEAN : fail = (failAt = 1)
    OBVIOUS
  <2>2. PICK none : none = <<>> /\ none \in Seq(Int) /\ GivenFits(e, g, q, none)
    <3>1. GivenFits(e, g, q, <<>>) /\ <<>> \in Seq(Int)
      BY DEF GivenFits
    <3>. QED  BY <3>1
  <2>3. PICK r0 : r0 = DecodeLogits(c, e, none, fail)
    OBVIOUS
  <2>4. PICK a, d : LogitsTo(e, g, q, none, r0, a, d)
    BY <1>1, <2>2, <2>3, DecodeLogitsSays
  <2>5. RanTo(r0, a, d) /\ a \o d = s
    BY <1>3, <2>2, <2>4 DEF LogitsTo
  <2>6. PICK first \in BOOLEAN : first = TRUE
    OBVIOUS
  <2>7. r = Drafted(c, first, r0, out, failAt)
    BY <1>5, <2>1, <2>2, <2>3, <2>6 DEF DecodeDrafted
  <2>8. CASE ~r0.ok
    <3>1. r = r0
      BY <2>7, <2>8 DEF Drafted
    <3>. QED  BY <1>3, <2>5, <2>8, <3>1 DEF RanTo, DraftTo
  <2>9. CASE r0.ok
    <3>1. Has(r0.e.tokens, s, <<>>)
      BY <2>5, <2>9 DEF RanTo
    <3>2. PICK x : x = r0.e
      OBVIOUS
    <3>3. PICK past \in BOOLEAN : past = FALSE
      OBVIOUS
    <3>4. Decoded(c, e, past, r0)
      <4>1. none = <<>> \/ Len(none) >= c.heads
        BY <2>2
      <4>2. none = <<>> \/ none[1] < 0 \/ (e.step = g + 1 /\ ~e.ahead)
        BY <2>2
      <4>3. e.step = g + q + 1 /\ (none = <<>> \/ none[1] < 0) => past = TRUE
        BY <1>2
      <4>. QED  BY <1>1, <2>2, <2>3, <4>1, <4>2, <4>3, DecodeLogitsIs
    <3>5. PICK h : RunDone(c, x, h)
      BY <2>9, <3>2, <3>4 DEF Decoded
    <3>6. x \in ExecSet /\ x.step = h + 1 /\ h \in Nat /\ Holding(x.tokens, x.kv, c.heads, h, 0)
      BY <3>5 DEF RunDone
    <3>7. h = Len(s)
      <4>1. Candidates(x.tokens, x.kv, c.heads, h, 0)
        BY <1>1, <3>6, HoldingFacts
      <4>2. GetStep(x.tokens) = h
        BY <4>1 DEF Candidates
      <4>. QED  BY <3>1, <3>2, <4>2 DEF GetStep, Has
    <3>8. DraftTo(s \o <<>>, out, r)
      <4>1. PICK b : b = <<>> /\ Has(x.tokens, s, b) /\ x.step = Len(s) + 1
        BY <3>1, <3>2, <3>6, <3>7
      <4>2. DraftTo(s \o b, out, r)
        BY <2>6, <2>7, <2>9, <3>2, <3>6, <4>1, DraftedSays
      <4>. QED  BY <4>1, <4>2
    <3>9. s \o <<>> = s
      BY <1>3
    <3>. QED  BY <1>3, <3>8, <3>9
  <2>. QED  BY <2>8, <2>9
<1>. QED  BY <1>2, <1>4, <1>5

LEMMA NpuDecodeSays ==
    ASSUME NEW c, Built(c), NEW e, NEW g, NEW q, Sound(c, e, g, q), c.sampler = "npu",
           NEW toks \in Seq(Int), Len(toks) >= 1, NEW fail \in BOOLEAN,
           NEW r, r = NpuDecode(e, toks, fail)
    PROVE  Spoke(e, <<toks[1]>>, r)
<1>1. PICK n : n = e.step /\ n = g + q /\ n \in Nat /\ e \in ExecSet
  BY SoundFacts DEF Sound
<1>2. TokenCount(e.tokens) = g + q
  <2>1. Candidates(e.tokens, e.kv, Width(c, e), g, q)
    BY SoundFacts
  <2>. QED  BY <2>1 DEF Candidates
<1>3. NpuRollBack(e) = e
  BY <1>1, <1>2 DEF NpuRollBack
<1>4. PICK a, b : Has(e.tokens, a, b)
  BY HasIs
<1>5. a \in Seq(Int) /\ b \in Seq(Int) /\ Len(a) + Len(b) = n
  <2>1. Sized(a, b, g, q)
    BY <1>4, HasLengths
  <2>. QED  BY <1>1, <2>1 DEF Sized
<1>6. PICK s : s = a \o b
  OBVIOUS
<1>7. s \in Seq(Int) /\ Len(s) = n
  BY <1>5, <1>6, Appended
<1>8. ContextOf(e) = s
  <2>1. e.step \in Nat /\ e.step >= Len(a) + Len(b)
    BY <1>1, <1>5
  <2>. QED  BY <1>4, <1>6, <2>1, WholeLine
<1>9. ASSUME NEW kv, r = Err([e EXCEPT !.kv = kv])
      PROVE  Spoke(e, <<toks[1]>>, r)
  <2>1. r.e = [e EXCEPT !.kv = kv] /\ r.ok = FALSE
    BY <1>9 DEF Err
  <2>2. r.e.tokens = e.tokens /\ r.e.step = e.step
    BY <1>1, <2>1 DEF ExecSet
  <2>3. ContextOf(r.e) = ContextOf(e)
    BY <2>2 DEF ContextOf
  <2>. QED  BY <2>1, <2>3 DEF Spoke
<1>10. CASE ~HasPending(e.tokens)
  <2>1. r = Err(e)
    BY <1>3, <1>10 DEF NpuDecode
  <2>2. r.e = e /\ r.ok = FALSE
    BY <2>1 DEF Err
  <2>. QED  BY <2>2 DEF Spoke
<1>11. CASE HasPending(e.tokens) /\ fail = TRUE
  <2>1. PICK kv : r = Err([e EXCEPT !.kv = kv])
    BY <1>3, <1>11 DEF NpuDecode
  <2>. QED  BY <1>9, <2>1
<1>12. CASE HasPending(e.tokens) /\ fail = FALSE
  <2>1. PICK us, ws : us = MarkPendingAsProcessed(e.tokens) /\ ws = AddPending(us, toks)
    OBVIOUS
  <2>2. PICK kv : r = Ok([e EXCEPT !.kv = kv, !.tokens = ws, !.step = e.step + 1])
    BY <1>3, <1>12, <2>1 DEF NpuDecode
  <2>3. r.e = [e EXCEPT !.kv = kv, !.tokens = ws, !.step = e.step + 1] /\ r.ok = TRUE
    BY <2>2 DEF Ok
  <2>4. r.e.tokens = ws /\ r.e.step = n + 1
    BY ZenonT(40), <1>1, <2>3 DEF ExecSet
  <2>5. Has(us, s, <<>>)
    BY <1>4, <1>6, <2>1, HasMarked
  <2>6. toks[1] \in Int
    <3>1. 1 \in 1..Len(toks)
      OBVIOUS
    <3>. QED  BY <3>1
  <2>7. Has(ws, s, <<toks[1]>>)
    BY <2>1, <2>5, <2>6, HasPended
  <2>8. PICK t : t = <<toks[1]>> /\ Len(t) = 1
    BY <2>6, OneToken
  <2>9. r.e.step \in Nat /\ r.e.step >= Len(s) + Len(t)
    BY <1>1, <1>7, <2>4, <2>8
  <2>10. ContextOf(r.e) = s \o t
    <3>1. Has(r.e.tokens, s, t)
      BY <2>4, <2>7, <2>8
    <3>. QED  BY <2>9, <3>1, WholeLine
  <2>. QED  BY <1>8, <2>3, <2>8, <2>10 DEF Spoke
<1>. QED  BY <1>10, <1>11, <1>12

LEMMA UptoTwice ==
    ASSUME NEW s \in Seq(Int), NEW n \in Nat, NEW m \in Nat, m <= n
    PROVE  Upto(Upto(s, n), m) = Upto(s, m)
<1>1. CASE n >= Len(s)
  <2>1. Upto(s, n) = s
    BY <1>1, UptoIs
  <2>. QED  BY <2>1
<1>2. CASE n < Len(s)
  <2>1. PICK t : t = Upto(s, n) /\ t = SubSeq(s, 1, n) /\ t \in Seq(Int) /\ Len(t) = n
    BY <1>2, UptoIs
  <2>2. CASE m < n
    <3>1. PICK u, v : u = SubSeq(t, 1, m) /\ v = SubSeq(s, 1, m)
      OBVIOUS
    <3>2. u \in Seq(Int) /\ Len(u) = m /\ \A p \in 1..m : u[p] = t[p]
      BY <2>1, <2>2, <3>1
    <3>3. v \in Seq(Int) /\ Len(v) = m /\ \A p \in 1..m : v[p] = s[p]
      BY <1>2, <2>2, <3>1
    <3>4. \A p \in 1..n : t[p] = s[p]
      BY <1>2, <2>1
    <3>5. \A p \in 1..m : u[p] = v[p]
      BY SMTT(30), <2>2, <3>2, <3>3, <3>4
    <3>6. u = v
      BY <3>2, <3>3, <3>5, SeqEqual
    <3>7. m < Len(t) /\ m < Len(s)
      BY <1>2, <2>1, <2>2
    <3>8. Upto(t, m) = u /\ Upto(s, m) = v
      BY <2>1, <3>1, <3>7, UptoIs
    <3>. QED  BY <2>1, <3>6, <3>8
  <2>3. CASE m = n
    <3>1. Upto(t, m) = t
      <4>1. m >= Len(t)
        BY <2>1, <2>3
      <4>. QED  BY <2>1, <4>1, UptoIs
    <3>. QED  BY <2>1, <2>3, <3>1
  <2>. QED  BY <2>2, <2>3
<1>. QED  BY <1>1, <1>2

\* Setting the step back cuts the context.
LEMMA SetStepSays ==
    ASSUME NEW c, Built(c), NEW e, NEW g, NEW q, Sound(c, e, g, q), NEW n \in 0..e.step,
           NEW x, x = [e EXCEPT !.step = n]
    PROVE  ContextOf(x) = Upto(ContextOf(e), n)
<1>1. e \in ExecSet /\ e.step \in Nat
  BY SoundFacts
<1>2. x.tokens = e.tokens /\ x.step = n
  BY <1>1 DEF ExecSet
<1>3. PICK a, b : Has(e.tokens, a, b)
  BY HasIs
<1>4. PICK s, m : s = Line(e.tokens) /\ m = e.step
  OBVIOUS
<1>5. s \in Seq(Int) /\ m \in Nat /\ n \in Nat /\ n <= m
  BY <1>1, <1>3, <1>4, LineIs
<1>6. ContextOf(e) = Upto(s, m)
  BY <1>3, <1>4, ContextIs
<1>7. ContextOf(x) = Upto(s, n)
  <2>1. Has(x.tokens, a, b)
    BY <1>2, <1>3
  <2>. QED  BY <1>2, <1>4, <2>1, ContextIs
<1>. QED  BY <1>5, <1>6, <1>7, UptoTwice
=============================================================================
