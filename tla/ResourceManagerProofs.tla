------------------------ MODULE ResourceManagerProofs ------------------------
(***************************************************************************)
(* Proofs about ResourceManager: the inductive invariant ContextInv and     *)
(* what follows from it.                                                    *)
(*                                                                          *)
(* A call cuts the executor's tokens at its handler's step.  SafeCut says   *)
(* that nobody who shares them is further, or that the context is separated *)
(* from the others first, which the code decides from the longest sharer    *)
(* (LongestIsMaximal, from GreatestElement).  Every call is a safe cut and  *)
(* an addition (Continues), which keeps the invariant (CutKeeps).  The      *)
(* refinement maps a handler to its tokens up to its step: a call extends   *)
(* those of its own handler and leaves the others' alone                    *)
(* (OthersKeepTheirContext).                                                *)
(***************************************************************************)
EXTENDS ResourceManager, FiniteSetTheorems, SequenceTheorems, TLAPS

(***************************************************************************)
(* The least and the greatest of a set of numbers.                          *)
(***************************************************************************)
\* A set of naturals has a least element: the intervals 0..x are ordered by
\* inclusion, which is well-founded on finite sets.
LEMMA LeastElement ==
    ASSUME NEW S \in SUBSET Nat, S # {}
    PROVE  \E x \in S : \A y \in S : x <= y
<1>. DEFINE T == {0..x : x \in S}
<1>1. T \subseteq FiniteSubsetsOf(Nat)
  <2>1. \A x \in S : IsFiniteSet(0..x) /\ 0..x \in SUBSET Nat
    BY FS_Interval
  <2>. QED  BY <2>1 DEF FiniteSubsetsOf
<1>2. T # {}
  <2>1. PICK x \in S : TRUE  OBVIOUS
  <2>2. 0..x \in T  OBVIOUS
  <2>. QED  BY <2>2
<1>3. PICK m \in T : \A y \in T : ~(<<y, m>> \in StrictSubsetOrdering(Nat))
  <2>. HIDE DEF T
  <2>. QED  BY <1>1, <1>2, FS_StrictSubsetOrderingWellFounded, WFMin
<1>4. PICK x \in S : m = 0..x
  BY <1>3
<1>5. ASSUME NEW y \in S, y < x  PROVE FALSE
  <2>1. (0..y) \in T  OBVIOUS
  <2>2. (0..y) \subseteq (0..x) /\ x \notin (0..y) /\ x \in (0..x)  BY <1>5
  <2>3. (0..y) # (0..x)  BY <2>2
  <2>4. <<0..y, 0..x>> \in StrictSubsetOrdering(Nat)
    BY <2>2, <2>3 DEF StrictSubsetOrdering
  <2>. QED  BY <1>3, <1>4, <2>1, <2>4
<1>. QED  BY <1>5

\* A set of integers with an upper bound has a greatest element.
LEMMA GreatestElement ==
    ASSUME NEW S \in SUBSET Int, S # {}, NEW b \in Int, \A x \in S : x <= b
    PROVE  \E x \in S : \A y \in S : y <= x
<1>. DEFINE D == {n \in Nat : \E x \in S : n = b - x}
<1>1. D \in SUBSET Nat /\ D # {}
  <2>1. PICK x \in S : TRUE  OBVIOUS
  <2>2. b - x \in D  BY <2>1
  <2>. QED  BY <2>2
<1>2. PICK n \in D : \A m \in D : n <= m
  BY <1>1, LeastElement
<1>3. PICK x \in S : n = b - x
  BY <1>2
<1>4. ASSUME NEW y \in S  PROVE y <= x
  <2>1. b - y \in D  OBVIOUS
  <2>. QED  BY <1>2, <1>3, <2>1
<1>. QED  BY <1>4

(***************************************************************************)
(* The operators of the model.                                              *)
(***************************************************************************)
\* There is always a cell for a new processed context: there are as many
\* cells as handlers, and the handler that wants one needs its own no more.
LEMMA FreshCellIsFree ==
    ASSUME ContextTypeOK, NEW h \in Handler
    PROVE  /\ FreshCell(h) \in Cell
           /\ \A g \in Handler \ {h} : shared[g] # FreshCell(h)
<1>. DEFINE Others == Handler \ {h}
            f == [g \in Others |-> IF shared[g] \in Cell THEN shared[g] ELSE 1]
<1>1. /\ IsFiniteSet(Others) /\ Cardinality(Others) = Cardinality(Handler) - 1
      /\ Cardinality(Handler) \in Nat /\ Cardinality(Handler) >= 1
  <2>1. IsFiniteSet(Others) /\ Cardinality(Others) = Cardinality(Handler) - 1
    BY ContextBounds, FS_RemoveElement
  <2>2. Cardinality(Others) \in Nat /\ Cardinality(Handler) \in Nat
    BY <2>1, ContextBounds, FS_CardinalityType
  <2>. QED  BY <2>1, <2>2
<1>2. Cardinality(Cell) = Cardinality(Handler)
  BY <1>1, FS_Interval DEF Cell
<1>3. \E c \in Cell : \A g \in Others : shared[g] # c
  <2>. SUFFICES ASSUME \A c \in Cell : \E g \in Others : shared[g] = c  PROVE FALSE
    OBVIOUS
  <2>1. 1 \in Cell
    BY <1>1 DEF Cell
  <2>2. f \in [Others -> Cell]
    BY <2>1
  <2>3. \A c \in Cell : \E g \in Others : f[g] = c
    OBVIOUS
  <2>4. f \in Surjection(Others, Cell)
    BY <2>2, <2>3 DEF Surjection
  <2>5. Cardinality(Cell) <= Cardinality(Others)
    BY <2>4, <1>1, FS_Surjection
  <2>. QED  BY <1>1, <1>2, <2>5
<1>. QED  BY <1>3 DEF FreshCell

\* The steps at which the loaded context is in use.
LEMMA LongestIsMaximal ==
    ASSUME ContextTypeOK, CellsSound, current \in Handler, shared[current] # NoCell,
           NEW at \in 0..TokenCount(executor)
    PROVE  /\ LongestHandlerTimeStep(at) \in Int
           /\ at <= LongestHandlerTimeStep(at)
           /\ \A h \in Handler \ {current} :
                shared[h] = shared[current] => saved[h] <= LongestHandlerTimeStep(at)
<1>. DEFINE steps == {at} \cup {saved[h] : h \in {g \in Handler \ {current} :
                                               shared[g] = shared[current]}}
<1>0. TokenCount(executor) \in Nat
  BY DEF ContextTypeOK, TokenCount
<1>1. \A h \in Handler : shared[h] = shared[current] => saved[h] <= TokenCount(executor)
  BY ContextBounds DEF CellsSound, Loaded
<1>2. steps \in SUBSET Int /\ steps # {} /\ \A n \in steps : n <= TokenCount(executor)
  BY <1>0, <1>1 DEF ContextTypeOK
<1>3. \E n \in steps : \A m \in steps : m <= n
  <2>. DEFINE b == TokenCount(executor)
  <2>1. b \in Int /\ \A n \in steps : n <= b
    BY <1>0, <1>2
  <2>. HIDE DEF steps, b
  <2>. QED  BY <1>2, <2>1, GreatestElement
<1>4. LongestHandlerTimeStep(at) = CHOOSE n \in steps : \A m \in steps : m <= n
  BY DEF LongestHandlerTimeStep
<1>5. LongestHandlerTimeStep(at) \in steps /\ \A m \in steps : m <= LongestHandlerTimeStep(at)
  BY <1>3, <1>4
<1>. QED  BY <1>2, <1>5

\* How much of the input is there already: all of it is, or the next token is
\* not the one that follows.
LEMMA MatchingIsLongest ==
    ASSUME ContextTypeOK, NEW ids \in Seq(Int)
    PROVE  LET n == Matching(ids) IN
           /\ n \in 0..Len(ids) /\ executor.step + n <= TokenCount(executor)
           /\ \A i \in 1..n : ids[i] = executor.toks[executor.step + i]
<1>. DEFINE Here(i) == /\ ids[i] >= 0
                       /\ executor.step + i <= TokenCount(executor)
                       /\ ids[i] = executor.toks[executor.step + i]
            Stop(n) == n < Len(ids) => \/ ids[n + 1] < 0
                                       \/ executor.step + n + 1 > TokenCount(executor)
                                       \/ ids[n + 1] # executor.toks[executor.step + n + 1]
            Missing == {i \in 1..Len(ids) : ~Here(i)}
<1>0. /\ executor.step \in Nat /\ TokenCount(executor) \in Nat /\ Len(ids) \in Nat
      /\ executor.step <= TokenCount(executor)
  BY DEF ContextTypeOK, TokenCount
<1>1. \E n \in 0..Len(ids) : (\A i \in 1..n : Here(i)) /\ Stop(n)
  <2>1. CASE Missing = {}
    <3>1. \A i \in 1..Len(ids) : Here(i)  BY <2>1
    <3>2. Stop(Len(ids))  BY <1>0
    <3>. QED  BY <3>1, <3>2, <1>0
  <2>2. CASE Missing # {}
    <3>1. Missing \in SUBSET Nat  BY <1>0
    <3>2. PICK k \in Missing : \A j \in Missing : k <= j
      <4>. HIDE DEF Missing
      <4>. QED  BY <3>1, <2>2, LeastElement
    <3>3. k \in 1..Len(ids) /\ ~Here(k)  BY <3>2
    <3>4. k - 1 \in 0..Len(ids) /\ (k - 1) + 1 = k /\ executor.step + (k - 1) + 1 = executor.step + k
      BY <3>3, <1>0
    <3>5. \A i \in 1..(k - 1) : Here(i)
      <4>1. \A i \in 1..(k - 1) : i \in 1..Len(ids) /\ ~(k <= i)  BY <3>3, <1>0
      <4>2. \A i \in 1..(k - 1) : i \notin Missing  BY <4>1, <3>2
      <4>. QED  BY <4>1, <4>2
    <3>6. ids[k] \in Int
      BY <3>3, <1>0, ElementOfSeq
    <3>7. Stop(k - 1)  
      BY <3>3, <3>4, <3>6, <1>0
    <3>. HIDE DEF Here, Stop
    <3>. QED  BY <3>4, <3>5, <3>7
  <2>. QED  BY <2>1, <2>2
<1>2. Matching(ids) = CHOOSE n \in 0..Len(ids) : (\A i \in 1..n : Here(i)) /\ Stop(n)
  BY DEF Matching
<1>3. Matching(ids) \in 0..Len(ids) /\ \A i \in 1..Matching(ids) : Here(i)
  <2>. HIDE DEF Here, Stop
  <2>. QED  BY <1>1, <1>2
<1>4. executor.step + Matching(ids) <= TokenCount(executor)
  <2>1. CASE Matching(ids) = 0  BY <2>1, <1>0
  <2>2. CASE Matching(ids) # 0
    <3>1. Matching(ids) \in 1..Matching(ids)  BY <2>2, <1>3, <1>0
    <3>. QED  BY <3>1, <1>3
  <2>. QED  BY <2>1, <2>2
<1>. QED  BY <1>3, <1>4

(***************************************************************************)
(* The inductive invariant.                                                 *)
(***************************************************************************)
LEMMA InitContexts == Init => ContextInv
<1>. SUFFICES ASSUME Init  PROVE ContextInv
  OBVIOUS
<1>1. ContextTypeOK
  BY EmptySeq DEF Init, ContextTypeOK, TokenCount, ProcessedContext, Cell, NoCell
<1>2. HandlersSound
  BY ContextBounds DEF Init, HandlersSound
<1>3. CellsSound
  BY DEF Init, CellsSound, Loaded
<1>. QED  BY <1>1, <1>2, <1>3 DEF ContextInv

LEMMA CellsAreNumbers == Cell \subseteq Nat \ {0} /\ NoCell = 0
  BY ContextBounds, FS_CardinalityType DEF Cell, NoCell

LEMMA CreateKeeps ==
    ASSUME ContextInv, NEW h \in Handler, CreateContextHandler(h)
    PROVE  ContextInv'
<1>. DEFINE c == FreshCell(h)
<1>1. c \in Cell /\ \A g \in Handler \ {h} : shared[g] # c
  BY FreshCellIsFree DEF ContextInv
<1>2. /\ shared[h] = NoCell
      /\ shared' = [shared EXCEPT ![h] = c] /\ stored' = [stored EXCEPT ![c] = {NewContext}]
      /\ saved' = [saved EXCEPT ![h] = 0] /\ owned' = owned \cup {h}
      /\ executor' = executor /\ current' = current
  BY DEF CreateContextHandler
<1>3. NewContext \in ProcessedContext /\ Len(NewContext.toks) = 0
  BY EmptySeq DEF NewContext, ProcessedContext
<1>. HIDE DEF c
<1>4. ContextTypeOK'
  BY <1>1, <1>2, <1>3 DEF ContextInv, ContextTypeOK, TokenCount
<1>5. HandlersSound'
  BY <1>1, <1>2, CellsAreNumbers DEF ContextInv, HandlersSound, ContextTypeOK
<1>6. CellsSound'
  <2>0. h # current /\ Loaded' = Loaded /\ Loaded # c
    BY <1>1, <1>2, CellsAreNumbers, ContextBounds
       DEF Loaded, ContextInv, ContextTypeOK, HandlersSound
  <2>1. \A d \in Cell : (\A g \in Handler : shared'[g] # d) => stored'[d] = {}
    BY <1>1, <1>2, CellsAreNumbers DEF ContextInv, CellsSound, ContextTypeOK
  <2>2. Loaded' # NoCell => stored'[Loaded'] = {}
    BY <1>1, <1>2, <2>0 DEF ContextInv, CellsSound, ContextTypeOK
  <2>3. ASSUME NEW g \in Handler, shared'[g] \notin {NoCell, Loaded'}
        PROVE  \E p \in stored'[shared'[g]] : stored'[shared'[g]] = {p} /\ saved'[g] <= Len(p.toks)
    <3>1. CASE g = h
      BY <1>1, <1>2, <1>3, <3>1 DEF ContextInv, ContextTypeOK
    <3>2. CASE g # h
      BY <1>1, <1>2, <2>0, <2>3, <3>2 DEF ContextInv, CellsSound, ContextTypeOK
    <3>. QED  BY <3>1, <3>2
  <2>4. \A g \in Handler : shared'[g] = Loaded' /\ Loaded' # NoCell =>
          saved'[g] <= TokenCount(executor')
    BY <1>1, <1>2, <2>0 DEF ContextInv, CellsSound, ContextTypeOK
  <2>. QED  BY <2>1, <2>2, <2>3, <2>4 DEF CellsSound, TokenCount
<1>. QED  BY <1>4, <1>5, <1>6 DEF ContextInv

LEMMA CloneKeeps ==
    ASSUME ContextInv, NEW h \in Handler, NEW g \in Handler, CloneContextHandler(h, g)
    PROVE  ContextInv'
<1>2. /\ h \in owned /\ shared[g] = NoCell
      /\ shared' = [shared EXCEPT ![g] = shared[h]]
      /\ saved' = [saved EXCEPT ![g] = CloneSource(h)] /\ owned' = owned \cup {g}
      /\ executor' = executor /\ current' = current /\ stored' = stored
  BY DEF CloneContextHandler
<1>3. shared[h] # NoCell /\ (saved[h] = -1 <=> h = current) /\ g # current
  BY <1>2 DEF ContextInv, HandlersSound
<1>4. CloneSource(h) \in Nat
  BY <1>2 DEF ContextInv, ContextTypeOK, CloneSource
<1>5. ContextTypeOK'
  BY <1>2, <1>4 DEF ContextInv, ContextTypeOK, TokenCount
<1>6. HandlersSound'
  BY <1>2, <1>3, <1>4 DEF ContextInv, HandlersSound, ContextTypeOK
<1>7. CellsSound'
  <2>0. Loaded' = Loaded
    BY <1>2, <1>3, ContextBounds DEF Loaded, ContextInv, ContextTypeOK
  <2>1. \A d \in Cell : (\A x \in Handler : shared'[x] # d) => stored'[d] = {}
    BY <1>2, CellsAreNumbers DEF ContextInv, CellsSound, ContextTypeOK
  <2>2. Loaded' # NoCell => stored'[Loaded'] = {}
    BY <1>2, <2>0 DEF ContextInv, CellsSound
  <2>3. ASSUME NEW x \in Handler, shared'[x] \notin {NoCell, Loaded'}
        PROVE  \E p \in stored'[shared'[x]] : stored'[shared'[x]] = {p} /\ saved'[x] <= Len(p.toks)
    <3>1. CASE x = g
      <4>1. shared'[x] = shared[h] /\ h # current
        BY <1>2, <1>3, <3>1, <2>0, <2>3, ContextBounds DEF ContextInv, ContextTypeOK, Loaded
      <4>2. saved'[x] = saved[h]
        BY <1>2, <1>3, <3>1, <4>1 DEF CloneSource, ContextInv, ContextTypeOK
      <4>. QED  BY <1>2, <4>1, <4>2, <2>0, <2>3 DEF ContextInv, CellsSound
    <3>2. CASE x # g
      BY <1>2, <2>0, <2>3, <3>2 DEF ContextInv, CellsSound, ContextTypeOK
    <3>. QED  BY <3>1, <3>2
  <2>4. ASSUME NEW x \in Handler, shared'[x] = Loaded', Loaded' # NoCell
        PROVE  saved'[x] <= TokenCount(executor')
    <3>1. CASE x = g
      <4>1. shared[h] = Loaded
        BY <1>2, <2>0, <2>4, <3>1 DEF ContextInv, ContextTypeOK
      <4>2. saved[h] <= TokenCount(executor) /\ executor.step <= TokenCount(executor)
        BY <2>0, <2>4, <4>1 DEF ContextInv, ContextTypeOK, CellsSound
      <4>. QED
        BY <1>2, <3>1, <4>2 DEF CloneSource, ContextInv, ContextTypeOK
    <3>2. CASE x # g
      BY <1>2, <2>0, <2>4, <3>2 DEF ContextInv, CellsSound, ContextTypeOK
    <3>. QED  BY <3>1, <3>2
  <2>. QED  BY <2>1, <2>2, <2>3, <2>4 DEF CellsSound, TokenCount
<1>. QED  BY <1>5, <1>6, <1>7 DEF ContextInv

LEMMA ReleaseKeeps ==
    ASSUME ContextInv, NEW h \in Handler, ReleaseHandler(h)
    PROVE  ContextInv'
<1>1. CASE h = current
  <2>1. /\ owned' = owned \ {h} /\ UNCHANGED <<executor, current, shared, saved, stored>>
    BY <1>1 DEF ReleaseHandler
  <2>2. ContextTypeOK'
    BY <2>1 DEF ContextInv, ContextTypeOK, TokenCount
  <2>3. HandlersSound'
    BY <2>1, <1>1 DEF ContextInv, HandlersSound
  <2>4. CellsSound'
    BY <2>1 DEF ContextInv, CellsSound, Loaded, TokenCount
  <2>. QED  BY <2>2, <2>3, <2>4 DEF ContextInv
<1>2. CASE h # current
  <2>1. /\ owned' = owned \ {h} /\ shared' = [shared EXCEPT ![h] = NoCell]
        /\ saved' = [saved EXCEPT ![h] = -1]
        /\ stored' = [c \in Cell |-> IF \E g \in Handler : shared'[g] = c
                                       THEN stored[c] ELSE {}]
        /\ executor' = executor /\ current' = current
    BY <1>2 DEF ReleaseHandler, Freed
  <2>2. ContextTypeOK'
    BY <2>1 DEF ContextInv, ContextTypeOK, TokenCount
  <2>3. HandlersSound'
    BY <2>1, <1>2 DEF ContextInv, HandlersSound, ContextTypeOK
  <2>4. CellsSound'
    <3>1. Loaded' = Loaded
      BY <2>1, <1>2, ContextBounds DEF Loaded, ContextInv, ContextTypeOK
    <3>2. \A g \in Handler : shared'[g] # NoCell => shared'[g] = shared[g] /\ saved'[g] = saved[g]
      BY <2>1 DEF ContextInv, ContextTypeOK
    <3>3. \A g \in Handler : shared'[g] # NoCell =>
            shared'[g] \in Cell /\ stored'[shared'[g]] = stored[shared[g]]
      BY <2>1, <2>2, <3>2 DEF ContextTypeOK
    <3>4. Loaded \in Cell \cup {NoCell}
      BY DEF Loaded, ContextInv, ContextTypeOK
    <3>5. \A d \in Cell : (\A g \in Handler : shared'[g] # d) => stored'[d] = {}
      BY <2>1
    <3>6. Loaded' # NoCell => stored'[Loaded'] = {}
      BY <2>1, <3>1, <3>4 DEF ContextInv, CellsSound
    <3>7. ASSUME NEW g \in Handler, shared'[g] \notin {NoCell, Loaded'}
          PROVE  \E p \in stored'[shared'[g]] : stored'[shared'[g]] = {p} /\ saved'[g] <= Len(p.toks)
      BY <3>1, <3>2, <3>3, <3>7 DEF ContextInv, CellsSound
    <3>8. \A g \in Handler : shared'[g] = Loaded' /\ Loaded' # NoCell =>
            saved'[g] <= TokenCount(executor')
      BY <2>1, <3>1, <3>2 DEF ContextInv, CellsSound
    <3>. QED  BY <3>5, <3>6, <3>7, <3>8 DEF CellsSound, TokenCount
  <2>. QED  BY <2>2, <2>3, <2>4 DEF ContextInv
<1>. QED  BY <1>1, <1>2

(***************************************************************************)
(* The calls that cut the tokens at a step: either the context is shared    *)
(* with nobody who is further, or it is separated from the others first.    *)
(***************************************************************************)
SafeCut(step) ==
    \/ /\ UNCHANGED <<shared, stored>>
       /\ \A h \in Handler \ {current} : shared[h] = shared[current] => saved[h] <= step
    \/ Separate

LEMMA CurrentIsLoaded ==
    ASSUME ContextInv, current \in owned
    PROVE  /\ current \in Handler /\ Loaded = shared[current] /\ Loaded \in Cell
           /\ Loaded # NoCell /\ stored[Loaded] = {}
           /\ \A h \in Handler : shared[h] = Loaded => saved[h] <= TokenCount(executor)
  BY ContextBounds, CellsAreNumbers
     DEF ContextInv, ContextTypeOK, HandlersSound, CellsSound, Loaded

LEMMA CopyIsSafe ==
    ASSUME ContextInv, current \in owned,
           NEW at \in 0..TokenCount(executor), NEW step, CopyOnWrite(at, step)
    PROVE  SafeCut(step)
  BY CurrentIsLoaded, LongestIsMaximal DEF CopyOnWrite, SafeCut, ContextInv

LEMMA EndIsSafe ==
    ASSUME ContextInv, current \in owned, UNCHANGED <<shared, stored>>
    PROVE  SafeCut(TokenCount(executor))
  BY CurrentIsLoaded DEF SafeCut

LEMMA TruncationIsSafe ==
    ASSUME ContextInv, current \in owned,
           NEW step \in 0..TokenCount(executor), MaybeTruncateProcessedTokens(step)
    PROVE  SafeCut(step)
  BY CopyIsSafe, EndIsSafe DEF MaybeTruncateProcessedTokens

\* What a separation does to the cells.
LEMMA SeparateMoves ==
    ASSUME ContextInv, current \in owned, Separate
    PROVE  \E c \in Cell :
             /\ \A h \in Handler \ {current} : shared[h] # c
             /\ shared' = [shared EXCEPT ![current] = c]
             /\ stored' \in [Cell -> SUBSET ProcessedContext]
             /\ stored'[c] = {}
             /\ \A d \in Cell : (\A h \in Handler : shared'[h] # d) => stored'[d] = {}
             /\ \A h \in Handler \ {current} : shared[h] = Loaded =>
                  stored'[Loaded] = {Processed(executor)}
             /\ \A h \in Handler \ {current} : shared[h] \in Cell \ {Loaded} =>
                  stored'[shared[h]] = stored[shared[h]]
<1>. DEFINE c == FreshCell(current)
            cells == [stored EXCEPT ![shared[current]] = {Processed(executor)}, ![c] = {}]
<1>1. /\ current \in Handler /\ Loaded = shared[current] /\ Loaded \in Cell
  BY CurrentIsLoaded
<1>2. c \in Cell /\ \A g \in Handler \ {current} : shared[g] # c
  BY <1>1, FreshCellIsFree DEF ContextInv
<1>3. /\ shared' = [shared EXCEPT ![current] = c]
      /\ stored' = [d \in Cell |-> IF \E h \in Handler : shared'[h] = d THEN cells[d] ELSE {}]
  BY DEF Separate, Freed
<1>4. Processed(executor) \in ProcessedContext
  BY DEF ContextInv, ContextTypeOK, Processed, ProcessedContext
<1>. HIDE DEF c
<1>5. /\ cells \in [Cell -> SUBSET ProcessedContext] /\ cells[c] = {}
      /\ Loaded # c => cells[Loaded] = {Processed(executor)}
      /\ \A d \in Cell \ {c, Loaded} : cells[d] = stored[d]
  BY <1>1, <1>2, <1>4 DEF ContextInv, ContextTypeOK
<1>6. \A h \in Handler \ {current} : shared'[h] = shared[h]
  BY <1>1, <1>3 DEF ContextInv, ContextTypeOK
<1>. HIDE DEF cells
<1>7. stored' \in [Cell -> SUBSET ProcessedContext]
  BY <1>3, <1>5
<1>8. \A h \in Handler \ {current} : shared[h] = Loaded => stored'[Loaded] = {Processed(executor)}
  BY <1>1, <1>2, <1>3, <1>5, <1>6
<1>9. \A h \in Handler \ {current} : shared[h] \in Cell \ {Loaded} =>
        stored'[shared[h]] = stored[shared[h]]
  BY <1>1, <1>2, <1>3, <1>5, <1>6
<1>10. stored'[c] = {} /\ \A d \in Cell : (\A h \in Handler : shared'[h] # d) => stored'[d] = {}
  BY <1>2, <1>3, <1>5
<1>. QED  BY <1>2, <1>3, <1>7, <1>8, <1>9, <1>10

\* The first n of two sequences are the same.
Kept(u, s, n) == \A i \in 1..n : u[i] = s[i]

\* A call of the loaded handler goes on from a step after a safe cut there.
Continues(step) ==
    /\ step \in 0..TokenCount(executor) /\ SafeCut(step)
    /\ executor' \in [toks : Seq(Int), pending : BOOLEAN, step : Nat]
    /\ executor'.step <= TokenCount(executor') /\ step <= TokenCount(executor')
    /\ Kept(executor'.toks, executor.toks, step)
    /\ UNCHANGED <<current, owned, saved>>

LEMMA CutKeeps ==
    ASSUME ContextInv, current \in owned, NEW step, Continues(step)
    PROVE  ContextInv'
<1>. USE DEF Continues
<1>0. /\ current \in Handler /\ Loaded = shared[current] /\ Loaded \in Cell
      /\ Loaded # NoCell /\ stored[Loaded] = {} /\ TokenCount(executor) \in Nat
      /\ \A h \in Handler : shared[h] = Loaded => saved[h] <= TokenCount(executor)
  BY CurrentIsLoaded DEF ContextInv, ContextTypeOK, TokenCount
<1>1. saved[current] = -1
  BY <1>0 DEF ContextInv, HandlersSound
<1>. DEFINE count == TokenCount(executor')
<1>2. count \in Nat /\ step <= count
  BY DEF TokenCount
<1>3. CASE /\ UNCHANGED <<shared, stored>>
           /\ \A h \in Handler \ {current} : shared[h] = shared[current] => saved[h] <= step
  <2>1. ContextTypeOK'
    BY <1>3 DEF ContextInv, ContextTypeOK, TokenCount
  <2>2. HandlersSound'
    BY <1>3 DEF ContextInv, HandlersSound
  <2>3. Loaded' = Loaded
    BY <1>3 DEF Loaded
  <2>4. \A h \in Handler : shared[h] = Loaded => saved[h] <= count
    <3>. HIDE DEF count
    <3>1. ASSUME NEW h \in Handler, shared[h] = Loaded  PROVE saved[h] <= count
      <4>. saved[h] \in Int  BY DEF ContextInv, ContextTypeOK
      <4>. QED  BY <1>0, <1>1, <1>2, <1>3, <3>1
    <3>. QED  BY <3>1
  <2>5. CellsSound'
    BY <1>3, <2>3, <2>4 DEF ContextInv, CellsSound, TokenCount
  <2>. QED  BY <2>1, <2>2, <2>5 DEF ContextInv
<1>4. CASE Separate
  <2>1. PICK c \in Cell :
             /\ \A h \in Handler \ {current} : shared[h] # c
             /\ shared' = [shared EXCEPT ![current] = c]
             /\ stored' \in [Cell -> SUBSET ProcessedContext]
             /\ stored'[c] = {}
             /\ \A d \in Cell : (\A h \in Handler : shared'[h] # d) => stored'[d] = {}
             /\ \A h \in Handler \ {current} : shared[h] = Loaded =>
                  stored'[Loaded] = {Processed(executor)}
             /\ \A h \in Handler \ {current} : shared[h] \in Cell \ {Loaded} =>
                  stored'[shared[h]] = stored[shared[h]]
    BY <1>4, SeparateMoves
  <2>2. /\ shared'[current] = c /\ \A h \in Handler \ {current} : shared'[h] = shared[h]
        /\ shared' \in [Handler -> Cell \cup {NoCell}]
    BY <1>0, <2>1 DEF ContextInv, ContextTypeOK
  <2>3. Loaded' = c /\ c # NoCell
    BY <1>0, <2>2, ContextBounds, CellsAreNumbers DEF Loaded
  <2>4. ContextTypeOK'
    BY <2>1, <2>2 DEF ContextInv, ContextTypeOK, TokenCount
  <2>5. HandlersSound'
    BY <1>0, <2>2, <2>3 DEF ContextInv, HandlersSound
  <2>6. ASSUME NEW h \in Handler, shared'[h] \notin {NoCell, Loaded'}
        PROVE  \E p \in stored'[shared'[h]] : stored'[shared'[h]] = {p} /\ saved'[h] <= Len(p.toks)
    <3>1. h # current /\ shared[h] \in Cell /\ shared'[h] = shared[h]
      BY <2>2, <2>3, <2>6
    <3>2. CASE shared[h] = Loaded
      <4>1. stored'[shared'[h]] = {Processed(executor)} /\ saved[h] <= TokenCount(executor)
        BY <1>0, <2>1, <3>1, <3>2
      <4>. QED  BY <4>1 DEF Processed, TokenCount
    <3>3. CASE shared[h] # Loaded
      <4>1. stored'[shared'[h]] = stored[shared[h]] /\ saved'[h] = saved[h]
        BY <2>1, <3>1, <3>3
      <4>2. \E p \in stored[shared[h]] : stored[shared[h]] = {p} /\ saved[h] <= Len(p.toks)
        BY <3>1, <3>3, CellsAreNumbers DEF ContextInv, CellsSound
      <4>. QED  BY <4>1, <4>2
    <3>. QED  BY <3>2, <3>3
  <2>7. \A h \in Handler : shared'[h] = Loaded' => saved'[h] <= count
    <3>. HIDE DEF count
    <3>. QED  BY <1>1, <1>2, <2>1, <2>2, <2>3
  <2>8. CellsSound'
    BY <2>1, <2>3, <2>6, <2>7 DEF CellsSound, TokenCount
  <2>. QED  BY <2>4, <2>5, <2>8 DEF ContextInv
<1>. QED  BY <1>3, <1>4 DEF SafeCut

(***************************************************************************)
(* A switch of the executor from the loaded handler to another.             *)
(***************************************************************************)
\* What becomes of the handlers: all but the new one keep a step.
LEMMA PutBackMoves ==
    ASSUME ContextInv, NEW h \in owned, h # current, PutBack(h)
    PROVE  /\ shared' \in [Handler -> Cell \cup {NoCell}]
           /\ saved' \in [Handler -> Nat \cup {-1}]
           /\ \A g \in owned : shared'[g] = shared[g] /\ shared[g] # NoCell
           /\ \A g \in Handler \ owned : shared'[g] = NoCell
           /\ saved'[h] = -1
           /\ \A g \in owned \ {h} : saved'[g] = StepOf(g) /\ saved'[g] # -1
<1>1. /\ shared' = IF current = NoHandler \/ current \in owned THEN shared
                 ELSE [shared EXCEPT ![current] = NoCell]
      /\ saved' = [g \in Handler |-> IF g = h THEN -1
                                     ELSE IF g # current THEN saved[g]
                                     ELSE IF g \in owned THEN executor.step ELSE -1]
  BY DEF PutBack
<1>2. /\ h \in Handler /\ executor.step \in Nat
      /\ \A g \in owned : g \in Handler /\ shared[g] # NoCell /\ (saved[g] = -1 <=> g = current)
      /\ \A g \in Handler : shared[g] # NoCell <=> g \in owned \/ g = current
  BY DEF ContextInv, ContextTypeOK, HandlersSound
<1>3. shared' \in [Handler -> Cell \cup {NoCell}] /\ saved' \in [Handler -> Nat \cup {-1}]
  BY <1>1, <1>2 DEF ContextInv, ContextTypeOK
<1>4. /\ \A g \in owned : shared'[g] = shared[g] /\ shared[g] # NoCell
      /\ \A g \in Handler \ owned : shared'[g] = NoCell
  <2>. shared \in [Handler -> Cell \cup {NoCell}]
    BY DEF ContextInv, ContextTypeOK
  <2>1. CASE current = NoHandler \/ current \in owned
    BY <1>1, <1>2, <2>1, ContextBounds
  <2>2. CASE ~(current = NoHandler \/ current \in owned)
    <3>1. current \in Handler /\ shared' = [shared EXCEPT ![current] = NoCell]
      BY <1>1, <2>2 DEF ContextInv, ContextTypeOK
    <3>. QED  BY <1>2, <2>2, <3>1
  <2>. QED  BY <2>1, <2>2
<1>5. saved'[h] = -1 /\ \A g \in owned \ {h} : saved'[g] = StepOf(g) /\ saved'[g] # -1
  BY <1>1, <1>2 DEF StepOf
<1>. QED  BY <1>3, <1>4, <1>5

LEMMA SwitchStateKeeps ==
    ASSUME ContextInv, NEW h \in owned, AcquireExecutorWithContextHandler(h),
           current # NoHandler, shared[h] = shared[current]
    PROVE  /\ ContextInv'
           /\ \A g \in owned : TokensOf(g)' = TokensOf(g) /\ StepOf(g)' = StepOf(g)
<1>1. /\ h # current /\ current' = h /\ owned' = owned /\ stored' = stored
      /\ executor' = [executor EXCEPT !.step = saved[h]]
  BY DEF AcquireExecutorWithContextHandler, SwitchState
<1>2. /\ shared' \in [Handler -> Cell \cup {NoCell}]
      /\ saved' \in [Handler -> Nat \cup {-1}]
      /\ \A g \in owned : shared'[g] = shared[g] /\ shared[g] # NoCell
      /\ \A g \in Handler \ owned : shared'[g] = NoCell
      /\ saved'[h] = -1
      /\ \A g \in owned \ {h} : saved'[g] = StepOf(g) /\ saved'[g] # -1
  BY <1>1, PutBackMoves DEF AcquireExecutorWithContextHandler
<1>3. /\ h \in Handler /\ current \in Handler /\ owned \subseteq Handler
      /\ Loaded = shared[h] /\ Loaded # NoCell /\ Loaded \in Cell
      /\ saved[h] \in Nat /\ saved[h] <= TokenCount(executor)
  BY <1>1, <1>2 DEF ContextInv, ContextTypeOK, HandlersSound, CellsSound, Loaded
<1>4. Loaded' = Loaded
  BY <1>1, <1>2, <1>3, ContextBounds DEF Loaded
<1>5. /\ executor' \in [toks : Seq(Int), pending : BOOLEAN, step : Nat]
      /\ executor'.toks = executor.toks /\ executor'.step = saved[h]
      /\ TokenCount(executor') = TokenCount(executor)
  BY <1>1, <1>3 DEF ContextInv, ContextTypeOK, TokenCount
<1>6. ContextTypeOK'
  BY <1>1, <1>2, <1>3, <1>5 DEF ContextInv, ContextTypeOK, TokenCount
<1>7. HandlersSound'
  BY <1>1, <1>2, <1>3 DEF HandlersSound
<1>8. \A g \in owned \ {h} : shared[g] = Loaded => saved'[g] <= TokenCount(executor)
  BY <1>1, <1>2, <1>3 DEF StepOf, ContextInv, ContextTypeOK, CellsSound
<1>9. CellsSound'
  <2>1. \A d \in Cell : (\A g \in Handler : shared'[g] # d) => stored'[d] = {}
    <3>1. ASSUME NEW d \in Cell, \A g \in Handler : shared'[g] # d  PROVE stored[d] = {}
      <4>1. CASE d = Loaded  BY <1>2, <1>3, <3>1, <4>1
      <4>2. CASE d # Loaded
        <5>1. \A g \in Handler : shared[g] # d
          BY <1>1, <1>2, <1>3, <3>1, <4>2 DEF ContextInv, ContextTypeOK, HandlersSound, Loaded
        <5>. QED  BY <5>1 DEF ContextInv, CellsSound
      <4>. QED  BY <4>1, <4>2
    <3>. QED  BY <1>1, <3>1
  <2>2. Loaded' # NoCell => stored'[Loaded'] = {}
    BY <1>1, <1>4 DEF ContextInv, CellsSound
  <2>3. ASSUME NEW g \in Handler, shared'[g] \notin {NoCell, Loaded'}
        PROVE  \E p \in stored'[shared'[g]] : stored'[shared'[g]] = {p} /\ saved'[g] <= Len(p.toks)
    <3>1. g \in owned /\ g # h /\ g # current /\ shared'[g] = shared[g] /\ shared[g] # NoCell
      BY <1>1, <1>2, <1>3, <1>4, <2>3 DEF Loaded
    <3>2. saved'[g] = saved[g]
      BY <1>2, <3>1 DEF StepOf
    <3>. QED  BY <1>1, <1>4, <2>3, <3>1, <3>2 DEF ContextInv, CellsSound
  <2>4. \A g \in Handler : shared'[g] = Loaded' /\ Loaded' # NoCell =>
          saved'[g] <= TokenCount(executor')
    <3>1. \A g \in Handler : shared'[g] = Loaded => g \in owned /\ shared[g] = Loaded
      BY <1>2, <1>3
    <3>2. TokenCount(executor) \in Nat
      BY DEF ContextInv, ContextTypeOK, TokenCount
    <3>. QED  BY <1>2, <1>4, <1>5, <1>8, <3>1, <3>2
  <2>. QED  BY <2>1, <2>2, <2>3, <2>4 DEF CellsSound, TokenCount
<1>10. ASSUME NEW g \in owned  PROVE TokensOf(g)' = TokensOf(g) /\ StepOf(g)' = StepOf(g)
  <2>1. StepOf(g)' = StepOf(g)
    BY <1>1, <1>2, <1>5 DEF StepOf
  <2>2. TokensOf(g)' = TokensOf(g)
    <3>1. g \in Handler /\ shared'[g] = shared[g] /\ shared'[h] = shared[h]
      BY <1>2, <1>3
    <3>2. CASE shared[g] = shared[h]
      BY <1>1, <1>3, <1>5, <3>1, <3>2 DEF TokensOf
    <3>3. CASE shared[g] # shared[h]
      <4>1. TokensOf(g) = (CHOOSE q \in stored[shared[g]] : TRUE).toks
        BY <3>3 DEF TokensOf
      <4>2. TokensOf(g)' = (CHOOSE q \in stored[shared[g]] : TRUE).toks
        BY <1>1, <3>1, <3>3 DEF TokensOf
      <4>. QED  BY <4>1, <4>2
    <3>. QED  BY <3>2, <3>3
  <2>. QED  BY <2>1, <2>2
<1>. QED  BY <1>6, <1>7, <1>9, <1>10 DEF ContextInv

LEMMA SwitchContextKeeps ==
    ASSUME ContextInv, NEW h \in owned, AcquireExecutorWithContextHandler(h),
           ~(current # NoHandler /\ shared[h] = shared[current])
    PROVE  /\ ContextInv'
           /\ \A g \in owned : TokensOf(g)' = TokensOf(g) /\ StepOf(g)' = StepOf(g)
<1>1. /\ h # current /\ current' = h /\ owned' = owned /\ SwitchContext(h)
  BY DEF AcquireExecutorWithContextHandler
<1>2. /\ shared' \in [Handler -> Cell \cup {NoCell}]
      /\ saved' \in [Handler -> Nat \cup {-1}]
      /\ \A g \in owned : shared'[g] = shared[g] /\ shared[g] # NoCell
      /\ \A g \in Handler \ owned : shared'[g] = NoCell
      /\ saved'[h] = -1
      /\ \A g \in owned \ {h} : saved'[g] = StepOf(g) /\ saved'[g] # -1
  BY <1>1, PutBackMoves DEF AcquireExecutorWithContextHandler
<1>3. /\ h \in Handler /\ owned \subseteq Handler /\ shared[h] \in Cell /\ shared[h] # Loaded
      /\ saved[h] \in Nat
  BY <1>1, <1>2 DEF ContextInv, ContextTypeOK, HandlersSound, Loaded
<1>4. PICK p \in stored[shared[h]] :
        /\ executor' = [toks |-> p.toks, pending |-> p.pending, step |-> saved[h]]
        /\ stored' = Freed([c \in Cell |->
                              IF c = shared[h] THEN {}
                              ELSE IF current # NoHandler /\ c = shared[current]
                                   THEN {Processed(executor)}
                              ELSE stored[c]], shared')
  BY <1>1 DEF SwitchContext
<1>5. stored[shared[h]] = {p} /\ p \in ProcessedContext /\ saved[h] <= Len(p.toks)
  BY <1>2, <1>3, <1>4 DEF ContextInv, ContextTypeOK, CellsSound
<1>6. /\ Processed(executor) \in ProcessedContext
      /\ Processed(executor).toks = executor.toks
  BY DEF ContextInv, ContextTypeOK, Processed, ProcessedContext
<1>7. /\ stored' \in [Cell -> SUBSET ProcessedContext]
      /\ stored'[shared[h]] = {}
      /\ \A d \in Cell : (\A g \in Handler : shared'[g] # d) => stored'[d] = {}
      /\ \A g \in owned : shared[g] = Loaded => stored'[shared[g]] = {Processed(executor)}
      /\ \A g \in owned : shared[g] # Loaded /\ shared[g] # shared[h] =>
                            stored'[shared[g]] = stored[shared[g]]
  <2>. DEFINE cells == [c \in Cell |->
                              IF c = shared[h] THEN {}
                              ELSE IF current # NoHandler /\ c = shared[current]
                                   THEN {Processed(executor)}
                              ELSE stored[c]]
  <2>1. stored' = [c \in Cell |-> IF \E g \in Handler : shared'[g] = c THEN cells[c] ELSE {}]
    BY <1>4 DEF Freed
  <2>2. cells \in [Cell -> SUBSET ProcessedContext]
    BY <1>6 DEF ContextInv, ContextTypeOK
  <2>3. \A g \in owned : g \in Handler /\ shared[g] \in Cell /\ shared'[g] = shared[g]
    BY <1>2, <1>3
  <2>4. /\ \A g \in owned : shared[g] = Loaded => cells[shared[g]] = {Processed(executor)}
        /\ \A g \in owned : shared[g] # Loaded /\ shared[g] # shared[h] =>
                              cells[shared[g]] = stored[shared[g]]
    BY <1>2, <1>3, <2>3 DEF Loaded
  <2>5. cells[shared[h]] = {}
    BY <1>3
  <2>. HIDE DEF cells
  <2>6. \A c \in Cell : stored'[c] = IF \E g \in Handler : shared'[g] = c THEN cells[c] ELSE {}
    BY <2>1
  <2>7. stored' \in [Cell -> SUBSET ProcessedContext]
    BY <2>1, <2>2
  <2>8. \A g \in owned : stored'[shared[g]] = cells[shared[g]]
    BY <2>3, <2>6
  <2>9. stored'[shared[h]] = {}
    BY <2>5, <2>8
  <2>10. \A d \in Cell : (\A g \in Handler : shared'[g] # d) => stored'[d] = {}
    BY <2>6
  <2>11. \A g \in owned : shared[g] = Loaded => stored'[shared[g]] = {Processed(executor)}
    BY <2>4, <2>8
  <2>12. \A g \in owned : shared[g] # Loaded /\ shared[g] # shared[h] =>
                             stored'[shared[g]] = stored[shared[g]]
    BY <2>4, <2>8
  <2>. QED  BY <2>7, <2>9, <2>10, <2>11, <2>12
<1>8. /\ executor' \in [toks : Seq(Int), pending : BOOLEAN, step : Nat]
      /\ executor'.toks = p.toks /\ executor'.step = saved[h]
      /\ TokenCount(executor') = Len(p.toks)
  BY <1>3, <1>4, <1>5 DEF ProcessedContext, TokenCount
<1>9. Loaded' = shared[h] /\ shared'[h] = shared[h]
  BY <1>1, <1>2, <1>3, ContextBounds DEF Loaded
<1>10. ContextTypeOK'
  BY <1>1, <1>2, <1>3, <1>5, <1>7, <1>8 DEF ContextInv, ContextTypeOK, TokenCount
<1>11. HandlersSound'
  BY <1>1, <1>2, <1>3 DEF HandlersSound
<1>12. CellsSound'
  <2>1. Loaded' # NoCell => stored'[Loaded'] = {}
    BY <1>7, <1>9
  <2>2. ASSUME NEW g \in Handler, shared'[g] \notin {NoCell, Loaded'}
        PROVE  \E q \in stored'[shared'[g]] : stored'[shared'[g]] = {q} /\ saved'[g] <= Len(q.toks)
    <3>1. /\ g \in owned /\ g # h /\ shared'[g] = shared[g] /\ shared[g] # NoCell
          /\ shared[g] # shared[h] /\ saved'[g] = StepOf(g)
      BY <1>2, <1>9, <2>2
    <3>2. CASE shared[g] = Loaded
      <4>1. StepOf(g) <= TokenCount(executor)
        BY <3>1, <3>2 DEF StepOf, ContextInv, ContextTypeOK, CellsSound
      <4>2. stored'[shared'[g]] = {Processed(executor)}
        BY <1>7, <3>1, <3>2
      <4>3. saved'[g] <= Len(Processed(executor).toks)
        BY <1>6, <3>1, <4>1 DEF TokenCount
      <4>. QED  BY <4>2, <4>3
    <3>3. CASE shared[g] # Loaded
      <4>1. g # current
        BY <1>3, <3>1, <3>3, ContextBounds DEF Loaded
      <4>2. saved'[g] = saved[g]
        BY <3>1, <4>1 DEF StepOf
      <4>3. stored'[shared'[g]] = stored[shared[g]]
        BY <1>7, <3>1, <3>3
      <4>4. \E q \in stored[shared[g]] : stored[shared[g]] = {q} /\ saved[g] <= Len(q.toks)
        BY <3>1, <3>3 DEF ContextInv, CellsSound
      <4>. QED  BY <4>2, <4>3, <4>4
    <3>. QED  BY <3>2, <3>3
  <2>3. ASSUME NEW g \in Handler, shared'[g] = Loaded', Loaded' # NoCell
        PROVE  saved'[g] <= TokenCount(executor')
    <3>0. Len(p.toks) \in Nat
      BY <1>5 DEF ProcessedContext
    <3>1. CASE g = h
      BY <1>2, <1>8, <3>0, <3>1
    <3>2. CASE g # h
      <4>1. g \in owned /\ shared[g] = shared[h] /\ saved'[g] = StepOf(g)
        BY <1>2, <1>9, <2>3, <3>2
      <4>2. g # current
        BY <1>3, <4>1, ContextBounds DEF Loaded
      <4>3. saved[g] <= Len(p.toks)
        BY <1>2, <1>3, <1>5, <4>1 DEF ContextInv, CellsSound
      <4>. QED  BY <1>8, <4>1, <4>2, <4>3 DEF StepOf
    <3>. QED  BY <3>1, <3>2
  <2>. QED  BY <1>7, <2>1, <2>2, <2>3 DEF CellsSound, TokenCount
<1>13. ASSUME NEW g \in owned  PROVE TokensOf(g)' = TokensOf(g) /\ StepOf(g)' = StepOf(g)
  <2>1. StepOf(g)' = StepOf(g)
    BY <1>1, <1>2, <1>8 DEF StepOf
  <2>2. shared'[g] = shared[g] /\ shared[g] # NoCell /\ g \in Handler
    BY <1>2, <1>3
  <2>3. CASE shared[g] = shared[h]
    <3>1. TokensOf(g)' = p.toks
      BY <1>1, <1>3, <1>8, <1>9, <2>2, <2>3 DEF TokensOf
    <3>2. TokensOf(g) = p.toks
      BY <1>5, <2>3, ContextBounds DEF TokensOf
    <3>. QED  BY <2>1, <3>1, <3>2
  <2>4. CASE shared[g] # shared[h] /\ shared[g] = Loaded
    <3>1. TokensOf(g) = executor.toks
      BY <2>2, <2>4 DEF TokensOf, Loaded, ContextInv, ContextTypeOK
    <3>2. TokensOf(g)' = executor.toks
      BY <1>1, <1>6, <1>7, <1>9, <2>2, <2>4 DEF TokensOf
    <3>. QED  BY <2>1, <3>1, <3>2
  <2>5. CASE shared[g] # shared[h] /\ shared[g] # Loaded
    <3>1. TokensOf(g) = (CHOOSE q \in stored[shared[g]] : TRUE).toks
      BY <2>2, <2>5, ContextBounds DEF TokensOf, Loaded
    <3>2. TokensOf(g)' = (CHOOSE q \in stored[shared[g]] : TRUE).toks
      BY <1>1, <1>7, <1>9, <2>2, <2>5 DEF TokensOf
    <3>. QED  BY <2>1, <3>1, <3>2
  <2>. QED  BY <2>3, <2>4, <2>5
<1>. QED  BY <1>10, <1>11, <1>12, <1>13 DEF ContextInv

(***************************************************************************)
(* Sequences.                                                               *)
(***************************************************************************)
\* An input follows from its token m + 1 on after a position; its first m
\* tokens are there after a position.
Follows(u, at, ids, m) == \A i \in 1..(Len(ids) - m) : u[at + i] = ids[m + i]
There(s, at, ids, m) == \A i \in 1..m : ids[i] = s[at + i]

LEMMA PrefixesAgree ==
    ASSUME NEW s \in Seq(Int), NEW t \in Seq(Int), NEW n \in Nat, n <= Len(s), n <= Len(t),
           Kept(s, t, n)
    PROVE  SubSeq(s, 1, n) = SubSeq(t, 1, n)
<1>1. /\ SubSeq(s, 1, n) \in Seq(Int) /\ Len(SubSeq(s, 1, n)) = n
      /\ \A i \in 1..n : SubSeq(s, 1, n)[i] = s[i]
  <2>1. \A i \in 1..n : s[i] \in Int  BY ElementOfSeq
  <2>. QED  BY <2>1, SubSeqProperties
<1>2. /\ SubSeq(t, 1, n) \in Seq(Int) /\ Len(SubSeq(t, 1, n)) = n
      /\ \A i \in 1..n : SubSeq(t, 1, n)[i] = t[i]
  <2>1. \A i \in 1..n : t[i] \in Int  BY ElementOfSeq
  <2>. QED  BY <2>1, SubSeqProperties
<1>. QED  BY <1>1, <1>2, SeqEqual DEF Kept

\* Tokens cut at a step and continued.
IsContinued(u, s, k, t) ==
    /\ u \in Seq(Int) /\ Len(u) = k + Len(t)
    /\ Kept(u, s, k) /\ Follows(u, k, t, 0)

LEMMA CutAndContinue ==
    ASSUME NEW s \in Seq(Int), NEW k \in Nat, k <= Len(s), NEW t \in Seq(Int)
    PROVE  IsContinued(SubSeq(s, 1, k) \o t, s, k, t)
<1>0. Len(t) \in Nat
  OBVIOUS
<1>1. PICK r : r = SubSeq(s, 1, k)
  OBVIOUS
<1>2. /\ r \in Seq(Int) /\ Len(r) = k
      /\ \A i \in 1..k : r[i] = s[i]
  <2>1. \A i \in 1..k : s[i] \in Int  BY ElementOfSeq
  <2>. QED  BY <1>1, <2>1, SubSeqProperties
<1>3. /\ r \o t \in Seq(Int) /\ Len(r \o t) = Len(r) + Len(t)
      /\ \A i \in 1..(Len(r) + Len(t)) :
           (r \o t)[i] = IF i <= Len(r) THEN r[i] ELSE t[i - Len(r)]
  BY <1>2, ConcatProperties
<1>4. \A i \in 1..k : i \in 1..(Len(r) + Len(t)) /\ i <= Len(r)
  BY <1>0, <1>2
<1>5. \A i \in 1..(Len(t) - 0) : /\ k + i \in 1..(Len(r) + Len(t)) /\ ~(k + i <= Len(r))
                                 /\ (k + i) - Len(r) = 0 + i
  BY <1>0, <1>2
<1>6. Kept(r \o t, s, k)
  BY <1>2, <1>3, <1>4 DEF Kept
<1>7. Follows(r \o t, k, t, 0)
  BY <1>3, <1>5 DEF Follows
<1>. QED  BY <1>1, <1>2, <1>3, <1>6, <1>7 DEF IsContinued

\* What is left of an input after its first n tokens.
IsRest(rest, ids, n) ==
    /\ rest \in Seq(Int) /\ Len(rest) = Len(ids) - n
    /\ \A i \in 1..(Len(ids) - n) : rest[i] = ids[n + i]

LEMMA RestOfInput ==
    ASSUME NEW ids \in Seq(Int), NEW n \in Nat, n <= Len(ids)
    PROVE  IsRest(SubSeq(ids, n + 1, Len(ids)), ids, n)
<1>1. Len(ids) \in Nat
  OBVIOUS
<1>2. \A i \in (n + 1)..Len(ids) : ids[i] \in Int
  BY <1>1, ElementOfSeq
<1>3. PICK rest : rest = SubSeq(ids, n + 1, Len(ids))
  OBVIOUS
<1>4. /\ rest \in Seq(Int)
      /\ Len(rest) = IF n + 1 <= Len(ids) THEN Len(ids) - (n + 1) + 1 ELSE 0
      /\ \A i \in 1..(Len(ids) - (n + 1) + 1) : rest[i] = ids[(n + 1) + i - 1]
  BY <1>1, <1>2, <1>3, SubSeqProperties
<1>5. \A i \in 1..(Len(ids) - n) : /\ i \in 1..(Len(ids) - (n + 1) + 1)
                                   /\ (n + 1) + i - 1 = n + i
  BY <1>1
<1>6. \A i \in 1..(Len(ids) - n) : rest[i] = ids[n + i]
  BY <1>4, <1>5
<1>7. Len(rest) = Len(ids) - n
  BY <1>1, <1>4
<1>. QED  BY <1>3, <1>4, <1>6, <1>7 DEF IsRest

\* An input of which m tokens were there and the others are put after them.
LEMMA FollowsInParts ==
    ASSUME NEW s, NEW u, NEW ids \in Seq(Int), NEW k \in Nat, NEW m \in Nat, m <= Len(ids),
           Kept(u, s, k + m), There(s, k, ids, m), Follows(u, k + m, ids, m)
    PROVE  Kept(u, s, k) /\ Follows(u, k, ids, 0)
<1>0. Len(ids) \in Nat
  OBVIOUS
<1>1. \A i \in 1..k : i \in 1..(k + m)
  OBVIOUS
<1>2. ASSUME NEW i \in 1..Len(ids)  PROVE u[k + i] = ids[i]
  <2>1. CASE i <= m
    <3>1. i \in 1..m /\ k + i \in 1..(k + m)  BY <1>0, <2>1
    <3>. QED  BY <3>1 DEF Kept, There
  <2>2. CASE ~(i <= m)
    <3>1. i - m \in 1..(Len(ids) - m) /\ (k + m) + (i - m) = k + i /\ m + (i - m) = i
      BY <1>0, <2>2
    <3>2. u[(k + m) + (i - m)] = ids[m + (i - m)]
      BY <3>1 DEF Follows
    <3>. QED  BY <3>1, <3>2
  <2>. QED  BY <2>1, <2>2
<1>3. \A i \in 1..(Len(ids) - 0) : i \in 1..Len(ids) /\ 0 + i = i
  BY <1>0
<1>4. Follows(u, k, ids, 0)
  BY <1>2, <1>3 DEF Follows
<1>. QED  BY <1>1, <1>4 DEF Kept

\* What is said up to a step, with an input after it.
LEMMA InputIsAppended ==
    ASSUME NEW s \in Seq(Int), NEW u \in Seq(Int), NEW ids \in Seq(Int),
           NEW k \in Nat, k <= Len(s), k + Len(ids) <= Len(u),
           Kept(u, s, k), Follows(u, k, ids, 0)
    PROVE  SubSeq(u, 1, k + Len(ids)) = SubSeq(s, 1, k) \o ids
<1>1. PICK v : v = SubSeq(s, 1, k) \o ids
  OBVIOUS
<1>2. PICK m \in Nat : m = k + Len(ids)
  OBVIOUS
<1>3. IsContinued(v, s, k, ids)
  BY <1>1, CutAndContinue
<1>4. v \in Seq(Int) /\ Len(v) = m /\ Kept(v, s, k) /\ Follows(v, k, ids, 0)
  BY <1>2, <1>3 DEF IsContinued
<1>5. ASSUME NEW i \in 1..m  PROVE u[i] = v[i]
  <2>1. CASE i <= k
    <3>1. i \in 1..k  BY <2>1, <1>2
    <3>. QED  BY <3>1, <1>4 DEF Kept
  <2>2. CASE ~(i <= k)
    <3>1. i - k \in 1..(Len(ids) - 0) /\ k + (i - k) = i  BY <2>2, <1>2
    <3>2. u[k + (i - k)] = ids[0 + (i - k)] /\ v[k + (i - k)] = ids[0 + (i - k)]
      BY <3>1, <1>4 DEF Follows
    <3>. QED  BY <3>1, <3>2
  <2>. QED  BY <2>1, <2>2
<1>6. Kept(u, v, m)
  BY <1>5 DEF Kept
<1>7. SubSeq(u, 1, m) = SubSeq(v, 1, m)
  BY SMTT(30), <1>2, <1>4, <1>6, PrefixesAgree
<1>8. SubSeq(v, 1, m) = v
  BY <1>4, SubSeqFull
<1>. QED  BY <1>1, <1>2, <1>7, <1>8

(***************************************************************************)
(* The calls of the loaded handler.                                         *)
(***************************************************************************)
LEMMA ContextOfLoaded ==
    ASSUME ContextInv, current \in owned
    PROVE  /\ current \in Handler /\ executor.toks \in Seq(Int)
           /\ TokenCount(executor) = Len(executor.toks) /\ Len(executor.toks) \in Nat
           /\ executor.step \in 0..Len(executor.toks)
           /\ ContextOf(current) = SubSeq(executor.toks, 1, executor.step)
  BY DEF ContextInv, ContextTypeOK, TokenCount, ContextOf, TokensOf, StepOf

LEMMA PrefillContinues ==
    ASSUME ContextInv, NEW ids \in Inputs, Prefill(ids)
    PROVE  /\ \E step : Continues(step)
           /\ ContextOf(current)' = ContextOf(current) \o ids
<1>1. /\ current \in owned /\ UNCHANGED <<current, owned, saved>>
      /\ ids \in Seq(Int) /\ Len(ids) \in Nat
  BY ContextBounds DEF Prefill
<1>2. PICK toks \in Seq(Int), k \in Nat : toks = executor.toks /\ k = executor.step
  BY <1>1, ContextOfLoaded
<1>3. /\ current \in Handler /\ k <= Len(toks) /\ Len(toks) \in Nat
      /\ TokenCount(executor) = Len(toks) /\ ContextOf(current) = SubSeq(toks, 1, k)
      /\ executor.pending \in BOOLEAN
  BY <1>1, <1>2, ContextOfLoaded DEF ContextInv, ContextTypeOK
<1>4. PICK n : n = Matching(ids)
  OBVIOUS
<1>5. n \in Nat /\ n <= Len(ids) /\ k + n <= Len(toks) /\ There(toks, k, ids, n)
  <2>1. /\ n \in 0..Len(ids) /\ k + n <= TokenCount(executor)
        /\ \A i \in 1..n : ids[i] = toks[k + i]
    BY <1>1, <1>2, <1>4, MatchingIsLongest DEF ContextInv
  <2>. QED  BY <1>1, <1>3, <2>1 DEF There
<1>6. PICK rest : rest = SubSeq(ids, n + 1, Len(ids))
  OBVIOUS
<1>7. IsRest(rest, ids, n)
  BY <1>1, <1>5, <1>6, RestOfInput
<1>8. CASE k = TokenCount(executor)
  <2>1. /\ executor' = [toks |-> SubSeq(toks, 1, k) \o ids, pending |-> TRUE, step |-> k + Len(ids)]
        /\ UNCHANGED <<shared, stored>>
    BY <1>2, <1>8 DEF Prefill, ExecutorPrefill
  <2>2. PICK u : u = SubSeq(toks, 1, k) \o ids
    OBVIOUS
  <2>3. IsContinued(u, toks, k, ids)
    BY <1>1, <1>3, <2>2, CutAndContinue
  <2>4. u \in Seq(Int) /\ Len(u) = k + Len(ids) /\ Kept(u, toks, k) /\ Follows(u, k, ids, 0)
    BY <2>3 DEF IsContinued
  <2>5. /\ executor' \in [toks : Seq(Int), pending : BOOLEAN, step : Nat]
        /\ executor'.toks = u /\ executor'.step = k + Len(ids)
    BY <1>1, <2>1, <2>2, <2>4
  <2>6. SafeCut(k)
    BY <1>1, <1>8, <2>1, EndIsSafe
  <2>7. Continues(k)
    BY <1>1, <1>2, <1>3, <2>4, <2>5, <2>6 DEF Continues, TokenCount
  <2>8. SubSeq(u, 1, k + Len(ids)) = SubSeq(toks, 1, k) \o ids
    <3>1. k + Len(ids) <= Len(u)  BY <1>1, <2>4
    <3>. QED  BY ZenonT(40), <1>1, <1>3, <2>4, <3>1, InputIsAppended
  <2>9. ContextOf(current)' = SubSeq(u, 1, k + Len(ids))
    BY <1>1, <1>3, <2>5 DEF ContextOf, TokensOf, StepOf
  <2>. QED  BY <1>3, <2>7, <2>8, <2>9
<1>9. CASE k # TokenCount(executor) /\ rest = <<>>
  <2>1. executor' = [executor EXCEPT !.step = k + n] /\ UNCHANGED <<shared, stored>>
    BY <1>2, <1>4, <1>6, <1>9 DEF Prefill, PrefillFrom
  <2>2. n = Len(ids)
    BY <1>1, <1>5, <1>7, <1>9 DEF IsRest
  <2>3. /\ executor' \in [toks : Seq(Int), pending : BOOLEAN, step : Nat]
        /\ executor'.step = k + n /\ executor'.toks = toks
    BY SMTT(30), <1>2, <1>5, <2>1 DEF ContextInv, ContextTypeOK
  <2>4. ContextOf(current)' = SubSeq(toks, 1, k + Len(ids))
    BY <1>1, <1>3, <2>2, <2>3 DEF ContextOf, TokensOf, StepOf
  <2>5. Kept(toks, toks, k) /\ Follows(toks, k, ids, 0) /\ Kept(toks, toks, Len(toks))
    BY <1>1, <1>5, <2>2 DEF Kept, Follows, There
  <2>6. SubSeq(toks, 1, k + Len(ids)) = SubSeq(toks, 1, k) \o ids
    BY <1>1, <1>3, <1>5, <2>2, <2>5, InputIsAppended
  <2>7. SafeCut(Len(toks))
    BY <1>1, <1>3, <2>1, EndIsSafe
  <2>8. Continues(Len(toks))
    BY <1>1, <1>2, <1>3, <1>5, <2>3, <2>5, <2>7 DEF Continues, TokenCount
  <2>. QED  BY <1>3, <2>4, <2>6, <2>8
<1>10. CASE k # TokenCount(executor) /\ rest # <<>>
  <2>1. /\ executor' = [toks |-> SubSeq(toks, 1, k + n) \o rest, pending |-> TRUE,
                        step |-> (k + n) + Len(rest)]
        /\ IF k + n = TokenCount(executor) THEN UNCHANGED <<shared, stored>>
           ELSE CopyOnWrite(k, k + n)
    BY <1>2, <1>4, <1>6, <1>10 DEF Prefill, PrefillFrom, ExecutorPrefill
  <2>2. SafeCut(k + n)
    <3>1. k \in 0..TokenCount(executor)  BY <1>3
    <3>. QED  BY <1>1, <2>1, <3>1, CopyIsSafe, EndIsSafe
  <2>3. PICK u : u = SubSeq(toks, 1, k + n) \o rest
    OBVIOUS
  <2>4. rest \in Seq(Int) /\ k + n \in Nat /\ (k + n) + Len(rest) = k + Len(ids)
    BY <1>1, <1>5, <1>7 DEF IsRest
  <2>5. IsContinued(u, toks, k + n, rest)
    BY <1>5, <2>3, <2>4, CutAndContinue
  <2>6. /\ u \in Seq(Int) /\ Len(u) = k + Len(ids) /\ Kept(u, toks, k + n)
        /\ Follows(u, k + n, rest, 0)
    BY <2>4, <2>5 DEF IsContinued
  <2>7. Follows(u, k + n, ids, n)
    <3>1. ASSUME NEW i \in 1..(Len(ids) - n)  PROVE u[(k + n) + i] = ids[n + i]
      <4>1. i \in 1..(Len(rest) - 0) /\ rest[i] = ids[n + i] /\ 0 + i = i
        BY <1>1, <1>5, <1>7 DEF IsRest
      <4>2. u[(k + n) + i] = rest[0 + i]
        BY <2>6, <4>1 DEF Follows
      <4>. QED  BY <4>1, <4>2
    <3>. QED  BY <3>1 DEF Follows
  <2>8. /\ executor' \in [toks : Seq(Int), pending : BOOLEAN, step : Nat]
        /\ executor'.toks = u /\ executor'.step = k + Len(ids)
    <3>1. executor' = [toks |-> u, pending |-> TRUE, step |-> k + Len(ids)]
      BY <2>1, <2>3, <2>4
    <3>. QED  BY <1>1, <2>6, <3>1
  <2>9. Continues(k + n)
    BY <1>1, <1>2, <1>3, <1>5, <2>2, <2>6, <2>8 DEF Continues, TokenCount
  <2>10. Kept(u, toks, k) /\ Follows(u, k, ids, 0)
    BY <1>1, <1>5, <2>6, <2>7, FollowsInParts
  <2>11. SubSeq(u, 1, k + Len(ids)) = SubSeq(toks, 1, k) \o ids
    <3>1. k + Len(ids) <= Len(u)  BY <1>1, <2>6
    <3>. QED  BY ZenonT(40), <1>1, <1>3, <2>6, <2>10, <3>1, InputIsAppended
  <2>12. ContextOf(current)' = SubSeq(u, 1, k + Len(ids))
    BY <1>1, <1>3, <2>8 DEF ContextOf, TokensOf, StepOf
  <2>. QED  BY <1>3, <2>9, <2>11, <2>12
<1>. QED  BY <1>8, <1>9, <1>10

LEMMA SingleToken == \A tok \in Int : <<tok>> \in Seq(Int) /\ Len(<<tok>>) = 1 /\ <<tok>>[1] = tok
  OBVIOUS

LEMMA DecodeContinues ==
    ASSUME ContextInv, NEW tok \in Sampled, Decode(tok)
    PROVE  /\ \E step : Continues(step)
           /\ ContextOf(current)' = ContextOf(current) \o <<tok>>
<1>1. /\ current \in owned /\ UNCHANGED <<current, owned, saved>>
      /\ MaybeTruncateProcessedTokens(executor.step)
      /\ executor' = [toks |-> SubSeq(executor.toks, 1, executor.step) \o <<tok>>,
                      pending |-> TRUE, step |-> executor.step + 1]
  BY DEF Decode, ExecutorDecode
<1>2. PICK toks \in Seq(Int), k \in Nat : toks = executor.toks /\ k = executor.step
  BY <1>1, ContextOfLoaded
<1>3. /\ current \in Handler /\ k <= Len(toks) /\ Len(toks) \in Nat
      /\ TokenCount(executor) = Len(toks) /\ ContextOf(current) = SubSeq(toks, 1, k)
  BY <1>1, <1>2, ContextOfLoaded
<1>4. PICK one \in Seq(Int) : one = <<tok>> /\ Len(one) = 1
  BY ContextBounds, SingleToken
<1>5. PICK u : u = SubSeq(toks, 1, k) \o one
  OBVIOUS
<1>6. IsContinued(u, toks, k, one)
  BY <1>3, <1>5, CutAndContinue
<1>7. /\ u \in Seq(Int) /\ Len(u) = k + 1 /\ k + Len(one) <= Len(u)
      /\ Kept(u, toks, k) /\ Follows(u, k, one, 0)
  BY <1>4, <1>6 DEF IsContinued
<1>8. /\ executor' \in [toks : Seq(Int), pending : BOOLEAN, step : Nat]
      /\ executor'.toks = u /\ executor'.step = k + 1
  <2>1. executor' = [toks |-> u, pending |-> TRUE, step |-> k + 1]
    BY <1>1, <1>2, <1>4, <1>5
  <2>. QED  BY <1>7, <2>1
<1>9. SafeCut(k)
  BY <1>1, <1>2, <1>3, TruncationIsSafe
<1>10. Continues(k)
  <2>1. k <= Len(u) /\ k + 1 <= Len(u) /\ k \in 0..Len(toks)
    BY <1>3, <1>7
  <2>. QED  BY <1>1, <1>2, <1>3, <1>7, <1>8, <1>9, <2>1 DEF Continues, TokenCount
<1>11. SubSeq(u, 1, k + Len(one)) = SubSeq(toks, 1, k) \o one
  BY ZenonT(40), <1>3, <1>7, InputIsAppended
<1>12. ContextOf(current)' = SubSeq(u, 1, k + Len(one))
  BY <1>1, <1>3, <1>4, <1>8 DEF ContextOf, TokensOf, StepOf
<1>. QED  BY <1>3, <1>4, <1>10, <1>11, <1>12

\* The pending token is processed, or the given one is appended.
LEMMA DecodeLogitsContinues ==
    ASSUME ContextInv, NEW tok \in Sampled, DecodeLogits(tok)
    PROVE  /\ \E step : Continues(step)
           /\ \/ ContextOf(current)' = ContextOf(current)
              \/ ContextOf(current)' = ContextOf(current) \o <<tok>>
<1>1. current \in owned /\ UNCHANGED <<current, owned, saved>>
  BY DEF DecodeLogits
<1>2. PICK toks \in Seq(Int), k \in Nat : toks = executor.toks /\ k = executor.step /\ k >= 1
  BY <1>1, ContextOfLoaded DEF DecodeLogits
<1>3. /\ current \in Handler /\ k <= Len(toks) /\ Len(toks) \in Nat
      /\ TokenCount(executor) = Len(toks) /\ ContextOf(current) = SubSeq(toks, 1, k)
  BY <1>1, <1>2, ContextOfLoaded
<1>4. PICK at : at = IF k = TokenCount(executor) /\ executor.pending THEN k - 1 ELSE k
  OBVIOUS
<1>5. at \in Nat /\ at <= Len(toks) /\ (at = k \/ (at = k - 1 /\ k = Len(toks) /\ tok = toks[k]))
  BY <1>2, <1>3, <1>4 DEF DecodeLogits
<1>6. PICK one \in Seq(Int) : one = <<tok>> /\ Len(one) = 1
  BY ContextBounds, SingleToken
<1>7. PICK u : u = SubSeq(toks, 1, at) \o one
  OBVIOUS
<1>8. IsContinued(u, toks, at, one)
  BY <1>5, <1>7, CutAndContinue
<1>9. /\ u \in Seq(Int) /\ Len(u) = at + 1 /\ at + Len(one) <= Len(u)
      /\ Kept(u, toks, at) /\ Follows(u, at, one, 0)
  BY <1>5, <1>6, <1>8 DEF IsContinued
<1>10. /\ MaybeTruncateProcessedTokens(at)
       /\ executor' = ExecutorDecodeLogits([executor EXCEPT !.step = at], tok)
  BY <1>2, <1>4 DEF DecodeLogits
<1>11. executor' = [toks |-> SubSeq(toks, 1, at) \o one, pending |-> FALSE, step |-> at + 1]
  <2>1. executor \in [toks : Seq(Int), pending : BOOLEAN, step : Nat]
    BY DEF ContextInv, ContextTypeOK
  <2>2. [executor EXCEPT !.step = at].toks = toks /\ [executor EXCEPT !.step = at].step = at
    BY <1>2, <2>1
  <2>. QED  BY <1>6, <1>10, <2>2 DEF ExecutorDecodeLogits
<1>12. /\ executor' \in [toks : Seq(Int), pending : BOOLEAN, step : Nat]
       /\ executor'.toks = u /\ executor'.step = at + 1
  BY <1>5, <1>7, <1>9, <1>11
<1>13. SafeCut(at)
  BY <1>1, <1>3, <1>5, <1>10, TruncationIsSafe
<1>14. Continues(at)
  BY SMTT(30), <1>1, <1>2, <1>3, <1>5, <1>9, <1>12, <1>13 DEF Continues, TokenCount
<1>15. ContextOf(current)' = SubSeq(u, 1, at + Len(one))
  BY <1>1, <1>3, <1>6, <1>12 DEF ContextOf, TokensOf, StepOf
<1>16. CASE at = k
  <2>1. SubSeq(u, 1, k + Len(one)) = SubSeq(toks, 1, k) \o one
    BY ZenonT(40), <1>3, <1>9, <1>16, InputIsAppended
  <2>. QED  BY <1>3, <1>6, <1>14, <1>15, <1>16, <2>1
\* The last token is put where it was.
<1>17. CASE at = k - 1 /\ k = Len(toks) /\ tok = toks[k]
  <2>1. \A i \in 1..at : u[i] = toks[i]
    BY <1>9 DEF Kept
  <2>2. u[at + 1] = one[0 + 1]
    <3>1. 1 \in 1..(Len(one) - 0)  BY <1>6
    <3>. QED  BY <1>9, <3>1 DEF Follows
  <2>3. u[k] = toks[k]
    BY <1>6, <1>17, <2>2, SingleToken, <1>2
  <2>4. Kept(u, toks, k)
    <3>1. \A i \in 1..k : i \in 1..at \/ i = k  BY <1>17
    <3>. QED  BY <2>1, <2>3, <3>1 DEF Kept
  <2>5. SubSeq(u, 1, k) = SubSeq(toks, 1, k)
    BY <1>3, <1>9, <1>17, <2>4, PrefixesAgree
  <2>. QED  BY <1>3, <1>6, <1>14, <1>15, <1>17, <2>5
<1>. QED  BY <1>5, <1>16, <1>17

LEMMA SetCurrentStepContinues ==
    ASSUME ContextInv, NEW n \in 0..MaxStep, SetCurrentStep(n)
    PROVE  /\ \E step : Continues(step)
           /\ ContextOf(current)' = SubSeq(executor.toks, 1, n) /\ n <= executor.step
<1>1. /\ current \in owned /\ UNCHANGED <<current, owned, shared, saved, stored>>
      /\ executor' = [executor EXCEPT !.step = n] /\ n \in 0..(executor.step - 1)
  BY DEF SetCurrentStep
<1>2. /\ current \in Handler /\ TokenCount(executor) = Len(executor.toks) /\ Len(executor.toks) \in Nat
      /\ executor.step \in 0..Len(executor.toks)
  BY <1>1, ContextOfLoaded
<1>3. /\ executor' \in [toks : Seq(Int), pending : BOOLEAN, step : Nat]
      /\ executor'.toks = executor.toks /\ executor'.step = n
  BY <1>1 DEF ContextInv, ContextTypeOK
<1>4. SafeCut(Len(executor.toks))
  BY <1>1, <1>2, EndIsSafe
<1>5. Continues(Len(executor.toks))
  BY <1>1, <1>2, <1>3, <1>4 DEF Continues, TokenCount, Kept
<1>6. ContextOf(current)' = SubSeq(executor.toks, 1, n)
  BY <1>1, <1>2, <1>3 DEF ContextOf, TokensOf, StepOf
<1>. QED  BY <1>1, <1>2, <1>5, <1>6

(***************************************************************************)
(* The theorems.                                                            *)
(***************************************************************************)
\* A call of the loaded handler leaves the context of every other handler
\* what it was.
LEMMA OthersKeepTheirContext ==
    ASSUME ContextInv, current \in owned, NEW step, Continues(step),
           NEW h \in owned, h # current
    PROVE  ContextOf(h)' = ContextOf(h)
<1>1. PICK toks \in Seq(Int), u \in Seq(Int) : toks = executor.toks /\ u = executor'.toks
  BY ContextOfLoaded DEF Continues
<1>2. /\ current \in Handler /\ h \in Handler /\ shared[h] \in Cell /\ shared[h] # NoCell
      /\ Loaded = shared[current] /\ Loaded \in Cell /\ saved[h] \in Nat
      /\ shared[h] = Loaded => saved[h] <= TokenCount(executor)
  BY CurrentIsLoaded DEF ContextInv, ContextTypeOK, HandlersSound
<1>3. /\ step \in Nat /\ step <= Len(toks) /\ step <= Len(u) /\ Kept(u, toks, step)
      /\ TokenCount(executor) = Len(toks)
      /\ current' = current /\ owned' = owned /\ saved' = saved
  BY <1>1 DEF Continues, TokenCount
<1>4. StepOf(h) = saved[h] /\ StepOf(h)' = saved[h]
  BY <1>3 DEF StepOf
<1>5. CASE /\ UNCHANGED <<shared, stored>>
           /\ \A g \in Handler \ {current} : shared[g] = shared[current] => saved[g] <= step
  <2>1. CASE shared[h] = Loaded
    <3>1. saved[h] <= step
      BY <1>2, <1>5, <2>1
    <3>2. Kept(u, toks, saved[h])
      <4>1. \A i \in 1..saved[h] : i \in 1..step  BY <1>2, <1>3, <3>1
      <4>. QED  BY <1>3, <4>1 DEF Kept
    <3>3. SubSeq(u, 1, saved[h]) = SubSeq(toks, 1, saved[h])
      <4>1. PICK n \in Nat : n = saved[h]  BY <1>2
      <4>2. n <= Len(u) /\ n <= Len(toks)  BY <1>3, <3>1, <4>1
      <4>3. Kept(u, toks, n)  BY <3>2, <4>1
      <4>4. SubSeq(u, 1, n) = SubSeq(toks, 1, n)  BY <4>2, <4>3, PrefixesAgree
      <4>. QED  BY <4>1, <4>4
    <3>4. TokensOf(h) = toks /\ TokensOf(h)' = u
      BY <1>1, <1>2, <1>3, <1>5, <2>1 DEF TokensOf
    <3>. QED  BY <1>4, <3>3, <3>4 DEF ContextOf
  <2>2. CASE shared[h] # Loaded
    <3>1. TokensOf(h) = (CHOOSE p \in stored[shared[h]] : TRUE).toks
      BY <1>2, <2>2 DEF TokensOf
    <3>2. TokensOf(h)' = (CHOOSE p \in stored[shared[h]] : TRUE).toks
      BY <1>2, <1>3, <1>5, <2>2 DEF TokensOf
    <3>. QED  BY <1>4, <3>1, <3>2 DEF ContextOf
  <2>. QED  BY <2>1, <2>2
<1>6. CASE Separate
  <2>1. PICK c \in Cell :
             /\ \A g \in Handler \ {current} : shared[g] # c
             /\ shared' = [shared EXCEPT ![current] = c]
             /\ \A g \in Handler \ {current} : shared[g] = Loaded =>
                  stored'[Loaded] = {Processed(executor)}
             /\ \A g \in Handler \ {current} : shared[g] \in Cell \ {Loaded} =>
                  stored'[shared[g]] = stored[shared[g]]
    BY <1>6, SeparateMoves
  <2>2. shared'[h] = shared[h] /\ shared'[current] = c /\ shared[h] # c
    BY <1>2, <2>1 DEF ContextInv, ContextTypeOK
  <2>3. TokensOf(h)' = (CHOOSE p \in stored'[shared[h]] : TRUE).toks
    BY <1>3, <2>2 DEF TokensOf
  <2>4. CASE shared[h] = Loaded
    <3>1. TokensOf(h) = toks
      BY <1>1, <1>2, <2>4 DEF TokensOf
    <3>2. stored'[shared[h]] = {Processed(executor)} /\ Processed(executor).toks = toks
      BY <1>1, <1>2, <2>1, <2>4 DEF Processed
    <3>3. TokensOf(h)' = toks
      BY <2>3, <3>2
    <3>. QED  BY <1>4, <3>1, <3>3 DEF ContextOf
  <2>5. CASE shared[h] # Loaded
    <3>1. TokensOf(h) = (CHOOSE p \in stored[shared[h]] : TRUE).toks
      BY <1>2, <2>5 DEF TokensOf
    <3>2. stored'[shared[h]] = stored[shared[h]]
      BY <1>2, <2>1, <2>5
    <3>. QED  BY <1>4, <2>3, <3>1, <3>2 DEF ContextOf
  <2>. QED  BY <2>4, <2>5
<1>. QED  BY <1>3, <1>5, <1>6 DEF Continues, SafeCut

LEMMA ContextStep == ContextInv /\ [Next]_vars => ContextInv'
<1>. SUFFICES ASSUME ContextInv, [Next]_vars  PROVE ContextInv'
  OBVIOUS
<1>1. ASSUME NEW h \in Handler, CreateContextHandler(h)  PROVE ContextInv'
  BY <1>1, CreateKeeps
<1>2. ASSUME NEW h \in Handler, ReleaseHandler(h)  PROVE ContextInv'
  BY <1>2, ReleaseKeeps
<1>3. ASSUME NEW h \in Handler, AcquireExecutorWithContextHandler(h)  PROVE ContextInv'
  <2>1. h \in owned
    BY <1>3 DEF AcquireExecutorWithContextHandler
  <2>. QED  BY <1>3, <2>1, SwitchStateKeeps, SwitchContextKeeps
<1>4. ASSUME NEW h \in Handler, NEW g \in Handler, CloneContextHandler(h, g)  PROVE ContextInv'
  BY <1>4, CloneKeeps
<1>5. ASSUME NEW ids \in Inputs, Prefill(ids)  PROVE ContextInv'
  BY <1>5, PrefillContinues, CutKeeps DEF Prefill
<1>6. ASSUME NEW tok \in Sampled, Decode(tok)  PROVE ContextInv'
  BY <1>6, DecodeContinues, CutKeeps DEF Decode
<1>7. ASSUME NEW tok \in Sampled, DecodeLogits(tok)  PROVE ContextInv'
  BY <1>7, DecodeLogitsContinues, CutKeeps DEF DecodeLogits
<1>8. ASSUME NEW n \in 0..MaxStep, SetCurrentStep(n)  PROVE ContextInv'
  BY <1>8, SetCurrentStepContinues, CutKeeps DEF SetCurrentStep
<1>9. ASSUME UNCHANGED vars  PROVE ContextInv'
  BY <1>9 DEF vars, ContextInv, ContextTypeOK, HandlersSound, CellsSound, Loaded, TokenCount
<1>. QED
  BY <1>1, <1>2, <1>3, <1>4, <1>5, <1>6, <1>7, <1>8, <1>9 DEF Next

\* The invariant of the resource manager: a handler and its context are owned
\* once, and a context is long enough for every handler that refers to it.
THEOREM ContextInvariant == Spec => []ContextInv
  BY InitContexts, ContextStep, PTL DEF Spec

LEMMA InvTypeOK == ContextInv => TypeOK
<1>. SUFFICES ASSUME ContextInv  PROVE TypeOK
  OBVIOUS
<1>1. owned \subseteq Alive
  BY DEF ContextInv, HandlersSound, ContextTypeOK, Alive
<1>2. \A c \in Cell : \A p \in stored[c] : p.toks \in Seq(Int) /\ p.pending \in BOOLEAN
  BY DEF ContextInv, ContextTypeOK, ProcessedContext
<1>3. TokenCount(executor) \in Nat
  BY DEF ContextInv, ContextTypeOK, TokenCount
<1>. QED  BY <1>1, <1>2, <1>3 DEF ContextInv, ContextTypeOK, TypeOK

\* The state of the resource manager has its type (resource_manager.h).
THEOREM ContextsTyped == Spec => []TypeOK
  BY ContextInvariant, InvTypeOK, PTL

LEMMA InvOwnedOnce == ContextInv => OwnedOnce
<1>. SUFFICES ASSUME ContextInv  PROVE OwnedOnce
  OBVIOUS
<1>1. \A h \in Alive : saved[h] = -1 <=> h = current
  BY DEF ContextInv, HandlersSound, Alive
<1>2. ASSUME NEW h \in Alive
      PROVE  Cardinality(stored[shared[h]]) =
                IF current # NoHandler /\ shared[h] = shared[current] THEN 0 ELSE 1
  <2>1. h \in Handler /\ shared[h] # NoCell
    BY DEF Alive
  <2>2. CASE current # NoHandler /\ shared[h] = shared[current]
    <3>1. stored[shared[h]] = {}
      BY <2>1, <2>2 DEF ContextInv, CellsSound, Loaded
    <3>. QED  BY <2>2, <3>1, FS_EmptySet
  <2>3. CASE ~(current # NoHandler /\ shared[h] = shared[current])
    <3>1. shared[h] # Loaded
      BY <2>1, <2>3 DEF Loaded
    <3>2. \E p \in stored[shared[h]] : stored[shared[h]] = {p}
      BY <2>1, <3>1 DEF ContextInv, CellsSound
    <3>. QED  BY <2>3, <3>2, FS_Singleton
  <2>. QED  BY <2>2, <2>3
<1>3. current # NoHandler => current \in Alive
  BY DEF ContextInv, ContextTypeOK, HandlersSound, Alive
<1>. QED  BY <1>1, <1>2, <1>3 DEF OwnedOnce, ContextInv, CellsSound

\* Nothing is owned twice or by nobody (the RET_CHECKs and Retrieve calls of
\* resource_manager.cc).
THEOREM ContextsOwnedOnce == Spec => []OwnedOnce
  BY ContextInvariant, InvOwnedOnce, PTL

\* A prefill appends its whole input to the context of its handler
\* (LockedLlmExecutor::Prefill).
THEOREM PrefillsAppend == Spec => PrefillAppends
<1>1. ContextInv /\ [Next]_vars =>
        [\A ids \in Inputs : Prefill(ids) => ContextOf(current)' = ContextOf(current) \o ids]_vars
  BY PrefillContinues
<1>. QED  BY <1>1, ContextInvariant, PTL DEF Spec, PrefillAppends

(***************************************************************************)
(* Every handler has a context of its own (PrivateContexts).                *)
(***************************************************************************)
Said == [h \in Handler |-> IF h \in owned THEN {ContextOf(h)} ELSE {}]

\* The steps of PrivateContexts, as changes of what is said.
LEMMA SaidCreate ==
    ASSUME NEW h \in Handler, Said[h] = {}, Said' = [Said EXCEPT ![h] = {<<>>}]
    PROVE  private!Next
<1>1. private!Create(h)
  BY DEF private!Create, Said
<1>. QED  BY <1>1 DEF private!Next

LEMMA SaidRelease ==
    ASSUME NEW h \in Handler, Said' = [Said EXCEPT ![h] = {}]
    PROVE  private!Next
<1>1. private!Release(h)
  BY DEF private!Release, Said
<1>. QED  BY <1>1 DEF private!Next

LEMMA SaidClone ==
    ASSUME NEW h \in Handler, NEW g \in Handler, Said[h] # {}, Said[g] = {},
           Said' = [Said EXCEPT ![g] = Said[h]]
    PROVE  private!Next
<1>1. private!Clone(h, g)
  BY DEF private!Clone, Said
<1>. QED  BY <1>1 DEF private!Next

LEMMA SaidMove ==
    ASSUME NEW h \in Handler, NEW t, NEW t2, Said[h] = {t}, Said' = [Said EXCEPT ![h] = {t2}],
           private!IsPrefix(t, t2) \/ private!IsPrefix(t2, t)
    PROVE  private!Next
<1>1. t \in Said[h] /\ t2 \in Said'[h]
  <2>1. h \in DOMAIN Said  BY DEF Said
  <2>. QED  BY <2>1
<1>2. private!Grow(h) \/ private!Rewind(h)
  BY <1>1 DEF private!Grow, private!Rewind, Said
<1>. QED  BY <1>2 DEF private!Next

\* What the sessions say changes for one handler only.
LEMMA SaidOfOne ==
    ASSUME NEW h \in Handler, NEW S, Said'[h] = S,
           \A g \in Handler \ {h} : Said'[g] = Said[g]
    PROVE  Said' = [Said EXCEPT ![h] = S]
<1>1. PICK r : r = Said'  OBVIOUS
<1>2. r = [g \in Handler |-> r[g]]
  BY <1>1 DEF Said
<1>3. Said = [g \in Handler |-> Said[g]]
  BY DEF Said
<1>. QED  BY <1>1, <1>2, <1>3

LEMMA SaidIs ==
    /\ \A g \in Handler : Said[g] = IF g \in owned THEN {ContextOf(g)} ELSE {}
    /\ \A g \in Handler : Said'[g] = IF g \in owned' THEN {ContextOf(g)'} ELSE {}
  BY DEF Said

LEMMA PrefixOfPrefix ==
    ASSUME NEW s \in Seq(Int), NEW n \in Nat, NEW k \in Nat, n <= k, k <= Len(s)
    PROVE  private!IsPrefix(SubSeq(s, 1, n), SubSeq(s, 1, k))
<1>1. /\ SubSeq(s, 1, n) \in Seq(Int) /\ Len(SubSeq(s, 1, n)) = n
      /\ \A i \in 1..n : SubSeq(s, 1, n)[i] = s[i]
  <2>1. \A i \in 1..n : s[i] \in Int  BY ElementOfSeq
  <2>. QED  BY <2>1, SubSeqProperties
<1>2. /\ SubSeq(s, 1, k) \in Seq(Int) /\ Len(SubSeq(s, 1, k)) = k
      /\ \A i \in 1..k : SubSeq(s, 1, k)[i] = s[i]
  <2>1. \A i \in 1..k : s[i] \in Int  BY ElementOfSeq
  <2>. QED  BY <2>1, SubSeqProperties
<1>3. Kept(SubSeq(s, 1, n), SubSeq(s, 1, k), n)
  BY <1>1, <1>2 DEF Kept
<1>4. SubSeq(SubSeq(s, 1, n), 1, n) = SubSeq(SubSeq(s, 1, k), 1, n)
  BY <1>1, <1>2, <1>3, PrefixesAgree
<1>. QED  BY <1>1, <1>2, <1>4 DEF private!IsPrefix

LEMMA PrefixOfConcat ==
    ASSUME NEW s \in Seq(Int), NEW t \in Seq(Int)
    PROVE  private!IsPrefix(s, s \o t)
<1>1. /\ s \o t \in Seq(Int) /\ Len(s \o t) = Len(s) + Len(t)
      /\ \A i \in 1..(Len(s) + Len(t)) : (s \o t)[i] = IF i <= Len(s) THEN s[i] ELSE t[i - Len(s)]
  BY ConcatProperties
<1>2. Len(s) \in Nat /\ Len(t) \in Nat
  OBVIOUS
<1>3. Kept(s, s \o t, Len(s))
  BY <1>1, <1>2 DEF Kept
<1>4. SubSeq(s, 1, Len(s)) = SubSeq(s \o t, 1, Len(s))
  BY <1>1, <1>2, <1>3, PrefixesAgree
<1>. QED  BY <1>1, <1>2, <1>4 DEF private!IsPrefix

LEMMA TokensUnmoved ==
    ASSUME NEW g, executor' = executor, current' = current, shared'[g] = shared[g],
           current \in Handler => shared'[current] = shared[current],
           stored'[shared[g]] = stored[shared[g]]
    PROVE  TokensOf(g)' = TokensOf(g)
<1>1. CASE current \in Handler /\ shared[g] = shared[current]
  BY <1>1 DEF TokensOf
<1>2. CASE ~(current \in Handler /\ shared[g] = shared[current])
  <2>1. TokensOf(g) = (CHOOSE p \in stored[shared[g]] : TRUE).toks
    BY <1>2 DEF TokensOf
  <2>2. TokensOf(g)' = (CHOOSE p \in stored'[shared'[g]] : TRUE).toks
    <3>1. ~(current' \in Handler /\ shared'[g] = shared'[current'])
      BY <1>2
    <3>. QED  BY <3>1 DEF TokensOf
  <2>3. stored'[shared'[g]] = stored[shared[g]]
    OBVIOUS
  <2>. QED  BY <2>1, <2>2, <2>3
<1>. QED  BY <1>1, <1>2

LEMMA CreateIsPrivate ==
    ASSUME ContextInv, NEW h \in Handler, CreateContextHandler(h)
    PROVE  private!Next
<1>1. PICK c \in Cell : c = FreshCell(h) /\ \A g \in Handler \ {h} : shared[g] # c
  BY FreshCellIsFree DEF ContextInv
<1>2. /\ shared[h] = NoCell
      /\ shared' = [shared EXCEPT ![h] = c] /\ stored' = [stored EXCEPT ![c] = {NewContext}]
      /\ saved' = [saved EXCEPT ![h] = 0] /\ owned' = owned \cup {h}
      /\ executor' = executor /\ current' = current
  BY <1>1 DEF CreateContextHandler
<1>3. h \notin owned /\ h # current
  BY <1>2 DEF ContextInv, HandlersSound
<1>4. /\ shared'[h] = c /\ saved'[h] = 0 /\ stored'[c] = {NewContext}
      /\ \A g \in Handler \ {h} : shared'[g] = shared[g] /\ saved'[g] = saved[g] /\ shared'[g] # c
      /\ \A d \in Cell \ {c} : stored'[d] = stored[d]
  BY <1>1, <1>2 DEF ContextInv, ContextTypeOK
<1>5. ASSUME NEW g \in owned  PROVE ContextOf(g)' = ContextOf(g)
  <2>1. g \in Handler \ {h} /\ shared[g] \in Cell \ {c}
    BY <1>1, <1>3 DEF ContextInv, ContextTypeOK, HandlersSound
  <2>2. StepOf(g)' = StepOf(g)
    BY <1>2, <1>4, <2>1 DEF StepOf
  <2>3. TokensOf(g)' = TokensOf(g)
    <3>1. stored'[shared'[g]] = stored[shared[g]] /\ shared'[g] = shared[g]
      BY <1>4, <2>1
    <3>2. current \in Handler => shared'[current] = shared[current]
      BY <1>3, <1>4
    <3>3. stored'[shared[g]] = stored[shared[g]]
      BY <3>1
    <3>. QED  BY <1>2, <3>1, <3>2, <3>3, TokensUnmoved
  <2>. QED  BY <2>2, <2>3 DEF ContextOf
<1>6. ContextOf(h)' = <<>>
  <2>1. StepOf(h)' = 0
    BY <1>2, <1>3, <1>4 DEF StepOf
  <2>2. TokensOf(h)' = (CHOOSE p \in stored'[c] : TRUE).toks
    BY <1>2, <1>3, <1>4 DEF TokensOf
  <2>3. TokensOf(h)' = <<>>
    <3>1. (CHOOSE p \in {NewContext} : TRUE) = NewContext
      OBVIOUS
    <3>2. NewContext.toks = <<>>
      BY DEF NewContext
    <3>3. (CHOOSE p \in stored'[c] : TRUE) = NewContext
      BY <1>4, <3>1
    <3>. QED  BY <2>2, <3>2, <3>3
  <2>. QED  BY <2>1, <2>3, SubSeqEmpty DEF ContextOf
<1>7. Said[h] = {} /\ Said'[h] = {<<>>}
  BY <1>2, <1>3, <1>6, SaidIs
<1>8. \A g \in Handler \ {h} : Said'[g] = Said[g]
  <2>1. \A g \in Handler \ {h} : g \in owned' <=> g \in owned  BY <1>2
  <2>. QED  BY <1>5, <2>1, SaidIs
<1>. QED  BY <1>7, <1>8, SaidOfOne, SaidCreate

LEMMA CloneIsPrivate ==
    ASSUME ContextInv, NEW h \in Handler, NEW g \in Handler, CloneContextHandler(h, g)
    PROVE  private!Next
<1>1. /\ h \in owned /\ shared[g] = NoCell
      /\ shared' = [shared EXCEPT ![g] = shared[h]]
      /\ saved' = [saved EXCEPT ![g] = CloneSource(h)] /\ owned' = owned \cup {g}
      /\ executor' = executor /\ current' = current /\ stored' = stored
  BY DEF CloneContextHandler
<1>2. shared[h] # NoCell /\ (saved[h] = -1 <=> h = current) /\ g # current /\ g \notin owned /\ g # h
  BY <1>1 DEF ContextInv, HandlersSound
<1>3. /\ shared'[g] = shared[h] /\ saved'[g] = CloneSource(h)
      /\ \A x \in Handler \ {g} : shared'[x] = shared[x] /\ saved'[x] = saved[x]
  BY <1>1 DEF ContextInv, ContextTypeOK
<1>4. current \in Handler => shared'[current] = shared[current]
  BY <1>2, <1>3
<1>5. ASSUME NEW x \in owned  PROVE ContextOf(x)' = ContextOf(x)
  <2>1. x \in Handler \ {g}
    BY <1>2 DEF ContextInv, ContextTypeOK
  <2>2. StepOf(x)' = StepOf(x)
    BY <1>1, <1>3, <2>1 DEF StepOf
  <2>3. TokensOf(x)' = TokensOf(x)
    BY <1>1, <1>3, <1>4, <2>1 DEF TokensOf
  <2>. QED  BY <2>2, <2>3 DEF ContextOf
<1>6. ContextOf(g)' = ContextOf(h)
  <2>1. StepOf(g)' = StepOf(h)
    BY <1>1, <1>2, <1>3 DEF StepOf, CloneSource
  <2>2. TokensOf(g)' = TokensOf(h)
    <3>1. CASE current \in Handler /\ shared[h] = shared[current]
      BY <1>1, <1>3, <1>4, <3>1 DEF TokensOf
    <3>2. CASE ~(current \in Handler /\ shared[h] = shared[current])
      <4>1. TokensOf(h) = (CHOOSE p \in stored[shared[h]] : TRUE).toks
        BY <3>2 DEF TokensOf
      <4>2. ~(current' \in Handler /\ shared'[g] = shared'[current'])
        BY <1>1, <1>3, <1>4, <3>2
      <4>3. TokensOf(g)' = (CHOOSE p \in stored'[shared'[g]] : TRUE).toks
        BY <4>2 DEF TokensOf
      <4>. QED  BY <1>1, <1>3, <4>1, <4>3
    <3>. QED  BY <3>1, <3>2
  <2>. QED  BY <2>1, <2>2 DEF ContextOf
<1>7. Said[g] = {} /\ Said[h] = {ContextOf(h)} /\ Said'[g] = {ContextOf(h)}
  BY <1>1, <1>2, <1>6, SaidIs
<1>8. \A x \in Handler \ {g} : Said'[x] = Said[x]
  <2>1. \A x \in Handler \ {g} : x \in owned' <=> x \in owned  BY <1>1
  <2>. QED  BY <1>5, <2>1, SaidIs
<1>. QED  BY <1>7, <1>8, SaidOfOne, SaidClone

LEMMA ReleaseIsPrivate ==
    ASSUME ContextInv, NEW h \in Handler, ReleaseHandler(h)
    PROVE  private!Next
<1>1. h \in owned /\ owned' = owned \ {h} /\ executor' = executor /\ current' = current
  BY DEF ReleaseHandler
<1>2. ASSUME NEW g \in owned \ {h}  PROVE ContextOf(g)' = ContextOf(g)
  <2>1. g \in Handler /\ shared[g] \in Cell
    BY DEF ContextInv, ContextTypeOK, HandlersSound
  <2>2. CASE h = current
    <3>1. UNCHANGED <<executor, current, shared, saved, stored>>
      BY <1>1, <2>2 DEF ReleaseHandler
    <3>2. StepOf(g)' = StepOf(g) /\ TokensOf(g)' = TokensOf(g)
      BY <3>1 DEF StepOf, TokensOf
    <3>. QED  BY <3>2 DEF ContextOf
  <2>3. CASE h # current
    <3>1. /\ shared' = [shared EXCEPT ![h] = NoCell] /\ saved' = [saved EXCEPT ![h] = -1]
          /\ stored' = [c \in Cell |-> IF \E x \in Handler : shared'[x] = c
                                         THEN stored[c] ELSE {}]
      BY <2>3 DEF ReleaseHandler, Freed
    <3>2. \A x \in Handler \ {h} : shared'[x] = shared[x] /\ saved'[x] = saved[x]
      BY <3>1 DEF ContextInv, ContextTypeOK
    <3>3. stored'[shared[g]] = stored[shared[g]]
      BY <2>1, <3>1, <3>2
    <3>4. StepOf(g)' = StepOf(g)
      BY <1>1, <2>1, <3>2 DEF StepOf
    <3>5. TokensOf(g)' = TokensOf(g)
      <4>1. current \in Handler => shared'[current] = shared[current]
        BY <2>3, <3>2
      <4>2. shared'[g] = shared[g]
        BY <2>1, <3>2
      <4>. QED  BY <1>1, <3>3, <4>1, <4>2, TokensUnmoved
    <3>. QED  BY <3>4, <3>5 DEF ContextOf
  <2>. QED  BY <2>2, <2>3
<1>3. Said'[h] = {}
  BY <1>1, SaidIs
<1>4. \A g \in Handler \ {h} : Said'[g] = Said[g]
  <2>1. \A g \in Handler \ {h} : g \in owned' <=> g \in owned  BY <1>1
  <2>. QED  BY <1>2, <2>1, SaidIs
<1>. QED  BY <1>3, <1>4, SaidOfOne, SaidRelease

\* A switch changes no context: it is not seen.
LEMMA AcquireIsUnseen ==
    ASSUME ContextInv, NEW h \in Handler, AcquireExecutorWithContextHandler(h)
    PROVE  Said' = Said
<1>1. h \in owned /\ owned' = owned
  BY DEF AcquireExecutorWithContextHandler
<1>2. \A g \in owned : TokensOf(g)' = TokensOf(g) /\ StepOf(g)' = StepOf(g)
  BY <1>1, SwitchStateKeeps, SwitchContextKeeps
<1>3. \A g \in owned : ContextOf(g)' = ContextOf(g)
  BY <1>2 DEF ContextOf
<1>4. Said'[h] = Said[h] /\ \A g \in Handler \ {h} : Said'[g] = Said[g]
  BY <1>1, <1>3, SaidIs
<1>5. Said' = [Said EXCEPT ![h] = Said[h]]
  BY <1>4, SaidOfOne
<1>6. [Said EXCEPT ![h] = Said[h]] = Said
  <2>1. Said = [g \in Handler |-> Said[g]]
    BY DEF Said
  <2>. QED  BY <2>1
<1>. QED  BY <1>5, <1>6

\* A call of the loaded handler is seen in its own context only.
LEMMA CallIsPrivate ==
    ASSUME ContextInv, current \in owned, NEW step, Continues(step),
           NEW t2, ContextOf(current)' = t2,
           \/ private!IsPrefix(ContextOf(current), t2)
           \/ private!IsPrefix(t2, ContextOf(current))
    PROVE  private!Next
<1>1. current \in Handler /\ owned' = owned /\ current' = current
  BY CurrentIsLoaded DEF Continues
<1>2. \A g \in owned \ {current} : ContextOf(g)' = ContextOf(g)
  BY OthersKeepTheirContext
<1>3. PICK h \in Handler : h = current
  BY <1>1
<1>4. ContextOf(h)' = t2
  BY <1>1, <1>3 DEF ContextOf, TokensOf, StepOf
<1>5. Said[h] = {ContextOf(h)} /\ Said'[h] = {t2}
  BY <1>1, <1>3, <1>4, SaidIs
<1>6. \A g \in Handler \ {h} : Said'[g] = Said[g]
  BY <1>1, <1>2, <1>3, SaidIs
<1>7. Said' = [Said EXCEPT ![h] = {t2}]
  BY <1>5, <1>6, SaidOfOne
<1>. QED  BY <1>3, <1>5, <1>7, SaidMove

LEMMA PrivateStep == ContextInv /\ [Next]_vars => private!Next \/ Said' = Said
<1>. SUFFICES ASSUME ContextInv, [Next]_vars  PROVE private!Next \/ Said' = Said
  OBVIOUS
<1>0. current \in owned => ContextOf(current) \in Seq(Int)
  <2>1. ASSUME current \in owned  PROVE ContextOf(current) \in Seq(Int)
    <3>1. PICK toks \in Seq(Int), k \in Nat : toks = executor.toks /\ k = executor.step
      BY <2>1, ContextOfLoaded
    <3>2. ContextOf(current) = SubSeq(toks, 1, k) /\ k <= Len(toks)
      BY <2>1, <3>1, ContextOfLoaded
    <3>3. \A i \in 1..k : toks[i] \in Int
      BY <3>2, ElementOfSeq
    <3>. QED  BY <3>2, <3>3, SubSeqProperties
  <2>. QED  BY <2>1
<1>1. ASSUME NEW h \in Handler, CreateContextHandler(h)  PROVE private!Next
  BY <1>1, CreateIsPrivate
<1>2. ASSUME NEW h \in Handler, ReleaseHandler(h)  PROVE private!Next
  BY <1>2, ReleaseIsPrivate
<1>3. ASSUME NEW h \in Handler, AcquireExecutorWithContextHandler(h)  PROVE Said' = Said
  BY <1>3, AcquireIsUnseen
<1>4. ASSUME NEW h \in Handler, NEW g \in Handler, CloneContextHandler(h, g)  PROVE private!Next
  BY <1>4, CloneIsPrivate
<1>5. ASSUME NEW ids \in Inputs, Prefill(ids)  PROVE private!Next
  <2>1. current \in owned /\ ids \in Seq(Int)
    BY <1>5, ContextBounds DEF Prefill
  <2>2. private!IsPrefix(ContextOf(current), ContextOf(current) \o ids)
    BY <1>0, <2>1, PrefixOfConcat
  <2>. QED  BY <1>5, <2>1, <2>2, PrefillContinues, CallIsPrivate
<1>6. ASSUME NEW tok \in Sampled, Decode(tok)  PROVE private!Next
  <2>1. current \in owned /\ <<tok>> \in Seq(Int)
    BY <1>6, ContextBounds, SingleToken DEF Decode
  <2>2. private!IsPrefix(ContextOf(current), ContextOf(current) \o <<tok>>)
    BY <1>0, <2>1, PrefixOfConcat
  <2>. QED  BY <1>6, <2>1, <2>2, DecodeContinues, CallIsPrivate
<1>7. ASSUME NEW tok \in Sampled, DecodeLogits(tok)  PROVE private!Next
  <2>1. current \in owned /\ <<tok>> \in Seq(Int) /\ <<>> \in Seq(Int)
    BY <1>7, ContextBounds, SingleToken DEF DecodeLogits
  <2>2. private!IsPrefix(ContextOf(current), ContextOf(current) \o <<tok>>)
    BY <1>0, <2>1, PrefixOfConcat
  <2>3. private!IsPrefix(ContextOf(current), ContextOf(current))
    <3>1. private!IsPrefix(ContextOf(current), ContextOf(current) \o <<>>)
      BY <1>0, <2>1, PrefixOfConcat
    <3>2. ContextOf(current) \o <<>> = ContextOf(current)
      BY <1>0, <2>1, ConcatEmptySeq
    <3>. QED  BY <3>1, <3>2
  <2>. QED  BY <1>7, <2>1, <2>2, <2>3, DecodeLogitsContinues, CallIsPrivate
<1>8. ASSUME NEW n \in 0..MaxStep, SetCurrentStep(n)  PROVE private!Next
  <2>1. current \in owned
    BY <1>8 DEF SetCurrentStep
  <2>2. PICK toks \in Seq(Int), k \in Nat : toks = executor.toks /\ k = executor.step
    BY <2>1, ContextOfLoaded
  <2>3. k <= Len(toks) /\ ContextOf(current) = SubSeq(toks, 1, k)
    BY <2>1, <2>2, ContextOfLoaded
  <2>4. ContextOf(current)' = SubSeq(toks, 1, n) /\ n <= k /\ n \in Nat
    BY <1>8, <2>2, SetCurrentStepContinues, ContextBounds
  <2>5. private!IsPrefix(SubSeq(toks, 1, n), SubSeq(toks, 1, k))
    BY <2>3, <2>4, PrefixOfPrefix
  <2>. QED  BY <1>8, <2>1, <2>3, <2>4, <2>5, SetCurrentStepContinues, CallIsPrivate
<1>9. ASSUME UNCHANGED vars  PROVE Said' = Said
  BY <1>9 DEF vars, Said, ContextOf, TokensOf, StepOf
<1>. QED
  BY <1>1, <1>2, <1>3, <1>4, <1>5, <1>6, <1>7, <1>8, <1>9 DEF Next

\* The contexts are private: whatever the executor holds and whoever shares a
\* processed context, each call changes the context of its own handler only,
\* and that by adding tokens or by taking some back.
THEOREM ContextsArePrivate == Spec => ImplementsPrivate
<1>1. Init => private!Init
  BY DEF Init, private!Init
<1>2. ContextInv /\ [Next]_vars => [private!Next]_Said
  BY PrivateStep
<1>. QED  BY <1>1, <1>2, ContextInvariant, PTL DEF Spec, ImplementsPrivate, private!Spec, Said
=============================================================================
