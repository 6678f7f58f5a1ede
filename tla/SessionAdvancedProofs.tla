------------------------ MODULE SessionAdvancedProofs ------------------------
(***************************************************************************)
(* Sessions are clients of the scheduler: every step of SessionAdvanced is *)
(* a step of ExecutionManager or invisible to it, for any sessions, tasks  *)
(* and bounds.  So what is proved of the scheduler holds of sessions.      *)
(*                                                                         *)
(* Further, from invariants of their own: the tasks of a session run in    *)
(* the order of its calls (OrderInv: they are a chain, each waiting for    *)
(* the one before), and calls are never refused as long as destructors     *)
(* wait (HoldInv: an object that acts is registered).                      *)
(***************************************************************************)
EXTENDS SessionAdvanced, ExecutionManagerProofs

USE DEF Known

-----------------------------------------------------------------------------
(* Facts about the data.                                                   *)

\* The ids an operation may take are unused ones.
LEMMA FreshIds ==
  /\ \A t \in NewTask : t \in Tasks \ issued
  /\ \A s \in NewSession : s \in Sessions \ registered
<1>1. \A S : \A x \in First(S) : x \in S
  BY DEF First
<1>2. QED
  BY <1>1 DEF NewTask, NewSession

LEMMA InsideTypes ==
  ASSUME LayerTypeOK, NEW s \in Sessions
  PROVE  /\ inside[s].what \in {"no", "decode", "clone"}
         /\ inside[s].flag \in BOOLEAN
         /\ inside[s].for \in Tasks \cup {NoTask}
         /\ inside[s].into \in Sessions \cup {NoSession}
  BY DEF LayerTypeOK

LEMMA NobodyWhat == Nobody.what = "no" /\ Nobody.for = NoTask
  BY DEF Nobody, Inside

LEMMA LastType ==
  ASSUME LayerTypeOK, NEW s \in Sessions
  PROVE  last[s] = {} \/ \E x \in Tasks : last[s] = {x}
  BY DEF LayerTypeOK

\* A task that is added becomes the last one of its session.
LEMMA Chained ==
  ASSUME LayerTypeOK, NEW s \in Sessions, NEW t \in Tasks,
         last' = [last EXCEPT ![s] = {t}]
  PROVE  last' \in [Sessions -> {{}} \cup {{x} : x \in Tasks}]
<1>1. {t} \in {{}} \cup {{x} : x \in Tasks}
  OBVIOUS
<1>2. QED
  BY <1>1 DEF LayerTypeOK

LEMMA Extended ==
  ASSUME LayerTypeOK, NEW s \in Sessions, NEW t \in Tasks,
         order' = [order EXCEPT ![s] = Append(@, t)]
  PROVE  order' \in [Sessions -> Seq(Tasks)]
<1>1. order[s] \in Seq(Tasks)
  BY DEF LayerTypeOK
<1>2. Append(order[s], t) \in Seq(Tasks)
  BY <1>1
<1>3. QED
  BY <1>2 DEF LayerTypeOK

\* last_task_ids_ are few enough to be the dependencies of a task.
LEMMA LastAreDependencies ==
  ASSUME LayerInv, NEW s \in Sessions
  PROVE  last[s] \in SUBSET issued /\ Cardinality(last[s]) <= MaxDeps
<1>1. last[s] = {} \/ \E x \in Tasks : last[s] = {x}
  BY LastType DEF LayerInv
<1>2. Cardinality(last[s]) = 0 \/ Cardinality(last[s]) = 1
  BY <1>1, FS_EmptySet, FS_Singleton
<1>3. MaxDeps \in Nat /\ MaxDeps >= 1
  BY ConstantsAssumption, SessionAssumption
<1>4. QED
  BY <1>2, <1>3 DEF LayerInv, LastIssued

-----------------------------------------------------------------------------
(* Adding a task.                                                          *)

\* Add is a CreateTask a client of the scheduler may make, and a successful one.
LEMMA AddFacts ==
  ASSUME LayerInv, NEW s \in Sessions, NEW t \in Tasks, NEW k \in Kinds,
         NEW c \in CloneTargets(s, k), NEW flag \in BOOLEAN,
         Add(s, t, k, c, flag)
  PROVE  /\ Next /\ s \in live
         /\ t \notin issued /\ issued' = issued \cup {t}
         /\ requested' = [requested EXCEPT ![t] = last[s]]
         /\ UNCHANGED <<registered, live, cb>>
<1>1. CreateTask(s, t, k, c, last[s], flag) /\ state'[t] # "kUnknown"
  BY DEF Add
<1>2. t \notin issued /\ issued' = issued \cup {t}
      /\ UNCHANGED <<registered, live, cb>>
  BY <1>1 DEF CreateTask, sessionVars
<1>3. state[t] = "kUnknown"
  BY <1>2 DEF LayerInv, SchedulerInv, KnownIsIssued
<1>4. CreateTaskSucceeds(s, t, k, c, last[s], flag)
  <2>1. ~CreateTaskFails(s, t, last[s])
    BY <1>1, <1>3 DEF CreateTaskFails
  <2>2. QED
    BY <1>1, <2>1 DEF CreateTask
<1>5. s \in live /\ requested' = [requested EXCEPT ![t] = last[s]]
  BY <1>4 DEF CreateTaskSucceeds
<1>6. s \in registered
  BY <1>5 DEF LayerInv, SchedulerInv, TypeOK
<1>7. last[s] \in SUBSET issued /\ Cardinality(last[s]) <= MaxDeps
  BY LastAreDependencies
<1>8. Client
  BY <1>1, <1>6, <1>7 DEF Client
<1>9. QED
  BY <1>2, <1>5, <1>8 DEF Next

LEMMA KindsOfSession ==
  /\ "prefill" \in Kinds /\ "decode" \in Kinds
  /\ \A s \in Sessions : \A k \in {"prefill", "decode", "score"} :
       CloneTargets(s, k) = {NoSession}
  BY SessionAssumption DEF CloneTargets

\* Adding a task leaves the controllers of the other tasks valid.
LEMMA OtherControls ==
  ASSUME LayerInv, NEW s \in Sessions, NEW t \in Tasks, t \notin issued,
         issued' = issued \cup {t},
         requested' = [requested EXCEPT ![t] = last[s]]
  PROVE  /\ controls[t] = {} /\ requested'[t] = last[s]
         /\ \A x \in Tasks \ {t} : controls[x] # {} =>
              /\ x \in issued'
              /\ \E d \in {x} \cup requested'[x] : controls[x] = {d, x}
<1>1. requested \in [Tasks -> SUBSET Tasks]
  BY DEF LayerInv, SchedulerInv, TypeOK
<1>2. QED
  BY <1>1 DEF LayerInv, ControlsSound

\* A new task may get a controller for itself and a task it depends on.
LEMMA ControlsKept ==
  ASSUME LayerInv, NEW s \in Sessions, NEW t \in Tasks, t \notin issued,
         issued' = issued \cup {t},
         requested' = [requested EXCEPT ![t] = last[s]],
         \A x \in Tasks \ {t} : controls'[x] = controls[x],
         controls'[t] = {} \/ \E d \in {t} \cup last[s] : controls'[t] = {d, t}
  PROVE  ControlsSound'
<1> SUFFICES ASSUME NEW x \in Tasks, controls'[x] # {}
             PROVE  /\ x \in issued'
                    /\ \E d \in {x} \cup requested'[x] : controls'[x] = {d, x}
  BY DEF ControlsSound
<1>1. /\ requested'[t] = last[s]
      /\ \A y \in Tasks \ {t} : controls[y] # {} =>
           /\ y \in issued'
           /\ \E d \in {y} \cup requested'[y] : controls[y] = {d, y}
  BY OtherControls
<1>2. CASE x = t
  BY <1>1, <1>2
<1>3. CASE x # t
  BY <1>1, <1>3
<1>4. QED
  BY <1>2, <1>3

-----------------------------------------------------------------------------
(* The operations.                                                         *)

LEMMA CreateStep ==
  ASSUME LayerInv, NEW s \in NewSession, Create(s)
  PROVE  Next /\ LayerInv'
<1>0. s \in Sessions /\ s \notin registered
  BY FreshIds
<1>1. RegisterNewSession(s)
  BY DEF Create
<1>2. Next
  BY <1>0, <1>1 DEF Next, Client
<1>3. SchedulerInv'
  BY <1>2, NextInv DEF LayerInv
<1>4. /\ registered' = registered \cup {s} /\ live' = live \cup {s}
      /\ UNCHANGED <<issued, requested>>
  BY <1>1 DEF RegisterNewSession, taskAttrs
<1>5. /\ object' = [object EXCEPT ![s] = "alive"]
      /\ UNCHANGED <<phase, last, inside, controls, stream, decodeOf, order>>
  BY DEF Create
<1>6. LayerTypeOK'
  BY <1>0, <1>5 DEF LayerInv, LayerTypeOK
<1>7. ObjectsRegistered'
  BY <1>0, <1>4, <1>5 DEF LayerInv, LayerTypeOK, ObjectsRegistered
<1>8. ClonesSound'
  <2>1. live \subseteq registered
    BY DEF LayerInv, SchedulerInv, TypeOK
  <2>2. \A r \in Sessions : inside[r].what = "clone" => inside[r].into # s
    BY <1>0, <2>1 DEF LayerInv, ClonesSound
  <2>3. \A r \in Sessions : inside[r].what = "clone" =>
           object'[inside[r].into] = object[inside[r].into]
    BY <1>5, <2>2, InsideTypes DEF LayerInv, LayerTypeOK
  <2>4. QED
    BY <1>4, <1>5, <2>3 DEF LayerInv, ClonesSound
<1>9. LastIssued' /\ ControlsSound'
  BY <1>4, <1>5 DEF LayerInv, LastIssued, ControlsSound
<1>10. QED
  BY <1>2, <1>3, <1>6, <1>7, <1>8, <1>9 DEF LayerInv

\* A step that changes neither objects nor what is inside the sessions, and
\* releases no session, keeps the clones sound.
LEMMA ClonesStay ==
  ASSUME LayerInv, UNCHANGED <<live, object>>,
         \A r \in Sessions : inside'[r].what = "clone" =>
            inside[r].what = "clone" /\ inside'[r].into = inside[r].into
  PROVE  ClonesSound'
  BY DEF LayerInv, ClonesSound

LEMMA PrefillStep ==
  ASSUME LayerInv, NEW s \in Sessions, NEW t \in NewTask, NEW b \in BOOLEAN,
         RunPrefillAsync(s, t, b)
  PROVE  Next /\ LayerInv'
<1>0. t \in Tasks /\ t \notin issued
  BY FreshIds
<1>1. Add(s, t, "prefill", NoSession, FALSE)
  BY DEF RunPrefillAsync
<1>2. /\ Next
      /\ issued' = issued \cup {t}
      /\ requested' = [requested EXCEPT ![t] = last[s]]
      /\ UNCHANGED <<registered, live>>
  BY <1>0, <1>1, AddFacts, KindsOfSession
<1>3. SchedulerInv'
  BY <1>2, NextInv DEF LayerInv
<1>4. /\ phase' = [phase EXCEPT ![s] = "kPrefilled"]
      /\ last' = [last EXCEPT ![s] = {t}]
      /\ order' = [order EXCEPT ![s] = Append(@, t)]
      /\ controls' = [controls EXCEPT ![t] = IF b THEN {} ELSE {t}]
      /\ stream' = [stream EXCEPT ![t] = IF b THEN "waiting" ELSE "no"]
      /\ UNCHANGED <<object, inside, decodeOf>>
  BY DEF RunPrefillAsync, Extend
<1>5. LayerTypeOK'
  <2>1. last' \in [Sessions -> {{}} \cup {{x} : x \in Tasks}]
    BY <1>0, <1>4, Chained DEF LayerInv
  <2>2. order' \in [Sessions -> Seq(Tasks)]
    BY <1>0, <1>4, Extended DEF LayerInv
  <2>3. controls' \in [Tasks -> SUBSET Tasks]
    BY <1>0, <1>4 DEF LayerInv, LayerTypeOK
  <2>4. QED
    BY <1>0, <1>4, <2>1, <2>2, <2>3 DEF LayerInv, LayerTypeOK
<1>6. LastIssued' /\ ObjectsRegistered'
  BY <1>0, <1>2, <1>4 DEF LayerInv, LayerTypeOK, LastIssued, ObjectsRegistered
<1>7. ClonesSound'
  BY <1>2, <1>4, ClonesStay
<1>8. ControlsSound'
  <2>1. /\ \A x \in Tasks \ {t} : controls'[x] = controls[x]
        /\ controls'[t] = {} \/ controls'[t] = {t, t}
    BY <1>0, <1>4 DEF LayerInv, LayerTypeOK
  <2>2. QED
    BY <1>0, <1>2, <2>1, ControlsKept
<1>9. QED
  BY <1>2, <1>3, <1>5, <1>6, <1>7, <1>8 DEF LayerInv

\* What HandOver does with a decode that has just been added.
LEMMA HandOverFacts ==
  ASSUME LayerInv, NEW s \in Sessions, NEW t \in Tasks, t \notin issued,
         issued' = issued \cup {t},
         requested' = [requested EXCEPT ![t] = last[s]],
         NEW S \in {{t}, last[s] \cup {t}}, NEW for \in Tasks \cup {NoTask},
         HandOver(t, S, for)
  PROVE  /\ controls' \in [Tasks -> SUBSET Tasks]
         /\ stream' \in [Tasks -> {"no", "waiting", "adding", "decoding", "refused"}]
         /\ decodeOf' \in [Tasks -> Tasks \cup {NoTask}]
         /\ ControlsSound'
<1>1. last[s] = {} \/ \E x \in Tasks : last[s] = {x}
  BY LastType DEF LayerInv
<1>2. S \subseteq Tasks /\ \E d \in {t} \cup last[s] : S = {d, t}
  BY <1>1
<1>3. /\ controls' = [controls EXCEPT ![t] = IF for = NoTask THEN S ELSE {}]
      /\ stream' = IF for = NoTask THEN stream
                                   ELSE [stream EXCEPT ![for] = "decoding"]
      /\ decodeOf' = IF for = NoTask THEN decodeOf
                                     ELSE [decodeOf EXCEPT ![for] = t]
  BY DEF HandOver
<1>4. /\ controls' \in [Tasks -> SUBSET Tasks]
      /\ stream' \in [Tasks -> {"no", "waiting", "adding", "decoding", "refused"}]
      /\ decodeOf' \in [Tasks -> Tasks \cup {NoTask}]
  BY <1>2, <1>3 DEF LayerInv, LayerTypeOK
<1>5. \A x \in Tasks \ {t} : controls'[x] = controls[x]
  BY <1>3 DEF LayerInv, LayerTypeOK
<1>6. controls'[t] = {} \/ controls'[t] = S
  BY <1>3 DEF LayerInv, LayerTypeOK
<1>7. ControlsSound'
  BY <1>2, <1>5, <1>6, ControlsKept
<1>8. QED
  BY <1>4, <1>7

LEMMA DecodeAsyncStep ==
  ASSUME LayerInv, NEW s \in Sessions, NEW t \in NewTask,
         NEW for \in Tasks \cup {NoTask}, RunDecodeAsync(s, t, for)
  PROVE  Next /\ LayerInv'
<1>0. t \in Tasks /\ t \notin issued
  BY FreshIds
<1>a. /\ phase' = [phase EXCEPT ![s] = "kDecoded"]
      /\ order' = [order EXCEPT ![s] = Append(@, t)]
  BY DEF RunDecodeAsync, Extend
<1>b. last' = [last EXCEPT ![s] = {t}] /\ UNCHANGED object
  BY DEF RunDecodeAsync, ChainDecode
<1>c. \E k \in {"prefill", "decode"} : Add(s, t, k, NoSession, FALSE)
  BY DEF RunDecodeAsync
<1>1. /\ Next
      /\ issued' = issued \cup {t}
      /\ requested' = [requested EXCEPT ![t] = last[s]]
      /\ UNCHANGED <<registered, live>>
  BY <1>0, <1>c, AddFacts, KindsOfSession
<1>2. SchedulerInv'
  BY <1>1, NextInv DEF LayerInv
<1>3. /\ phase' \in [Sessions -> {"kFresh", "kPrefilled", "kDecoded"}]
      /\ last' \in [Sessions -> {{}} \cup {{x} : x \in Tasks}]
      /\ order' \in [Sessions -> Seq(Tasks)]
  <2>1. phase' \in [Sessions -> {"kFresh", "kPrefilled", "kDecoded"}]
    BY <1>a DEF LayerInv, LayerTypeOK
  <2>2. QED
    BY <1>0, <1>a, <1>b, <2>1, Chained, Extended DEF LayerInv
<1>4. LastIssued' /\ ObjectsRegistered'
  BY <1>0, <1>1, <1>b DEF LayerInv, LayerTypeOK, LastIssued, ObjectsRegistered
<1>5. CASE HandOver(t, {t}, for) /\ UNCHANGED inside
  <2>1. ClonesSound'
    BY <1>1, <1>b, <1>5, ClonesStay
  <2>2. LayerTypeOK' /\ ControlsSound'
    BY <1>0, <1>1, <1>3, <1>b, <1>5, HandOverFacts DEF LayerInv, LayerTypeOK
  <2>3. QED
    BY <1>1, <1>2, <1>4, <2>1, <2>2 DEF LayerInv
<1>6. CASE /\ inside' = [inside EXCEPT ![s] = Inside("decode", FALSE, for, NoSession)]
           /\ stream' = IF for = NoTask THEN stream
                                        ELSE [stream EXCEPT ![for] = "adding"]
           /\ UNCHANGED <<controls, decodeOf>>
  <2>1. inside'[s].what = "decode" /\ \A r \in Sessions \ {s} : inside'[r] = inside[r]
    BY <1>6 DEF LayerInv, LayerTypeOK, Inside
  <2>2. ClonesSound'
    BY <1>1, <1>b, <2>1, ClonesStay
  <2>3. ControlsSound'
    BY <1>0, <1>1, <1>6, OtherControls, ControlsKept
  <2>4. LayerTypeOK'
    BY <1>3, <1>b, <1>6 DEF LayerInv, LayerTypeOK, Inside
  <2>5. QED
    BY <1>1, <1>2, <1>4, <2>2, <2>3, <2>4 DEF LayerInv
<1>7. QED
  BY <1>5, <1>6 DEF RunDecodeAsync

LEMMA AddDecodeStep ==
  ASSUME LayerInv, NEW s \in Sessions, NEW t \in NewTask, AddDecode(s, t)
  PROVE  Next /\ LayerInv'
<1>0. t \in Tasks /\ t \notin issued
  BY FreshIds
<1>a. inside[s].flag \in BOOLEAN /\ inside[s].for \in Tasks \cup {NoTask}
  BY InsideTypes DEF LayerInv
<1>b. /\ Add(s, t, "decode", NoSession, inside[s].flag)
      /\ last' = [last EXCEPT ![s] = {t}]
      /\ order' = [order EXCEPT ![s] = Append(@, t)]
      /\ HandOver(t, last[s] \cup {t}, inside[s].for)
      /\ inside' = [inside EXCEPT ![s] = Nobody]
      /\ UNCHANGED <<object, phase>>
  BY DEF AddDecode, ChainDecode, Extend
<1>1. /\ Next
      /\ issued' = issued \cup {t}
      /\ requested' = [requested EXCEPT ![t] = last[s]]
      /\ UNCHANGED <<registered, live>>
  BY <1>0, <1>a, <1>b, AddFacts, KindsOfSession
<1>2. SchedulerInv'
  BY <1>1, NextInv DEF LayerInv
<1>3. LastIssued' /\ ObjectsRegistered'
  BY <1>0, <1>1, <1>b DEF LayerInv, LayerTypeOK, LastIssued, ObjectsRegistered
<1>4. inside'[s].what = "no" /\ \A r \in Sessions \ {s} : inside'[r] = inside[r]
  BY <1>b, NobodyWhat DEF LayerInv, LayerTypeOK
<1>5. ClonesSound'
  BY <1>1, <1>b, <1>4, ClonesStay
<1>6. /\ controls' \in [Tasks -> SUBSET Tasks]
      /\ stream' \in [Tasks -> {"no", "waiting", "adding", "decoding", "refused"}]
      /\ decodeOf' \in [Tasks -> Tasks \cup {NoTask}]
      /\ ControlsSound'
  BY <1>0, <1>a, <1>b, <1>1, HandOverFacts
<1>7. LayerTypeOK'
  <2>1. /\ last' \in [Sessions -> {{}} \cup {{x} : x \in Tasks}]
        /\ order' \in [Sessions -> Seq(Tasks)]
    BY <1>0, <1>b, Chained, Extended DEF LayerInv
  <2>2. QED
    BY <1>b, <1>6, <2>1 DEF LayerInv, LayerTypeOK, Nobody, Inside
<1>8. QED
  BY <1>1, <1>2, <1>3, <1>5, <1>6, <1>7 DEF LayerInv

LEMMA ScoreStep ==
  ASSUME LayerInv, NEW s \in Sessions, NEW t \in NewTask, RunTextScoringAsync(s, t)
  PROVE  Next /\ LayerInv'
<1>0. t \in Tasks /\ t \notin issued
  BY FreshIds
<1>a. /\ "score" \in Kinds /\ Add(s, t, "score", NoSession, FALSE)
      /\ controls' = [controls EXCEPT ![t] = {t}]
      /\ UNCHANGED <<object, phase, last, inside, stream, decodeOf, order>>
  BY DEF RunTextScoringAsync
<1>1. /\ Next
      /\ issued' = issued \cup {t}
      /\ requested' = [requested EXCEPT ![t] = last[s]]
      /\ UNCHANGED <<registered, live>>
  BY <1>0, <1>a, AddFacts, KindsOfSession
<1>2. SchedulerInv'
  BY <1>1, NextInv DEF LayerInv
<1>3. LayerTypeOK'
  BY <1>0, <1>a DEF LayerInv, LayerTypeOK
<1>4. LastIssued' /\ ObjectsRegistered'
  BY <1>1, <1>a DEF LayerInv, LastIssued, ObjectsRegistered
<1>5. ClonesSound'
  BY <1>1, <1>a, ClonesStay
<1>6. ControlsSound'
  <2>1. (\A x \in Tasks \ {t} : controls'[x] = controls[x]) /\ controls'[t] = {t, t}
    BY <1>0, <1>a DEF LayerInv, LayerTypeOK
  <2>2. QED
    BY <1>0, <1>1, <2>1, ControlsKept
<1>7. QED
  BY <1>1, <1>2, <1>3, <1>4, <1>5, <1>6 DEF LayerInv

LEMMA CloneAsyncStep ==
  ASSUME LayerInv, NEW s \in Sessions, NEW c \in NewSession, CloneAsync(s, c)
  PROVE  Next /\ LayerInv'
<1>0. c \in Sessions /\ c \notin registered
  BY FreshIds
<1>a. /\ "clone" \in Kinds /\ object[s] = "alive" /\ RegisterNewSession(c)
      /\ inside' = [inside EXCEPT ![s] = Inside("clone", FALSE, NoTask, c)]
      /\ UNCHANGED <<object, phase, last, controls, stream, decodeOf, order>>
  BY DEF CloneAsync, Enter
<1>1. Next
  BY <1>0, <1>a DEF Next, Client
<1>2. SchedulerInv'
  BY <1>1, NextInv DEF LayerInv
<1>3. /\ registered' = registered \cup {c} /\ live' = live \cup {c}
      /\ UNCHANGED <<issued, requested>>
  BY <1>a DEF RegisterNewSession, taskAttrs
<1>4. LayerTypeOK'
  BY <1>0, <1>a DEF LayerInv, LayerTypeOK, Inside
<1>5. LastIssued' /\ ObjectsRegistered' /\ ControlsSound'
  BY <1>3, <1>a DEF LayerInv, LastIssued, ObjectsRegistered, ControlsSound
<1>6. ClonesSound'
  <2>1. c # s /\ object[c] = "none"
    BY <1>0, <1>a DEF LayerInv, LayerTypeOK, ObjectsRegistered
  <2>2. inside'[s].into = c /\ \A r \in Sessions \ {s} : inside'[r] = inside[r]
    BY <1>a DEF LayerInv, LayerTypeOK, Inside
  <2>3. \A r \in Sessions : inside[r].what = "clone" => inside[r].into # c
    BY <1>0 DEF LayerInv, ClonesSound, SchedulerInv, TypeOK
  <2>4. ASSUME NEW r \in Sessions, inside'[r].what = "clone"
        PROVE  /\ inside'[r].into \in live' \ {r} /\ object'[inside'[r].into] = "none"
               /\ \A q \in Sessions \ {r} :
                    inside'[q].what = "clone" => inside'[q].into # inside'[r].into
    <3>0. live' = live \cup {c} /\ UNCHANGED object
      BY <1>3, <1>a
    <3>1. CASE r = s
      <4>1. inside'[r].into = c
        BY <2>2, <3>1
      <4>2. \A q \in Sessions \ {r} : inside'[q].what = "clone" => inside'[q].into # c
        BY <2>2, <2>3, <3>1
      <4>3. QED
        BY <2>1, <3>0, <3>1, <4>1, <4>2
    <3>2. CASE r # s
      <4>1. inside'[r] = inside[r] /\ inside[r].into # c
        BY <2>2, <2>3, <2>4, <3>2
      <4>2. /\ inside[r].into \in live \ {r} /\ object[inside[r].into] = "none"
            /\ \A q \in Sessions \ {r} :
                 inside[q].what = "clone" => inside[q].into # inside[r].into
        BY <2>4, <4>1 DEF LayerInv, ClonesSound
      <4>3. \A q \in Sessions \ {r} :
               inside'[q].what = "clone" => inside'[q].into # inside[r].into
        BY <2>2, <4>1, <4>2
      <4>4. QED
        BY <3>0, <4>1, <4>2, <4>3
    <3>3. QED
      BY <3>1, <3>2
  <2>5. QED
    BY <1>a, <2>4 DEF ClonesSound
<1>7. QED
  BY <1>1, <1>2, <1>4, <1>5, <1>6 DEF LayerInv

LEMMA AddCloneStep ==
  ASSUME LayerInv, NEW s \in Sessions, NEW t \in NewTask, AddClone(s, t)
  PROVE  Next /\ LayerInv'
<1> DEFINE c == inside[s].into
<1>0. t \in Tasks /\ t \notin issued
  BY FreshIds
<1>a. /\ inside[s].what = "clone"
      /\ Add(s, t, "clone", c, FALSE)
      /\ last' = [last EXCEPT ![s] = {t}, ![c] = {t}]
      /\ order' = [order EXCEPT ![s] = Append(@, t), ![c] = Append(order[s], t)]
      /\ phase' = [phase EXCEPT ![c] = phase[s]]
      /\ object' = [object EXCEPT ![c] = "alive"]
      /\ inside' = [inside EXCEPT ![s] = Nobody]
      /\ UNCHANGED <<controls, stream, decodeOf>>
  BY DEF AddClone, CloneTarget
<1>b. /\ "clone" \in Kinds /\ c \in live \ {s} /\ c \in Sessions
      /\ \A r \in Sessions \ {s} : inside[r].what = "clone" => inside[r].into # c
  BY <1>a DEF LayerInv, ClonesSound, SchedulerInv, TypeOK
<1>1. /\ Next
      /\ issued' = issued \cup {t}
      /\ requested' = [requested EXCEPT ![t] = last[s]]
      /\ UNCHANGED <<registered, live>>
  <2>1. c \in CloneTargets(s, "clone")
    BY <1>b DEF CloneTargets
  <2>2. QED
    BY <1>0, <1>a, <1>b, <2>1, AddFacts
<1>2. SchedulerInv'
  BY <1>1, NextInv DEF LayerInv
<1>3. LayerTypeOK'
  <2>1. /\ last' \in [Sessions -> {{}} \cup {{x} : x \in Tasks}]
        /\ order' \in [Sessions -> Seq(Tasks)]
    <3>1. {t} \in {{}} \cup {{x} : x \in Tasks}
      BY <1>0
    <3>2. Append(order[s], t) \in Seq(Tasks)
      <4>1. order[s] \in Seq(Tasks)
        BY DEF LayerInv, LayerTypeOK
      <4>2. QED
        BY <1>0, <4>1
    <3>3. last' \in [Sessions -> {{}} \cup {{x} : x \in Tasks}]
      BY <1>a, <3>1 DEF LayerInv, LayerTypeOK
    <3>4. order' \in [Sessions -> Seq(Tasks)]
      BY <1>a, <3>2 DEF LayerInv, LayerTypeOK
    <3>5. QED
      BY <3>3, <3>4
  <2>2. /\ phase' \in [Sessions -> {"kFresh", "kPrefilled", "kDecoded"}]
        /\ object' \in [Sessions -> {"none", "alive", "waiting", "releasing", "gone"}]
    BY <1>a, <1>b DEF LayerInv, LayerTypeOK
  <2>3. QED
    BY <1>a, <2>1, <2>2 DEF LayerInv, LayerTypeOK, Nobody, Inside
<1>4. LastIssued'
  BY <1>0, <1>1, <1>a DEF LayerInv, LayerTypeOK, LastIssued
<1>5. ObjectsRegistered'
  <2>1. c \in registered
    BY <1>b DEF LayerInv, SchedulerInv, TypeOK
  <2>2. QED
    BY <1>1, <1>a, <2>1 DEF LayerInv, LayerTypeOK, ObjectsRegistered
<1>6. ClonesSound'
  <2>1. inside'[s].what = "no" /\ \A r \in Sessions \ {s} : inside'[r] = inside[r]
    BY <1>a, NobodyWhat DEF LayerInv, LayerTypeOK
  <2>2. \A r \in Sessions \ {s} : inside[r].what = "clone" =>
           object'[inside[r].into] = object[inside[r].into]
    BY <1>a, <1>b, InsideTypes DEF LayerInv, LayerTypeOK
  <2>3. QED
    BY <1>1, <2>1, <2>2 DEF LayerInv, ClonesSound
<1>7. ControlsSound'
  BY <1>0, <1>1, <1>a, OtherControls, ControlsKept
<1>8. QED
  BY <1>1, <1>2, <1>3, <1>4, <1>5, <1>6, <1>7 DEF LayerInv

\* A step that adds no task, registers and releases no session, and moves no
\* object out of "none".
LEMMA QuietStep ==
  ASSUME LayerInv, SchedulerInv', UNCHANGED <<registered, live, issued, requested>>,
         UNCHANGED <<phase, last, controls, decodeOf, order>>,
         \A s \in Sessions : object'[s] = object[s] \/
                             (object[s] # "none" /\ object'[s] # "none"),
         \A s \in Sessions : /\ inside'[s].what = inside[s].what
                             /\ inside'[s].into = inside[s].into,
         LayerTypeOK'
  PROVE  LayerInv'
<1>1. LastIssued' /\ ObjectsRegistered' /\ ControlsSound'
  BY DEF LayerInv, LastIssued, ObjectsRegistered, ControlsSound
<1>2. ClonesSound'
  <2>1. live \subseteq Sessions
    BY DEF LayerInv, SchedulerInv, TypeOK
  <2>2. \A s \in Sessions : object[s] = "none" => object'[s] = "none"
    OBVIOUS
  <2>3. \A s \in Sessions : inside[s].what = "clone" => inside[s].into \in Sessions
    BY <2>1 DEF LayerInv, ClonesSound
  <2>4. QED
    BY <2>2, <2>3 DEF LayerInv, ClonesSound
<1>3. QED
  BY <1>1, <1>2 DEF LayerInv

LEMMA CancelSteps ==
  ASSUME LayerInv,
         \/ \E s \in Sessions : CancelProcess(s)
         \/ \E t \in Tasks : Cancel(t)
  PROVE  Next /\ LayerInv'
<1>1. Next
  <2>1. CASE \E s \in Sessions : CancelProcess(s)
    BY <2>1 DEF CancelProcess, Next, Client
  <2>2. CASE \E t \in Tasks : Cancel(t)
    <3>1. PICK t \in Tasks : controls[t] # {} /\ CancelTasks(controls[t])
      BY <2>2 DEF Cancel
    <3>2. PICK d \in {t} \cup requested[t] : controls[t] = {d, t}
      BY <3>1 DEF LayerInv, ControlsSound
    <3>3. CancelTasks({d, t})
      BY <3>1, <3>2
    <3>4. QED
      BY <3>3 DEF Next, Client
  <2>3. QED
    BY <2>1, <2>2
<1>2. SchedulerInv'
  BY <1>1, NextInv DEF LayerInv
<1>3. UNCHANGED <<registered, live, issued, requested>>
  BY DEF CancelProcess, Cancel, CancelAllTasksInSession, CancelTasks, SetCancelled,
         sessionVars, taskAttrs
<1>4. UNCHANGED <<object, phase, last, controls, stream, decodeOf, order>>
  BY DEF CancelProcess, Cancel, layerVars
<1>5. /\ inside' \in [Sessions -> [what : {"no", "decode", "clone"}, flag : BOOLEAN,
                                   for : Tasks \cup {NoTask},
                                   into : Sessions \cup {NoSession}]]
      /\ \A s \in Sessions : /\ inside'[s].what = inside[s].what
                             /\ inside'[s].into = inside[s].into
  <2>1. CASE UNCHANGED inside
    BY <2>1 DEF LayerInv, LayerTypeOK
  <2>2. CASE \E s \in Sessions : CancelProcess(s)
    <3>1. PICK s \in Sessions : CancelProcess(s)
      BY <2>2
    <3>2. PICK b \in BOOLEAN : inside' = [inside EXCEPT ![s].flag = b]
      <4>1. inside[s].flag \in BOOLEAN
        BY InsideTypes DEF LayerInv
      <4>2. QED
        BY <3>1, <4>1 DEF CancelProcess
    <3>3. /\ \A r \in Sessions \ {s} : inside'[r] = inside[r]
          /\ inside'[s] = [inside[s] EXCEPT !.flag = b]
          /\ inside' = [r \in Sessions |-> inside'[r]]
      BY <3>2 DEF LayerInv, LayerTypeOK
    <3>4. inside[s] \in [what : {"no", "decode", "clone"}, flag : BOOLEAN,
                         for : Tasks \cup {NoTask}, into : Sessions \cup {NoSession}]
      BY DEF LayerInv, LayerTypeOK
    <3>5. /\ inside'[s] \in [what : {"no", "decode", "clone"}, flag : BOOLEAN,
                              for : Tasks \cup {NoTask}, into : Sessions \cup {NoSession}]
          /\ inside'[s].what = inside[s].what /\ inside'[s].into = inside[s].into
      BY <3>3, <3>4
    <3>6. \A r \in Sessions : inside'[r] \in
             [what : {"no", "decode", "clone"}, flag : BOOLEAN,
              for : Tasks \cup {NoTask}, into : Sessions \cup {NoSession}]
      BY <3>3, <3>5 DEF LayerInv, LayerTypeOK
    <3>7. \A r \in Sessions : /\ inside'[r].what = inside[r].what
                              /\ inside'[r].into = inside[r].into
      BY <3>3, <3>5
    <3>8. QED
      BY <3>3, <3>6, <3>7
  <2>3. QED
    BY <2>1, <2>2 DEF Cancel, layerVars
<1>6. LayerTypeOK'
  BY <1>4, <1>5 DEF LayerInv, LayerTypeOK
<1>7. QED
  BY <1>1, <1>2, <1>3, <1>4, <1>5, <1>6, QuietStep

LEMMA DestructorSteps ==
  ASSUME LayerInv, NEW s \in Sessions, Destroy(s) \/ WaitEnds(s)
  PROVE  UNCHANGED vars /\ LayerInv'
<1>1. /\ UNCHANGED <<vars, phase, last, inside, controls, stream, decodeOf, order>>
      /\ object[s] # "none"
      /\ \E o \in {"waiting", "releasing"} : object' = [object EXCEPT ![s] = o]
  BY DEF Destroy, WaitEnds
<1>2. SchedulerInv'
  BY <1>1, NextInv DEF LayerInv
<1>3. LayerTypeOK'
  BY <1>1 DEF LayerInv, LayerTypeOK
<1>4. \A r \in Sessions : object'[r] = object[r] \/
                          (object[r] # "none" /\ object'[r] # "none")
  BY <1>1 DEF LayerInv, LayerTypeOK
<1>5. UNCHANGED <<registered, live, issued, requested>>
  BY <1>1 DEF vars
<1>6. QED
  BY <1>1, <1>2, <1>3, <1>4, <1>5, QuietStep

LEMMA ReleaseStep ==
  ASSUME LayerInv, NEW s \in Sessions, Release(s)
  PROVE  Next /\ LayerInv'
<1>a. /\ object[s] = "releasing" /\ ReleaseSession(s)
      /\ object' = [object EXCEPT ![s] = "gone"]
      /\ UNCHANGED <<phase, last, inside, controls, stream, decodeOf, order>>
  BY DEF Release
<1>1. Next
  BY <1>a DEF Next, Client
<1>2. SchedulerInv'
  BY <1>1, NextInv DEF LayerInv
<1>3. live' = live \ {s} /\ UNCHANGED <<registered, issued, requested>>
  BY <1>a DEF ReleaseSession, taskAttrs
<1>4. LayerTypeOK'
  BY <1>a DEF LayerInv, LayerTypeOK
<1>5. LastIssued' /\ ObjectsRegistered' /\ ControlsSound'
  BY <1>3, <1>a DEF LayerInv, LayerTypeOK, LastIssued, ObjectsRegistered, ControlsSound
<1>6. ClonesSound'
  <2>1. \A r \in Sessions : inside[r].what = "clone" => inside[r].into # s
    BY <1>a DEF LayerInv, ClonesSound
  <2>2. \A r \in Sessions : inside[r].what = "clone" =>
           object'[inside[r].into] = object[inside[r].into]
    BY <1>a, <2>1, InsideTypes DEF LayerInv, LayerTypeOK
  <2>3. QED
    BY <1>3, <1>a, <2>1, <2>2 DEF LayerInv, ClonesSound
<1>7. QED
  BY <1>1, <1>2, <1>4, <1>5, <1>6 DEF LayerInv

\* The threads of the scheduler register, release and add nothing.
LEMMA ThreadsAddNothing ==
  ASSUME ExecutionThread \/ CallbackThread
  PROVE  UNCHANGED <<registered, live, issued, requested>>
  BY DEF ExecutionThread, CallbackThread, StartTask, DecodeStep, RunBody,
         DecodeBufferFails, FinishTask, FinishUnsuccessfully, FinishSuccessfully,
         FinishRefused, FinishStopsInCascade, FinishStopsInLoop, AwaitCallbacks,
         CallbackBegin, CallbackEnd, sessionVars, taskAttrs

LEMMA ThreadSteps ==
  ASSUME LayerInv, ExecutionThread \/ CallbackThread, UNCHANGED layerVars
  PROVE  Next /\ LayerInv'
<1>1. Next
  BY DEF Next
<1>2. SchedulerInv'
  BY <1>1, NextInv DEF LayerInv
<1>3. LayerTypeOK'
  BY DEF LayerInv, LayerTypeOK, layerVars
<1>4. QED
  BY <1>1, <1>2, <1>3, ThreadsAddNothing, QuietStep DEF layerVars

\* The callback of a streamed prefill.
LEMMA StreamStep ==
  ASSUME LayerInv, StreamContinues
  PROVE  (Next \/ UNCHANGED vars) /\ LayerInv'
<1> DEFINE s == owner[cb.task]
<1>0. cb.task \in Tasks
  BY DEF LayerInv, SchedulerInv, CallbacksSound, StreamContinues, Continues
<1>1. CASE \E t \in NewTask : RunDecodeAsync(s, t, cb.task)
  <2>1. PICK t \in NewTask : RunDecodeAsync(s, t, cb.task)
    BY <1>1
  <2>2. \E k : CreateTask(s, t, k, NoSession, last[s], FALSE) /\ state'[t] # "kUnknown"
    BY <2>1 DEF RunDecodeAsync, Add
  <2>3. t \notin issued /\ t \in Tasks /\ state[t] = "kUnknown"
    BY FreshIds DEF LayerInv, SchedulerInv, KnownIsIssued
  <2>4. s \in live
    BY <2>2, <2>3 DEF CreateTask, CreateTaskFails, CreateTaskSucceeds
  <2>5. s \in Sessions
    BY <2>4 DEF LayerInv, SchedulerInv, TypeOK
  <2>6. QED
    BY <1>0, <2>1, <2>5, DecodeAsyncStep
<1>2. CASE /\ stream' = [stream EXCEPT ![cb.task] = "refused"]
           /\ UNCHANGED <<vars, object, phase, last, inside, controls, decodeOf, order>>
  <2>1. SchedulerInv'
    BY <1>2, NextInv DEF LayerInv
  <2>2. LayerTypeOK'
    BY <1>0, <1>2 DEF LayerInv, LayerTypeOK
  <2>3. UNCHANGED <<registered, live, issued, requested>>
    BY <1>2 DEF vars
  <2>4. QED
    BY <1>2, <2>1, <2>2, <2>3, QuietStep
<1>3. QED
  BY <1>1, <1>2 DEF StreamContinues

-----------------------------------------------------------------------------
(* The theorems.                                                           *)

LEMMA LayerInitInv == SessionInit => LayerInv
<1> SUFFICES ASSUME SessionInit PROVE LayerInv
  OBVIOUS
<1>1. SchedulerInv
  BY InitInv DEF SessionInit
<1>2. LayerTypeOK
  BY DEF SessionInit, LayerTypeOK, Nobody, Inside
<1>3. ClonesSound
  BY NobodyWhat DEF SessionInit, ClonesSound
<1>4. QED
  BY <1>1, <1>2, <1>3
  DEF SessionInit, LayerInv, LastIssued, ObjectsRegistered, ControlsSound

LEMMA SessionNextInv ==
  LayerInv /\ [SessionNext]_allVars => LayerInv' /\ [Next]_vars
<1> SUFFICES ASSUME LayerInv, [SessionNext]_allVars
             PROVE  LayerInv' /\ (Next \/ UNCHANGED vars)
  OBVIOUS
<1>1. CASE \E s \in NewSession : Create(s)
  BY <1>1, CreateStep
<1>2. CASE \E s \in Sessions, t \in NewTask :
             RunPrefillAsync(s, t, FALSE) \/ RunPrefillAsync(s, t, TRUE)
  BY <1>2, PrefillStep
<1>3. CASE \E s \in Sessions, t \in NewTask : ClientDecodes(s, t)
  BY <1>3, DecodeAsyncStep DEF ClientDecodes
<1>4. CASE \E s \in Sessions, t \in NewTask : RunTextScoringAsync(s, t)
  BY <1>4, ScoreStep
<1>5. CASE \E s \in Sessions, c \in NewSession : CloneAsync(s, c)
  BY <1>5, CloneAsyncStep
<1>6. CASE \/ \E s \in Sessions : CancelProcess(s)
           \/ \E t \in Tasks : Cancel(t)
  BY <1>6, CancelSteps
<1>7. CASE \E s \in Sessions : Destroy(s) \/ WaitEnds(s)
  BY <1>7, DestructorSteps
<1>8. CASE \E s \in Sessions : Release(s)
  BY <1>8, ReleaseStep
<1>9. CASE \E s \in Sessions, t \in NewTask : AddDecode(s, t) \/ AddClone(s, t)
  BY <1>9, AddDecodeStep, AddCloneStep
<1>10. CASE ExecutionStep \/ CallbackStep
  BY <1>10, ThreadSteps, StreamStep DEF ExecutionStep, CallbackStep, CallbackThread
<1>11. CASE UNCHANGED allVars
  <2>1. UNCHANGED vars /\ UNCHANGED layerVars
    BY <1>11 DEF allVars
  <2>2. SchedulerInv'
    BY <2>1, NextInv DEF LayerInv
  <2>3. LayerTypeOK'
    BY <2>1 DEF LayerInv, LayerTypeOK, layerVars
  <2>4. QED
    BY <2>1, <2>2, <2>3, QuietStep DEF vars, layerVars
<1>12. QED
  BY <1>1, <1>2, <1>3, <1>4, <1>5, <1>6, <1>7, <1>8, <1>9, <1>10, <1>11
  DEF SessionNext, SessionClient, Proceed

\* The invariant of the layer, which includes that of the scheduler.
THEOREM LayerInvariant == SessionSpec => []LayerInv
<1>1. SessionInit => LayerInv
  BY LayerInitInv
<1>2. LayerInv /\ [SessionNext]_allVars => LayerInv'
  BY SessionNextInv
<1>3. QED
  BY <1>1, <1>2, PTL DEF SessionSpec

\* Type correctness of sessions.
THEOREM LayerTypeCorrect == SessionSpec => []LayerTypeOK
<1>1. LayerInv => LayerTypeOK
  BY DEF LayerInv
<1>2. QED
  BY <1>1, LayerInvariant, PTL

\* A session is a client of the scheduler like any other: every call it makes is
\* one that the scheduler's proofs allow a client to make.
THEOREM SessionIsClient == SessionSpec => ImplementsManager
<1>1. SessionInit => Init
  BY DEF SessionInit
<1>2. LayerInv /\ [SessionNext]_allVars => [Next]_vars
  BY SessionNextInv
<1>3. QED
  BY <1>1, <1>2, LayerInvariant, PTL DEF SessionSpec, ImplementsManager

\* So the tasks of sessions run after their dependencies, and each once.
THEOREM SessionTasksInOrder == SessionSpec => [](RunsAfterDependencies /\ QueueExact)
<1>1. SchedulerInv => RunsAfterDependencies /\ QueueExact
  BY SchedulerProperties
<1>2. LayerInv => SchedulerInv
  BY DEF LayerInv
<1>3. QED
  BY <1>1, <1>2, LayerInvariant, PTL

\* And the outcome of a task that a session's caller has waited for is final.
THEOREM SessionOutcomeIsFinal == SessionSpec => EndIsFinal
<1>1. SchedulerInv /\ [Next]_vars =>
        [\A t \in Tasks : Ended(t) =>
            state'[t] = state[t] /\ reports'[t] = reports[t]]_vars
  BY EndedUntouched
<1>2. LayerInv => SchedulerInv
  BY DEF LayerInv
<1>3. QED
  BY <1>1, <1>2, LayerInvariant, SessionIsClient, PTL DEF ImplementsManager, EndIsFinal

-----------------------------------------------------------------------------
(* The order of the tasks of a session.                                    *)

\* What a successful Add does to the scheduler.
LEMMA AddWhole ==
  ASSUME LayerInv, NEW s \in Sessions, NEW t \in Tasks, NEW k, NEW c, NEW flag,
         Add(s, t, k, c, flag)
  PROVE  /\ CreateTaskSucceeds(s, t, k, c, last[s], flag)
         /\ t \notin issued /\ issued' = issued \cup {t} /\ state[t] = "kUnknown"
         /\ UNCHANGED <<registered, live, exec, cbQueue, cb>>
<1>1. CreateTask(s, t, k, c, last[s], flag) /\ state'[t] # "kUnknown"
  BY DEF Add
<1>2. /\ t \notin issued /\ issued' = issued \cup {t}
      /\ UNCHANGED <<registered, live, exec, cbQueue, cb>>
  BY <1>1 DEF CreateTask, sessionVars
<1>3. state[t] = "kUnknown"
  BY <1>2 DEF LayerInv, SchedulerInv, KnownIsIssued
<1>4. ~CreateTaskFails(s, t, last[s])
  BY <1>1, <1>3 DEF CreateTaskFails
<1>5. QED
  BY <1>1, <1>2, <1>3, <1>4 DEF CreateTask

\* A task in an end state, or between its run and its end, is past its run.
LEMMA RunIsOver ==
  ASSUME SchedulerInv, NEW d \in Tasks,
         state[d] \notin {"kUnknown", "kCreated", "kQueued", "kProcessing"}
  PROVE  PastRun(d)
  BY DEF SchedulerInv, RunnerSound, PastRun, Running

\* A new task is queued, or ends like its dependency, only if that one has run.
LEMMA AddReached ==
  ASSUME LayerInv, NEW s \in Sessions, NEW t \in Tasks, NEW k, NEW c, NEW flag,
         Add(s, t, k, c, flag), state'[t] \in Reached, NEW d \in last[s]
  PROVE  d \in Tasks /\ PastRun(d) /\ state[d] \in Reached
<1>1. /\ CreateTaskSucceeds(s, t, k, c, last[s], flag)
      /\ state \in [Tasks -> TaskState] /\ d \in Tasks
  <2>1. CreateTaskSucceeds(s, t, k, c, last[s], flag)
    BY AddWhole
  <2>2. d \in Tasks
    BY LastType DEF LayerInv
  <2>3. QED
    BY <2>1, <2>2 DEF LayerInv, SchedulerInv, TypeOK
<1> DEFINE initial == InitialState(last[s])
           queued == initial = "kCreated" /\ Unfinished(last[s]) = {}
<1>2. state'[t] = IF queued THEN "kQueued" ELSE initial
  BY <1>1 DEF CreateTaskSucceeds
<1>3. Known(d) /\ last[s] = {d}
  BY <1>1, LastType DEF CreateTaskSucceeds, LayerInv
<1>4. \/ queued
      \/ initial = "kMaxNumTokensReached"
  BY <1>2 DEF Reached, Launched, InitialState
<1>5. CASE queued
  <2>1. state[d] \notin {"kCreated", "kQueued", "kProcessing"}
    BY <1>3, <1>5 DEF Unfinished
  <2>2. state[d] \notin {"kFailed", "kDependentTaskFailed", "kCancelled",
                         "kDependentTaskCancelled", "kMaxNumTokensReached"}
    BY <1>3, <1>5 DEF InitialState, FailedStates, CancelledStates
  <2>3. state[d] \in {"kDone", "kLastCallbackQueued"}
    BY <1>1, <1>3, <2>1, <2>2 DEF TaskState
  <2>4. QED
    BY <1>1, <2>3, RunIsOver DEF LayerInv, Reached, Launched
<1>6. CASE initial = "kMaxNumTokensReached"
  <2>1. state[d] = "kMaxNumTokensReached"
    BY <1>3, <1>6 DEF InitialState
  <2>2. QED
    BY <1>1, <2>1, RunIsOver DEF LayerInv, Reached
<1>7. QED
  BY <1>4, <1>5, <1>6

\* Adding a task leaves the other tasks as they are.
LEMMA AddFrame ==
  ASSUME LayerInv, NEW s \in Sessions, NEW t \in Tasks, NEW k, NEW c, NEW flag,
         Add(s, t, k, c, flag)
  PROVE  /\ \A x \in Tasks \ {t} : /\ state'[x] = state[x] /\ deps'[x] = deps[x]
                                   /\ requested'[x] = requested[x]
                                   /\ owner'[x] = owner[x]
                                   /\ PastRun(x) => PastRun(x)'
         /\ ~Known(t) /\ Known(t)' /\ requested'[t] = last[s] /\ owner'[t] = s
         /\ deps'[t] \subseteq last[s]
<1>1. /\ CreateTaskSucceeds(s, t, k, c, last[s], flag)
      /\ exec' = exec /\ state[t] = "kUnknown" /\ TypeOK
  BY AddWhole DEF LayerInv, SchedulerInv
<1>2. /\ \E v : state' = [state EXCEPT ![t] = v]
      /\ deps' = [deps EXCEPT ![t] = Unfinished(last[s])]
      /\ requested' = [requested EXCEPT ![t] = last[s]]
      /\ owner' = [owner EXCEPT ![t] = s]
  BY <1>1 DEF CreateTaskSucceeds
<1>3. Unfinished(last[s]) \subseteq last[s]
  BY DEF Unfinished
<1>4. Known(t)'
  BY DEF Add
<1>5. QED
  BY <1>1, <1>2, <1>3, <1>4, LastType DEF TypeOK, PastRun, Running, LayerInv

\* What the invariant says of a sequence of tasks.
Chain(q) ==
    \A j \in 1..Len(q) :
        /\ Known(q[j])
        /\ requested[q[j]] = IF j = 1 THEN {} ELSE {q[j - 1]}
        /\ state[q[j]] \in Reached => \A i \in 1..(j - 1) : PastRun(q[i])

EndOf(q) == IF q = <<>> THEN {} ELSE {Last(q)}

LEMMA Chains ==
  OrderInv <=> /\ DepsNamed
               /\ \A s \in Sessions : last[s] = EndOf(order[s]) /\ Chain(order[s])
  BY DEF OrderInv, ChainSound, ChainReached, Chain, EndOf

LEMMA ChainsAfter ==
  ASSUME DepsNamed',
         \A s \in Sessions : last'[s] = EndOf(order'[s]),
         \A s \in Sessions : Chain(order[s])'
  PROVE  OrderInv'
<1>1. ChainSound'
  BY DEF ChainSound, Chain, EndOf
<1>2. ChainReached'
  BY DEF ChainReached, Chain
<1>3. QED
  BY <1>1, <1>2 DEF OrderInv

\* A step that keeps what has run keeps a chain.
LEMMA ChainStays ==
  ASSUME NEW q \in Seq(Tasks), Chain(q),
         \A x \in Tasks : Known(x) => Known(x)' /\ requested'[x] = requested[x],
         \A x \in Tasks : PastRun(x) => PastRun(x)',
         \A j \in 1..Len(q) : state'[q[j]] \in Reached =>
            state[q[j]] \in Reached \/ \A i \in 1..(j - 1) : PastRun(q[i])'
  PROVE  Chain(q)'
<1>1. Len(q) \in Nat /\ \A j \in 1..Len(q) : q[j] \in Tasks
  OBVIOUS
<1>2. \A j \in 1..Len(q) : \A i \in 1..(j - 1) : i \in 1..Len(q)
  BY <1>1
<1>3. ASSUME NEW i \in 1..Len(q), PastRun(q[i]) PROVE PastRun(q[i])'
  BY <1>1, <1>3
<1>4. ASSUME NEW j \in 1..Len(q)
      PROVE  /\ Known(q[j])'
             /\ requested'[q[j]] = IF j = 1 THEN {} ELSE {q[j - 1]}
             /\ state'[q[j]] \in Reached => \A i \in 1..(j - 1) : PastRun(q[i])'
  <2>1. q[j] \in Tasks /\ \A i \in 1..(j - 1) : i \in 1..Len(q)
    BY <1>1, <1>2
  <2>2. /\ Known(q[j])
        /\ requested[q[j]] = IF j = 1 THEN {} ELSE {q[j - 1]}
        /\ state[q[j]] \in Reached => \A i \in 1..(j - 1) : PastRun(q[i])
    BY DEF Chain
  <2>3. QED
    BY <1>3, <2>1, <2>2
<1>5. QED
  BY <1>4 DEF Chain, Reached, Launched

\* A task that follows the end of a chain makes it one longer.
LEMMA ChainLonger ==
  ASSUME NEW q \in Seq(Tasks), Chain(q)', NEW t \in Tasks,
         Known(t)', requested'[t] = EndOf(q),
         state'[t] \in Reached => \A d \in EndOf(q) : PastRun(d)' /\ state'[d] \in Reached
  PROVE  Chain(Append(q, t))'
<1> DEFINE n == Len(q)
<1>0. PICK p : p = Append(q, t)
  OBVIOUS
<1>1. /\ n \in Nat /\ Len(p) = n + 1 /\ p[n + 1] = t
      /\ \A j \in 1..n : p[j] = q[j] /\ q[j] \in Tasks
  BY <1>0
<1>2. EndOf(q) = IF n = 0 THEN {} ELSE {q[n]}
  BY <1>1 DEF EndOf, Last
<1>3. \A j \in 1..n :
         /\ Known(q[j])'
         /\ requested'[q[j]] = IF j = 1 THEN {} ELSE {q[j - 1]}
         /\ state'[q[j]] \in Reached => \A i \in 1..(j - 1) : PastRun(q[i])'
  BY DEF Chain, Reached, Launched
<1>4. ASSUME NEW j \in 1..(n + 1)
      PROVE  /\ Known(p[j])'
             /\ requested'[p[j]] = IF j = 1 THEN {} ELSE {p[j - 1]}
             /\ state'[p[j]] \in Reached => \A i \in 1..(j - 1) : PastRun(p[i])'
  <2>1. CASE j = n + 1
    <3>1. p[j] = t /\ Known(p[j])'
      BY <1>1, <2>1
    <3>2. requested'[p[j]] = IF j = 1 THEN {} ELSE {p[j - 1]}
      <4>1. requested'[p[j]] = EndOf(q)
        BY <3>1
      <4>2. CASE n = 0
        BY <1>2, <2>1, <4>1, <4>2
      <4>3. CASE n # 0
        <5>1. j # 1 /\ j - 1 = n /\ p[n] = q[n]
          BY <1>1, <2>1, <4>3
        <5>2. QED
          BY <1>2, <4>1, <4>3, <5>1
      <4>4. QED
        BY <4>2, <4>3
    <3>3. ASSUME state'[t] \in Reached, NEW i \in 1..(j - 1) PROVE PastRun(p[i])'
      <4>1. i \in 1..n /\ n # 0 /\ n \in 1..n /\ p[i] = q[i]
        BY <1>1, <2>1
      <4>2. PastRun(q[n])' /\ state'[q[n]] \in Reached
        BY <1>2, <3>3, <4>1
      <4>3. PastRun(q[i])'
        <5>1. CASE i = n
          BY <4>2, <5>1
        <5>2. CASE i # n
          <6>1. i \in 1..(n - 1)
            BY <1>1, <4>1, <5>2
          <6>2. QED
            BY <1>3, <4>1, <4>2, <6>1
        <5>3. QED
          BY <5>1, <5>2
      <4>4. QED
        BY <4>1, <4>3
    <3>4. QED
      BY <3>1, <3>2, <3>3
  <2>2. CASE j # n + 1
    <3>1. j \in 1..n /\ \A i \in 1..(j - 1) : i \in 1..n
      BY <1>1, <2>2
    <3>2. p[j] = q[j] /\ \A i \in 1..(j - 1) : p[i] = q[i]
      BY <1>1, <3>1
    <3>3. j # 1 => p[j - 1] = q[j - 1]
      BY <1>1, <3>1
    <3>4. QED
      BY <1>3, <3>1, <3>2, <3>3
  <2>3. QED
    BY <2>1, <2>2
<1>5. Chain(p)'
  BY <1>1, <1>4 DEF Chain, Reached, Launched
<1>6. QED
  BY <1>0, <1>5

\* A step of the scheduler that adds no task keeps the order of every session.
LEMMA OrderStays ==
  ASSUME LayerInv, OrderInv, [Next]_vars, UNCHANGED <<issued, last, order>>
  PROVE  OrderInv'
<1>a. SchedulerInv /\ TypeOK
  BY DEF LayerInv, SchedulerInv
<1>1. \A x \in Tasks : Moves(x) /\ Keeps(x)
  BY <1>a, TaskMoves
<1>2. \A x \in Tasks : Known(x) => x \in issued
  BY <1>a DEF SchedulerInv, KnownIsIssued
<1>3. ASSUME NEW x \in Tasks, Known(x)' PROVE Known(x)
  BY <1>1, <1>3 DEF Moves
<1>4. DepsNamed'
  <2>1. ASSUME NEW x \in Tasks, Known(x)'
        PROVE  deps'[x] \subseteq requested'[x]
    BY <1>1, <1>2, <1>3, <2>1 DEF Keeps, OrderInv, DepsNamed
  <2>2. QED
    BY <2>1 DEF DepsNamed
<1>5. ASSUME NEW x \in Tasks, Known(x)
      PROVE  Known(x)' /\ requested'[x] = requested[x]
  BY <1>1, <1>2, <1>5 DEF Moves, Keeps, DependentStates, Results
<1>6. ASSUME NEW x \in Tasks, PastRun(x) PROVE PastRun(x)'
  <2>1. state'[x] \notin {"kUnknown", "kCreated", "kQueued"}
    BY <1>1, <1>6 DEF Moves, PastRun, Results
  <2>2. ~Running(x)'
    BY <1>1, <1>6 DEF Keeps, PastRun
  <2>3. QED
    BY <2>1, <2>2 DEF PastRun
<1>7. ASSUME NEW s \in Sessions
      PROVE  last'[s] = EndOf(order'[s]) /\ Chain(order[s])'
  <2>0. PICK q : q = order[s]
    OBVIOUS
  <2>1. q \in Seq(Tasks) /\ Chain(q) /\ last[s] = EndOf(q)
    BY <2>0, Chains DEF LayerInv, LayerTypeOK
  <2>2. Len(q) \in Nat /\ \A j \in 1..Len(q) : q[j] \in Tasks
    BY <2>1
  <2>3. ASSUME NEW j \in 1..Len(q), state'[q[j]] \in Reached, state[q[j]] \notin Reached,
               NEW i \in 1..(j - 1)
        PROVE  PastRun(q[i])'
    <3>0. Known(q[j])
      BY <2>1 DEF Chain
    <3>1. q[j] \in Tasks /\ Known(q[j]) /\ i \in 1..Len(q)
      BY <2>2, <3>0
    <3>2. /\ state[q[j]] = "kCreated" /\ state'[q[j]] = "kQueued"
          /\ exec.pc = "finish" /\ deps[q[j]] = {exec.task}
          /\ exec'.pc \notin {"body", "finish"}
      BY <1>1, <2>3, <3>1 DEF Moves, Reached, Launched, DependentStates
    <3>3. exec.task \in requested[q[j]]
      BY <3>1, <3>2 DEF OrderInv, DepsNamed
    <3>4. j # 1 /\ exec.task = q[j - 1]
      BY ZenonT(40), <2>1, <3>3 DEF Chain
    <3>5. state[q[j - 1]] = "kProcessing" /\ exec.task \in Tasks
      BY <1>a, <3>2, <3>4 DEF SchedulerInv, RunnerSound
    <3>6. CASE i = j - 1
      <4>1. q[i] \in Tasks /\ state[q[i]] = "kProcessing"
        BY <3>4, <3>5, <3>6
      <4>2. state'[q[i]] \notin {"kUnknown", "kCreated", "kQueued"}
        BY <1>1, <4>1 DEF Moves
      <4>3. QED
        BY <3>2, <4>2 DEF PastRun, Running
    <3>7. CASE i # j - 1
      <4>1. j - 1 \in 1..Len(q) /\ i \in 1..(j - 1 - 1)
        BY <2>2, <3>4, <3>7
      <4>2. PastRun(q[i])
        BY <2>1, <3>5, <4>1 DEF Chain, Reached, Launched
      <4>3. q[i] \in Tasks
        BY <2>2, <3>1
      <4>4. QED
        BY <1>6, <4>2, <4>3
    <3>8. QED
      BY <3>6, <3>7
  <2>4. Chain(q)'
    <3>1. \A j \in 1..Len(q) : state'[q[j]] \in Reached =>
             state[q[j]] \in Reached \/ \A i \in 1..(j - 1) : PastRun(q[i])'
      BY <2>3
    <3>2. QED
      BY <1>5, <1>6, <2>1, <3>1, ChainStays
  <2>5. order'[s] = q /\ last'[s] = EndOf(q)
    BY <2>0, <2>1
  <2>6. QED
    BY <2>4, <2>5 DEF Chain, Reached, Launched
<1>8. QED
  <2>1. \A s \in Sessions : last'[s] = EndOf(order'[s])
    BY <1>7
  <2>2. \A s \in Sessions : Chain(order[s])'
    BY <1>7
  <2>3. QED
    BY <1>4, <2>1, <2>2, ChainsAfter

\* A step that adds a task to the end of a chain, or outside the chains.
LEMMA OrderGrows ==
  ASSUME LayerInv, OrderInv, NEW s \in Sessions, NEW t \in Tasks,
         NEW k, NEW c, NEW flag, Add(s, t, k, c, flag),
         \A r \in Sessions :
            \/ order'[r] = order[r] /\ last'[r] = last[r]
            \/ order'[r] = Append(order[s], t) /\ last'[r] = {t}
  PROVE  OrderInv'
<1>1. /\ \A x \in Tasks \ {t} : /\ state'[x] = state[x] /\ deps'[x] = deps[x]
                                /\ requested'[x] = requested[x]
                                /\ PastRun(x) => PastRun(x)'
      /\ ~Known(t) /\ Known(t)' /\ requested'[t] = last[s] /\ deps'[t] \subseteq last[s]
  BY AddFrame
<1>2. DepsNamed'
  <2>1. ASSUME NEW x \in Tasks, Known(x)' PROVE deps'[x] \subseteq requested'[x]
    <3>1. CASE x = t
      BY <1>1, <3>1
    <3>2. CASE x # t
      <4>1. Known(x)
        BY <1>1, <2>1, <3>2
      <4>2. deps[x] \subseteq requested[x]
        BY <4>1 DEF OrderInv, DepsNamed
      <4>3. QED
        BY <1>1, <3>2, <4>2
    <3>3. QED
      BY <3>1, <3>2
  <2>2. QED
    BY <2>1 DEF DepsNamed
<1>3. \A x \in Tasks : Known(x) => Known(x)' /\ requested'[x] = requested[x]
  BY <1>1
<1>4. \A x \in Tasks : PastRun(x) => PastRun(x)'
  <2>1. ~PastRun(t)
    BY <1>1 DEF PastRun
  <2>2. QED
    BY <1>1, <2>1
<1>5. ASSUME NEW q \in Seq(Tasks), Chain(q) PROVE Chain(q)'
  <2>0. \A j \in 1..Len(q) : Known(q[j])
    BY <1>5 DEF Chain
  <2>1. \A j \in 1..Len(q) : q[j] \in Tasks /\ Known(q[j])
    BY <1>5, <2>0
  <2>2. \A j \in 1..Len(q) : state'[q[j]] = state[q[j]]
    BY <1>1, <2>1
  <2>3. \A j \in 1..Len(q) : state'[q[j]] \in Reached =>
           state[q[j]] \in Reached \/ \A i \in 1..(j - 1) : PastRun(q[i])'
    BY <2>2
  <2>4. QED
    BY <1>3, <1>4, <1>5, <2>3, ChainStays
<1>6. ASSUME NEW r \in Sessions PROVE last'[r] = EndOf(order'[r]) /\ Chain(order[r])'
  <2>1. CASE order'[r] = order[r] /\ last'[r] = last[r]
    <3>0. PICK q : q = order[r]
      OBVIOUS
    <3>1. q \in Seq(Tasks) /\ Chain(q) /\ last[r] = EndOf(q)
      BY <3>0, Chains DEF LayerInv, LayerTypeOK
    <3>2. Chain(q)' /\ order'[r] = q
      BY <1>5, <2>1, <3>0, <3>1
    <3>3. QED
      BY <2>1, <3>1, <3>2 DEF Chain, Reached, Launched
  <2>2. CASE order'[r] = Append(order[s], t) /\ last'[r] = {t}
    <3>0. PICK q : q = order[s]
      OBVIOUS
    <3>1. q \in Seq(Tasks) /\ Chain(q) /\ last[s] = EndOf(q)
      BY <3>0, Chains DEF LayerInv, LayerTypeOK
    <3>2. Chain(q)'
      BY <1>5, <3>1
    <3>3. ASSUME state'[t] \in Reached, NEW d \in EndOf(q)
          PROVE  PastRun(d)' /\ state'[d] \in Reached
      <4>1. d \in last[s]
        BY <3>1
      <4>2. d \in Tasks /\ PastRun(d) /\ state[d] \in Reached
        BY <3>3, <4>1, AddReached
      <4>3. d # t
        BY <1>1, <4>2 DEF PastRun
      <4>4. QED
        BY <1>1, <4>2, <4>3
    <3>4. Chain(Append(q, t))'
      BY <1>1, <3>1, <3>2, <3>3, ChainLonger
    <3>5. PICK p : p = Append(q, t)
      OBVIOUS
    <3>6. order'[r] = p /\ Chain(p)'
      <4>1. Chain(p)'
        BY <3>4, <3>5
      <4>2. QED
        BY <2>2, <3>0, <3>5, <4>1
    <3>7. last'[r] = EndOf(p)
      <4>1. p # <<>> /\ Last(p) = t
        BY <3>1, <3>5 DEF Last
      <4>2. QED
        BY <2>2, <4>1 DEF EndOf
    <3>8. QED
      BY <3>6, <3>7 DEF Chain, Reached, Launched
  <2>3. QED
    BY <2>1, <2>2
<1>7. (\A r \in Sessions : last'[r] = EndOf(order'[r]))
      /\ \A r \in Sessions : Chain(order[r])'
  BY <1>6
<1>8. QED
  BY <1>2, <1>7, ChainsAfter

LEMMA OrderInit == SessionInit => OrderInv
  BY DEF SessionInit, Init, OrderInv, DepsNamed, ChainSound, ChainReached

\* Each session is chained by one call at a time, so every Add is at the end.
LEMMA OrderNext ==
  ASSUME LayerInv, OrderInv, [SessionNext]_allVars
  PROVE  OrderInv'
<1>a. [Next]_vars
  BY SessionNextInv
<1>1. CASE UNCHANGED <<issued, last, order>>
  BY <1>a, <1>1, OrderStays
<1>2. CASE \E s \in Sessions, t \in NewTask, b \in BOOLEAN : RunPrefillAsync(s, t, b)
  <2>1. PICK s \in Sessions, t \in NewTask, b \in BOOLEAN : RunPrefillAsync(s, t, b)
    BY <1>2
  <2>2. /\ t \in Tasks /\ Add(s, t, "prefill", NoSession, FALSE)
        /\ order' = [order EXCEPT ![s] = Append(@, t)]
        /\ last' = [last EXCEPT ![s] = {t}]
    BY <2>1, FreshIds DEF RunPrefillAsync, Extend
  <2>3. \A r \in Sessions :
           \/ order'[r] = order[r] /\ last'[r] = last[r]
           \/ order'[r] = Append(order[s], t) /\ last'[r] = {t}
    BY <2>2 DEF LayerInv, LayerTypeOK
  <2>4. QED
    BY <2>2, <2>3, OrderGrows
<1>3. ASSUME NEW s \in Sessions, NEW t \in NewTask, NEW for, RunDecodeAsync(s, t, for)
      PROVE  OrderInv'
  <2>1. t \in Tasks /\ \E k \in {"prefill", "decode"} : Add(s, t, k, NoSession, FALSE)
    BY <1>3, FreshIds DEF RunDecodeAsync
  <2>2. /\ order' = [order EXCEPT ![s] = Append(@, t)]
        /\ last' = [last EXCEPT ![s] = {t}]
    BY <1>3 DEF RunDecodeAsync, Extend, ChainDecode
  <2>3. \A r \in Sessions :
           \/ order'[r] = order[r] /\ last'[r] = last[r]
           \/ order'[r] = Append(order[s], t) /\ last'[r] = {t}
    BY <2>2 DEF LayerInv, LayerTypeOK
  <2>4. QED
    BY <2>1, <2>3, OrderGrows
<1>4. CASE \E s \in Sessions, t \in NewTask : AddDecode(s, t)
  <2>1. PICK s \in Sessions, t \in NewTask : AddDecode(s, t)
    BY <1>4
  <2>2. /\ t \in Tasks /\ \E f : Add(s, t, "decode", NoSession, f)
        /\ order' = [order EXCEPT ![s] = Append(@, t)]
        /\ last' = [last EXCEPT ![s] = {t}]
    BY <2>1, FreshIds DEF AddDecode, Extend, ChainDecode
  <2>3. \A r \in Sessions :
           \/ order'[r] = order[r] /\ last'[r] = last[r]
           \/ order'[r] = Append(order[s], t) /\ last'[r] = {t}
    BY <2>2 DEF LayerInv, LayerTypeOK
  <2>4. QED
    BY <2>2, <2>3, OrderGrows
<1>5. CASE \E s \in Sessions, t \in NewTask : RunTextScoringAsync(s, t)
  <2>1. PICK s \in Sessions, t \in NewTask : RunTextScoringAsync(s, t)
    BY <1>5
  <2>2. /\ t \in Tasks /\ Add(s, t, "score", NoSession, FALSE)
        /\ UNCHANGED <<last, order>>
    BY <2>1, FreshIds DEF RunTextScoringAsync
  <2>3. \A r \in Sessions :
           \/ order'[r] = order[r] /\ last'[r] = last[r]
           \/ order'[r] = Append(order[s], t) /\ last'[r] = {t}
    BY <2>2
  <2>4. QED
    BY <2>2, <2>3, OrderGrows
<1>6. CASE \E s \in Sessions, t \in NewTask : AddClone(s, t)
  <2>1. PICK s \in Sessions, t \in NewTask : AddClone(s, t)
    BY <1>6
  <2> DEFINE c == inside[s].into
  <2>2. /\ t \in Tasks /\ Add(s, t, "clone", c, FALSE)
        /\ last' = [last EXCEPT ![s] = {t}, ![c] = {t}]
        /\ order' = [order EXCEPT ![s] = Append(@, t), ![c] = Append(order[s], t)]
    BY <2>1, FreshIds DEF AddClone, CloneTarget
  <2> HIDE DEF c
  <2>3. \A r \in Sessions :
           /\ last'[r] = IF r = c \/ r = s THEN {t} ELSE last[r]
           /\ order'[r] = IF r = c \/ r = s THEN Append(order[s], t) ELSE order[r]
    BY <2>2 DEF LayerInv, LayerTypeOK
  <2>4. \A r \in Sessions :
           \/ order'[r] = order[r] /\ last'[r] = last[r]
           \/ order'[r] = Append(order[s], t) /\ last'[r] = {t}
    BY <2>3
  <2>5. QED
    BY <2>2, <2>4, OrderGrows
<1>7. CASE StreamContinues
  <2>1. CASE \E t \in NewTask : RunDecodeAsync(owner[cb.task], t, cb.task)
    <3>1. PICK t \in NewTask : RunDecodeAsync(owner[cb.task], t, cb.task)
      BY <2>1
    <3>2. owner[cb.task] \in Sessions
      <4>1. cb.task \in Tasks /\ Known(cb.task)
        BY <1>7 DEF StreamContinues, Continues, LayerInv, SchedulerInv, CallbacksSound
      <4>2. \E k : CreateTask(owner[cb.task], t, k, NoSession, last[owner[cb.task]], FALSE)
                     /\ state'[t] # "kUnknown"
        BY <3>1 DEF RunDecodeAsync, Add
      <4>3. t \notin issued /\ t \in Tasks /\ state[t] = "kUnknown"
        BY FreshIds DEF LayerInv, SchedulerInv, KnownIsIssued
      <4>4. owner[cb.task] \in live
        BY <4>2, <4>3 DEF CreateTask, CreateTaskFails, CreateTaskSucceeds
      <4>5. QED
        BY <4>4 DEF LayerInv, SchedulerInv, TypeOK
    <3>3. QED
      BY <1>3, <3>1, <3>2
  <2>2. CASE UNCHANGED <<vars, last, order>>
    BY <1>1, <2>2 DEF vars
  <2>3. QED
    BY <1>7, <2>1, <2>2 DEF StreamContinues
<1>8. CASE \/ \E s \in NewSession : Create(s)
           \/ \E s \in Sessions, c \in NewSession : CloneAsync(s, c)
           \/ \E s \in Sessions : CancelProcess(s) \/ Destroy(s) \/ WaitEnds(s) \/ Release(s)
           \/ \E t \in Tasks : Cancel(t)
           \/ UNCHANGED allVars
  <2>1. UNCHANGED <<issued, last, order>>
    BY <1>8 DEF Create, CloneAsync, CancelProcess, Destroy, WaitEnds, Release, Cancel,
       RegisterNewSession, CancelAllTasksInSession, CancelTasks, SetCancelled,
       ReleaseSession, taskAttrs, vars, layerVars, allVars
  <2>2. QED
    BY <1>1, <2>1
<1>9. CASE (ExecutionThread \/ CallbackThread) /\ UNCHANGED layerVars
  BY <1>1, <1>9, ThreadsAddNothing DEF layerVars
<1>10. QED
  BY <1>2, <1>3, <1>4, <1>5, <1>6, <1>7, <1>8, <1>9
  DEF SessionNext, SessionClient, Proceed, ClientDecodes, ExecutionStep, CallbackStep,
      CallbackThread

\* The tasks of a session run in the order of the calls that added them, and
\* those of its clone after everything it had before.
THEOREM TasksInOrder == SessionSpec => []SessionInOrder
<1>1. LayerInv /\ OrderInv /\ [SessionNext]_allVars => OrderInv'
  BY OrderNext
<1>2. SessionInit => OrderInv
  BY OrderInit
<1>3. OrderInv => SessionInOrder
  BY DEF OrderInv, ChainReached, SessionInOrder, Reached
<1>4. QED
  BY <1>1, <1>2, <1>3, LayerInvariant, PTL DEF SessionSpec

-----------------------------------------------------------------------------
(* What a session holds while it is used.                                  *)

\* A step of the scheduler that adds no task leaves no session with more to do.
LEMMA ActiveOnlyShrinks ==
  ASSUME LayerInv, OutcomeInv, OutcomeInv', [Next]_vars, issued' = issued,
         NEW s \in Sessions
  PROVE  active'[s] \subseteq active[s]
<1>1. SchedulerInv
  BY DEF LayerInv
<1>2. \A x \in Tasks : Known(x)' /\ ~Ended(x)' => Known(x) /\ ~Ended(x)
  BY <1>1, TaskMoves
  DEF Moves, Ended, IsTaskEndState, EndStates
<1>3. \A x \in Tasks : Known(x) => owner'[x] = owner[x]
  BY <1>1, TaskMoves DEF Keeps, SchedulerInv, KnownIsIssued
<1>4. /\ active[s] = {x \in Tasks : owner[x] = s /\ Known(x) /\ ~Ended(x)}
      /\ active'[s] = {x \in Tasks : owner'[x] = s /\ Known(x)' /\ ~Ended(x)'}
  BY DEF OutcomeInv, ActiveTasksExact
<1>5. QED
  BY <1>2, <1>3, <1>4

\* Adding a task gives its session more to do, and no other.
LEMMA ActiveGrows ==
  ASSUME LayerInv, NEW s \in Sessions, NEW t \in Tasks, NEW k, NEW c, NEW flag,
         Add(s, t, k, c, flag)
  PROVE  \A r \in Sessions \ {s} : active'[r] = active[r]
<1>1. active' = [active EXCEPT ![s] = IF IsTaskEndState(InitialState(last[s]))
                                      THEN @ ELSE @ \cup {t}]
  BY AddWhole DEF CreateTaskSucceeds
<1>2. QED
  BY <1>1 DEF LayerInv, SchedulerInv, TypeOK

\* The callback of a task that is being called belongs to a session with work.
LEMMA CalledIsActive ==
  ASSUME LayerInv, OutcomeInv, cb.pc = "called", NEW s \in Sessions, owner[cb.task] = s
  PROVE  cb.task \in Tasks /\ Known(cb.task) /\ cb.task \in active[s]
<1>1. cb.task \in Tasks /\ state[cb.task] = "kLastCallbackQueued"
  BY DEF LayerInv, SchedulerInv, CallbacksSound
<1>2. QED
  BY <1>1 DEF OutcomeInv, ActiveTasksExact, Ended, IsTaskEndState, EndStates

LEMMA HoldInit == SessionInit => HoldInv
  BY NobodyWhat
  DEF SessionInit, Init, HoldInv, ObjectsSound, InsideSound, InsideOf

\* A step that adds no task, moves no object, and leaves the callback thread in
\* the callback it is in.
LEMMA HoldStays ==
  ASSUME LayerInv, OutcomeInv, OutcomeInv', HoldInv, [Next]_vars,
         UNCHANGED <<issued, live, object>>,
         \A s \in Sessions :
            /\ inside[s] = Nobody => inside'[s] = Nobody
            /\ inside'[s].what = inside[s].what /\ inside'[s].for = inside[s].for,
         cb.pc = "called" /\ stream[cb.task] = "adding" =>
            UNCHANGED cb /\ stream'[cb.task] = stream[cb.task]
  PROVE  HoldInv'
<1>1. ObjectsSound'
  BY ActiveOnlyShrinks DEF HoldInv, ObjectsSound
<1>2. ASSUME NEW s \in Sessions, inside[s].for # NoTask
      PROVE  /\ UNCHANGED cb /\ stream'[cb.task] = stream[cb.task]
             /\ owner'[cb.task] = owner[cb.task]
  <2>1. /\ cb.pc = "called" /\ stream[cb.task] = "adding" /\ owner[cb.task] = s
    BY <1>2 DEF HoldInv, InsideSound, InsideOf
  <2>2. cb.task \in Tasks /\ Known(cb.task)
    BY <2>1, CalledIsActive
  <2>3. owner'[cb.task] = owner[cb.task]
    BY <2>2, TaskMoves DEF Keeps, LayerInv, SchedulerInv, KnownIsIssued
  <2>4. QED
    BY <2>1, <2>3
<1>3. InsideSound'
  BY <1>2 DEF HoldInv, InsideSound, InsideOf
<1>4. QED
  BY <1>1, <1>3 DEF HoldInv

\* The owner of the task whose callback is being called stays the same.
LEMMA CalledOwner ==
  ASSUME LayerInv, cb.pc = "called", [Next]_vars
  PROVE  owner'[cb.task] = owner[cb.task]
<1>1. cb.task \in Tasks /\ Known(cb.task)
  BY DEF LayerInv, SchedulerInv, CallbacksSound
<1>2. QED
  BY <1>1, TaskMoves DEF Keeps, LayerInv, SchedulerInv, KnownIsIssued

\* What a step does to the sessions it is not about.
LEMMA OthersInside ==
  ASSUME LayerInv, HoldInv, [Next]_vars, UNCHANGED cb, NEW r \in Sessions,
         inside'[r] = inside[r], object'[r] = object[r],
         stream[cb.task] = "adding" /\ owner[cb.task] = r =>
            stream'[cb.task] = stream[cb.task]
  PROVE  InsideOf(r)'
<1>1. InsideOf(r)
  BY DEF HoldInv, InsideSound
<1>2. QED
  BY <1>1, CalledOwner DEF InsideOf

\* Adding a task to a session that has an object keeps the objects sound.
LEMMA ObjectsAdd ==
  ASSUME LayerInv, HoldInv, NEW s \in Sessions, NEW t \in Tasks, NEW k, NEW c, NEW flag,
         Add(s, t, k, c, flag), object[s] \in {"alive", "waiting"}, UNCHANGED object
  PROVE  ObjectsSound'
  BY AddWhole, ActiveGrows DEF HoldInv, ObjectsSound

LEMMA HoldPrefill ==
  ASSUME LayerInv, HoldInv, [Next]_vars, NEW s \in Sessions, NEW t \in NewTask,
         NEW b \in BOOLEAN, RunPrefillAsync(s, t, b)
  PROVE  HoldInv'
<1>1. /\ t \in Tasks /\ Add(s, t, "prefill", NoSession, FALSE)
      /\ object[s] = "alive" /\ UNCHANGED <<object, inside>>
      /\ stream' = [stream EXCEPT ![t] = IF b THEN "waiting" ELSE "no"]
  BY FreshIds DEF RunPrefillAsync, Enter
<1>2. ObjectsSound' /\ UNCHANGED cb
  BY <1>1, ObjectsAdd, AddWhole
<1>3. cb.pc = "called" => stream'[cb.task] = stream[cb.task]
  <2>1. cb.pc = "called" => cb.task \in Tasks /\ Known(cb.task)
    BY DEF LayerInv, SchedulerInv, CallbacksSound
  <2>2. ~Known(t)
    BY ZenonT(40), <1>1, AddFrame
  <2>3. QED
    BY <1>1, <2>1, <2>2 DEF LayerInv, LayerTypeOK
<1>4. ASSUME NEW r \in Sessions PROVE InsideOf(r)'
  <2>1. CASE cb.pc = "called"
    BY <1>1, <1>2, <1>3, <2>1, OthersInside
  <2>2. CASE cb.pc # "called"
    BY <1>1, <1>2, <2>2 DEF HoldInv, InsideSound, InsideOf
  <2>3. QED
    BY <2>1, <2>2
<1>5. QED
  BY <1>2, <1>4 DEF HoldInv, InsideSound

\* A decode that a client starts, or the callback of a streamed prefill.
LEMMA HoldDecode ==
  ASSUME LayerInv, HoldInv, [Next]_vars, NEW s \in Sessions, NEW t \in NewTask,
         NEW for \in Tasks \cup {NoTask}, RunDecodeAsync(s, t, for),
         inside[s] = Nobody, object[s] \in {"alive", "waiting"},
         \/ for = NoTask /\ object[s] = "alive"
         \/ /\ for = cb.task /\ cb.pc = "called" /\ stream[cb.task] = "waiting"
            /\ owner[cb.task] = s
  PROVE  HoldInv'
<1>1. /\ t \in Tasks /\ \E k : Add(s, t, k, NoSession, FALSE)
      /\ UNCHANGED object
  BY FreshIds DEF RunDecodeAsync
<1>2. ObjectsSound' /\ UNCHANGED cb
  BY <1>1, ObjectsAdd, AddWhole
<1>3. for # NoTask => owner'[cb.task] = s
  BY CalledOwner
<1>4. CASE UNCHANGED inside /\ HandOver(t, {t}, for)
  <2>1. for = NoTask => stream' = stream
    BY <1>4 DEF HandOver
  <2>2. ASSUME NEW r \in Sessions PROVE InsideOf(r)'
    BY <1>1, <1>2, <1>4, <2>1, OthersInside
  <2>3. QED
    BY <1>2, <2>2 DEF HoldInv, InsideSound
<1>5. CASE /\ inside' = [inside EXCEPT ![s] = Inside("decode", FALSE, for, NoSession)]
           /\ stream' = IF for = NoTask THEN stream
                                        ELSE [stream EXCEPT ![for] = "adding"]
  <2>1. /\ inside'[s].what = "decode" /\ inside'[s].for = for
        /\ \A r \in Sessions \ {s} : inside'[r] = inside[r]
    BY <1>5 DEF Inside, LayerInv, LayerTypeOK
  <2>2. for # NoTask => stream'[for] = "adding"
    BY <1>5 DEF LayerInv, LayerTypeOK
  <2>3. InsideOf(s)'
    <3>0. cb.pc = "called" => cb.task # NoTask
      BY ConstantsAssumption DEF LayerInv, SchedulerInv, CallbacksSound
    <3>1. CASE for = NoTask
      BY <1>1, <2>1, <3>0, <3>1 DEF InsideOf
    <3>2. CASE for # NoTask
      <4>1. /\ cb'.pc = "called" /\ cb'.task = for /\ owner'[for] = s
            /\ object'[s] \in {"alive", "waiting"}
        BY <1>1, <1>2, <1>3, <3>2
      <4>2. QED
        BY <2>1, <2>2, <3>2, <4>1 DEF InsideOf
    <3>3. QED
      BY <3>1, <3>2
  <2>4. ASSUME NEW r \in Sessions \ {s} PROVE InsideOf(r)'
    BY <1>1, <1>2, <1>5, <2>1, OthersInside
  <2>5. QED
    BY <1>2, <2>3, <2>4 DEF HoldInv, InsideSound
<1>6. QED
  BY <1>4, <1>5 DEF RunDecodeAsync

LEMMA HoldAddDecode ==
  ASSUME LayerInv, HoldInv, [Next]_vars, NEW s \in Sessions, NEW t \in NewTask,
         AddDecode(s, t)
  PROVE  HoldInv'
<1>1. /\ t \in Tasks /\ \E f : Add(s, t, "decode", NoSession, f)
      /\ UNCHANGED object /\ inside' = [inside EXCEPT ![s] = Nobody]
      /\ inside[s].what = "decode" /\ HandOver(t, last[s] \cup {t}, inside[s].for)
  BY FreshIds DEF AddDecode
<1>2. InsideOf(s) /\ object[s] \in {"alive", "waiting"}
  BY <1>1, NobodyWhat DEF HoldInv, InsideSound, InsideOf
<1>3. ObjectsSound' /\ UNCHANGED cb
  BY <1>1, <1>2, ObjectsAdd, AddWhole
<1>4. inside'[s] = Nobody /\ \A r \in Sessions \ {s} : inside'[r] = inside[r]
  BY <1>1 DEF LayerInv, LayerTypeOK
<1>5. InsideOf(s)'
  BY <1>4, NobodyWhat DEF InsideOf
<1>6. stream' = stream \/ owner[cb.task] = s
  BY <1>1, <1>2 DEF HandOver, InsideOf
<1>7. ASSUME NEW r \in Sessions \ {s} PROVE InsideOf(r)'
  BY <1>1, <1>3, <1>4, <1>6, OthersInside
<1>8. QED
  BY <1>3, <1>5, <1>7 DEF HoldInv, InsideSound

LEMMA HoldScore ==
  ASSUME LayerInv, HoldInv, [Next]_vars, NEW s \in Sessions, NEW t \in NewTask,
         RunTextScoringAsync(s, t)
  PROVE  HoldInv'
<1>1. /\ t \in Tasks /\ Add(s, t, "score", NoSession, FALSE)
      /\ object[s] = "alive" /\ UNCHANGED <<object, inside, stream>>
  BY FreshIds DEF RunTextScoringAsync, Enter
<1>2. ObjectsSound' /\ UNCHANGED cb
  BY <1>1, ObjectsAdd, AddWhole
<1>3. ASSUME NEW r \in Sessions PROVE InsideOf(r)'
  BY <1>1, <1>2, OthersInside
<1>4. QED
  BY <1>2, <1>3 DEF HoldInv, InsideSound

LEMMA HoldClones ==
  ASSUME LayerInv, HoldInv, [Next]_vars, NEW s \in Sessions,
         \/ \E c \in NewSession : CloneAsync(s, c)
         \/ \E t \in NewTask : AddClone(s, t)
  PROVE  HoldInv'
<1>1. CASE \E c \in NewSession : CloneAsync(s, c)
  <2>1. PICK c \in NewSession : CloneAsync(s, c)
    BY <1>1
  <2>2. /\ object[s] = "alive" /\ UNCHANGED <<object, stream, active, cb>>
        /\ live' = live \cup {c}
        /\ inside' = [inside EXCEPT ![s] = Inside("clone", FALSE, NoTask, c)]
    BY <2>1 DEF CloneAsync, Enter, RegisterNewSession
  <2>3. ObjectsSound'
    BY <2>2 DEF HoldInv, ObjectsSound
  <2>4. inside'[s].for = NoTask /\ \A r \in Sessions \ {s} : inside'[r] = inside[r]
    BY <2>2 DEF Inside, LayerInv, LayerTypeOK
  <2>5. InsideOf(s)'
    BY <2>2, <2>4 DEF InsideOf
  <2>6. ASSUME NEW r \in Sessions \ {s} PROVE InsideOf(r)'
    BY <2>2, <2>4, OthersInside
  <2>7. QED
    BY <2>3, <2>5, <2>6 DEF HoldInv, InsideSound
<1>2. CASE \E t \in NewTask : AddClone(s, t)
  <2> DEFINE c == inside[s].into
  <2>1. PICK t \in NewTask : AddClone(s, t)
    BY <1>2
  <2>2. /\ t \in Tasks /\ Add(s, t, "clone", c, FALSE)
        /\ object' = [object EXCEPT ![c] = "alive"] /\ UNCHANGED stream
        /\ inside' = [inside EXCEPT ![s] = Nobody]
        /\ inside[s].what = "clone"
    BY <2>1, FreshIds DEF AddClone, CloneTarget
  <2>3. c \in live /\ c \in Sessions /\ object[c] = "none"
    BY <2>2 DEF LayerInv, ClonesSound, SchedulerInv, TypeOK
  <2>4. object[s] = "alive"
    <3>1. inside[s].for = NoTask /\ inside[s] # Nobody
      BY <2>2, NobodyWhat DEF HoldInv, InsideSound, InsideOf
    <3>2. QED
      BY <3>1 DEF HoldInv, InsideSound, InsideOf
  <2>5. UNCHANGED <<live, cb>> /\ \A r \in Sessions \ {s} : active'[r] = active[r]
    BY <2>2, AddWhole, ActiveGrows
  <2>6. \A r \in Sessions : object'[r] = IF r = c THEN "alive" ELSE object[r]
    BY <2>2 DEF LayerInv, LayerTypeOK
  <2>7. inside'[s] = Nobody /\ \A r \in Sessions \ {s} : inside'[r] = inside[r]
    BY <2>2 DEF LayerInv, LayerTypeOK
  <2> HIDE DEF c
  <2>8. ObjectsSound'
    BY <2>3, <2>4, <2>5, <2>6 DEF HoldInv, ObjectsSound
  <2>9. InsideOf(s)'
    BY <2>7, NobodyWhat DEF InsideOf
  <2>10. ASSUME NEW r \in Sessions \ {s} PROVE InsideOf(r)'
    <3>1. CASE r = c
      <4>1. inside[r] = Nobody
        BY <2>3, <3>1 DEF HoldInv, InsideSound, InsideOf
      <4>2. QED
        BY <2>7, <4>1, NobodyWhat DEF InsideOf
    <3>2. CASE r # c
      BY <2>2, <2>5, <2>6, <2>7, <3>2, OthersInside
    <3>3. QED
      BY <3>1, <3>2
  <2>11. QED
    BY <2>8, <2>9, <2>10 DEF HoldInv, InsideSound
<1>3. QED
  BY <1>1, <1>2

\* The destructor.  Only here does it matter that it does not give up waiting.
LEMMA HoldDestructor ==
  ASSUME ~EarlyRelease, LayerInv, OutcomeInv, HoldInv, NEW s \in Sessions,
         Destroy(s) \/ WaitEnds(s) \/ Release(s)
  PROVE  HoldInv'
<1>1. CASE Destroy(s)
  <2>1. /\ object[s] = "alive" /\ UNCHANGED <<live, active, inside, cb, owner, stream>>
        /\ inside[s] = Nobody \/ inside[s].for # NoTask
        /\ object' = [object EXCEPT ![s] = "waiting"]
    BY <1>1 DEF Destroy, vars
  <2>2. \A r \in Sessions : object'[r] = IF r = s THEN "waiting" ELSE object[r]
    BY <2>1 DEF LayerInv, LayerTypeOK
  <2>3. QED
    BY <2>1, <2>2 DEF HoldInv, ObjectsSound, InsideSound, InsideOf
<1>2. CASE WaitEnds(s)
  <2>1. /\ object[s] = "waiting" /\ active[s] = {}
        /\ UNCHANGED <<live, active, inside, cb, owner, stream>>
        /\ object' = [object EXCEPT ![s] = "releasing"]
    BY <1>2 DEF WaitEnds, SessionDone, vars
  <2>2. \A r \in Sessions : object'[r] = IF r = s THEN "releasing" ELSE object[r]
    BY <2>1 DEF LayerInv, LayerTypeOK
  <2>3. inside[s] = Nobody
    <3>1. inside[s].for # NoTask => cb.pc = "called" /\ owner[cb.task] = s
      BY DEF HoldInv, InsideSound, InsideOf
    <3>2. inside[s].for = NoTask
      BY <2>1, <3>1, CalledIsActive
    <3>3. QED
      BY <2>1, <3>2 DEF HoldInv, InsideSound, InsideOf
  <2>4. QED
    BY <2>1, <2>2, <2>3 DEF HoldInv, ObjectsSound, InsideSound, InsideOf
<1>3. CASE Release(s)
  <2>1. /\ object[s] = "releasing" /\ UNCHANGED <<active, inside, cb, owner, stream>>
        /\ live' = live \ {s} /\ object' = [object EXCEPT ![s] = "gone"]
    BY <1>3 DEF Release, ReleaseSession, taskAttrs
  <2>2. \A r \in Sessions : object'[r] = IF r = s THEN "gone" ELSE object[r]
    BY <2>1 DEF LayerInv, LayerTypeOK
  <2>3. inside[s] = Nobody
    BY <2>1 DEF HoldInv, InsideSound, InsideOf
  <2>4. QED
    BY <2>1, <2>2, <2>3, NobodyWhat DEF HoldInv, ObjectsSound, InsideSound, InsideOf
<1>4. QED
  BY <1>1, <1>2, <1>3

LEMMA HoldCreate ==
  ASSUME LayerInv, HoldInv, NEW s \in NewSession, Create(s)
  PROVE  HoldInv'
<1>1. /\ s \in Sessions /\ live' = live \cup {s}
      /\ UNCHANGED <<active, inside, cb, owner, stream>>
      /\ object' = [object EXCEPT ![s] = "alive"]
  BY FreshIds DEF Create, RegisterNewSession, taskAttrs
<1>2. \A r \in Sessions : object'[r] = IF r = s THEN "alive" ELSE object[r]
  BY <1>1 DEF LayerInv, LayerTypeOK
<1>3. QED
  BY <1>1, <1>2 DEF HoldInv, ObjectsSound, InsideSound, InsideOf

\* Steps that leave every object and operation where it is.
LEMMA HoldQuiet ==
  ASSUME LayerInv, OutcomeInv, OutcomeInv', HoldInv, [Next]_vars,
         \/ \E s \in Sessions : CancelProcess(s)
         \/ \E t \in Tasks : Cancel(t)
         \/ ExecutionStep
         \/ CallbackBegin /\ UNCHANGED layerVars
         \/ CallbackReturned /\ CallbackEnd /\ UNCHANGED layerVars
         \/ UNCHANGED allVars
  PROVE  HoldInv'
<1>1. UNCHANGED <<issued, live, object, stream>>
  BY ThreadsAddNothing
  DEF CancelProcess, Cancel, CancelAllTasksInSession, CancelTasks, SetCancelled,
      ExecutionStep, CallbackThread, sessionVars, taskAttrs, vars, layerVars, allVars
<1>2. \A s \in Sessions :
         /\ inside[s] = Nobody => inside'[s] = Nobody
         /\ inside'[s].what = inside[s].what /\ inside'[s].for = inside[s].for
  <2>1. CASE UNCHANGED inside
    BY <2>1
  <2>2. CASE \E s \in Sessions : CancelProcess(s)
    <3>1. PICK s \in Sessions : CancelProcess(s)
      BY <2>2
    <3> DEFINE b == inside[s].flag \/ (inside[s].what = "decode" /\ last[s] \subseteq active[s])
    <3>2. inside' = [inside EXCEPT ![s].flag = b]
      BY <3>1 DEF CancelProcess
    <3>3. inside[s] = Nobody => b = FALSE
      BY DEF Nobody, Inside
    <3> HIDE DEF b
    <3>4. /\ \A r \in Sessions \ {s} : inside'[r] = inside[r]
          /\ inside'[s] = [inside[s] EXCEPT !.flag = b]
      BY <3>2 DEF LayerInv, LayerTypeOK
    <3>5. inside[s] = Nobody => inside'[s] = Nobody
      <4>1. inside[s] \in [what : {"no", "decode", "clone"}, flag : BOOLEAN,
                           for : Tasks \cup {NoTask}, into : Sessions \cup {NoSession}]
        BY DEF LayerInv, LayerTypeOK
      <4>2. CASE inside[s] = Nobody
        <5>1. inside[s].flag = FALSE
          BY <4>2 DEF Nobody, Inside
        <5>2. inside'[s] = inside[s]
          BY <3>3, <3>4, <4>1, <4>2, <5>1
        <5>3. QED
          BY <4>2, <5>2
      <4>3. QED
        BY <4>2
    <3>6. inside'[s].what = inside[s].what /\ inside'[s].for = inside[s].for
      BY <3>4 DEF LayerInv, LayerTypeOK
    <3>7. QED
      BY <3>4, <3>5, <3>6
  <2>3. QED
    BY <2>1, <2>2 DEF Cancel, ExecutionStep, layerVars, allVars
<1>3. cb.pc = "called" /\ stream[cb.task] = "adding" => UNCHANGED cb
  BY DEF CancelProcess, Cancel, CancelAllTasksInSession, CancelTasks, SetCancelled,
     ExecutionStep, ExecutionThread, StartTask, DecodeStep, RunBody,
     DecodeBufferFails, FinishTask, FinishUnsuccessfully, FinishSuccessfully,
     FinishRefused, FinishStopsInCascade, FinishStopsInLoop, AwaitCallbacks,
     CallbackBegin, CallbackReturned, vars, allVars
<1>4. QED
  BY <1>1, <1>2, <1>3, HoldStays

LEMMA HoldNext ==
  ASSUME ~EarlyRelease, LayerInv, OutcomeInv, HoldInv, [SessionNext]_allVars
  PROVE  HoldInv'
<1>a. [Next]_vars
  BY SessionNextInv
<1>b. OutcomeInv'
  BY <1>a, NextOutcome DEF LayerInv
<1>1. CASE \E s \in NewSession : Create(s)
  BY <1>1, HoldCreate
<1>2. CASE \E s \in Sessions, t \in NewTask, b \in BOOLEAN : RunPrefillAsync(s, t, b)
  BY <1>2, <1>a, HoldPrefill
<1>3. CASE \E s \in Sessions, t \in NewTask : ClientDecodes(s, t)
  BY <1>3, <1>a, HoldDecode DEF ClientDecodes, Enter
<1>4. CASE \E s \in Sessions, t \in NewTask : AddDecode(s, t)
  BY <1>4, <1>a, HoldAddDecode
<1>5. CASE \E s \in Sessions, t \in NewTask : RunTextScoringAsync(s, t)
  BY <1>5, <1>a, HoldScore
<1>6. CASE \E s \in Sessions : \/ \E c \in NewSession : CloneAsync(s, c)
                               \/ \E t \in NewTask : AddClone(s, t)
  BY <1>6, <1>a, HoldClones
<1>7. CASE \E s \in Sessions : Destroy(s) \/ WaitEnds(s) \/ Release(s)
  BY <1>7, HoldDestructor
<1>8. CASE \/ \E s \in Sessions : CancelProcess(s)
           \/ \E t \in Tasks : Cancel(t)
           \/ ExecutionStep
           \/ CallbackBegin /\ UNCHANGED layerVars
           \/ CallbackReturned /\ CallbackEnd /\ UNCHANGED layerVars
           \/ UNCHANGED allVars
  BY <1>8, <1>a, <1>b, HoldQuiet
<1>9. CASE StreamContinues
  <2> DEFINE s == owner[cb.task]
  <2>1. /\ cb.pc = "called" /\ stream[cb.task] = "waiting" /\ inside[s] = Nobody
        /\ cb.task \in Tasks /\ state[cb.task] = "kLastCallbackQueued"
    BY <1>9 DEF StreamContinues, Continues, LayerInv, SchedulerInv, CallbacksSound
  <2>2. CASE \E t \in NewTask : RunDecodeAsync(s, t, cb.task)
    <3>1. s \in Sessions
      <4>1. s \in registered
        BY <2>1 DEF OutcomeInv, OwnersRegistered
      <4>2. QED
        BY <4>1 DEF LayerInv, SchedulerInv, TypeOK
    <3>2. object[s] \in {"alive", "waiting"}
      BY <2>1, <3>1, CalledIsActive DEF HoldInv, ObjectsSound
    <3>3. QED
      BY <1>a, <2>1, <2>2, <3>1, <3>2, HoldDecode
  <2>3. CASE /\ stream' = [stream EXCEPT ![cb.task] = "refused"]
             /\ UNCHANGED <<vars, object, inside>>
    <3>1. UNCHANGED <<issued, live>>
      BY <2>3 DEF vars
    <3>2. QED
      BY <1>a, <1>b, <2>1, <2>3, <3>1, HoldStays
  <2>4. QED
    BY <1>9, <2>2, <2>3 DEF StreamContinues
<1>10. QED
  BY <1>1, <1>2, <1>3, <1>4, <1>5, <1>6, <1>7, <1>8, <1>9
  DEF SessionNext, SessionClient, Proceed, CallbackStep

\* What the invariants say of a call: the session is registered, its object is
\* not past the destructor's wait, and the last task is known.
LEMMA NeverRefused ==
  ASSUME LayerInv, OutcomeInv, OrderInv, HoldInv
  PROVE  AddNeverRefused
<1> SUFFICES ASSUME NEW s \in Sessions,
                    \/ object[s] = "alive"
                    \/ inside[s] # Nobody
                    \/ cb.pc = "called" /\ owner[cb.task] = s
             PROVE  /\ s \in live /\ object[s] \in {"alive", "waiting"}
                    /\ \A t \in last[s] : Known(t)
  BY DEF AddNeverRefused
<1>1. object[s] \in {"alive", "waiting"}
  <2>1. CASE inside[s] # Nobody
    BY <2>1 DEF HoldInv, InsideSound, InsideOf
  <2>2. CASE cb.pc = "called" /\ owner[cb.task] = s
    BY <2>2, CalledIsActive DEF HoldInv, ObjectsSound
  <2>3. QED
    BY <2>1, <2>2
<1>2. s \in live
  BY <1>1 DEF HoldInv, ObjectsSound
<1>3. \A t \in last[s] : Known(t)
  <2>0. order[s] \in Seq(Tasks)
    BY DEF LayerInv, LayerTypeOK
  <2>1. last[s] = EndOf(order[s])
    BY Chains
  <2>2. order[s] # <<>> => Len(order[s]) \in 1..Len(order[s])
    BY <2>0
  <2>3. order[s] # <<>> => Known(order[s][Len(order[s])])
    BY <2>2 DEF OrderInv, ChainSound
  <2>4. QED
    BY <2>1, <2>3 DEF EndOf, Last
<1>4. QED
  BY <1>1, <1>2, <1>3

\* What the scheduler promises a waiter holds of the tasks of sessions.
THEOREM SessionTasksTold == SessionSpec => []OutcomeInv
<1>1. SessionInit => OutcomeInv
  BY InitOutcome DEF SessionInit
<1>2. LayerInv /\ OutcomeInv /\ [SessionNext]_allVars => OutcomeInv'
  BY SessionNextInv, NextOutcome DEF LayerInv
<1>3. QED
  BY <1>1, <1>2, LayerInvariant, PTL DEF SessionSpec

\* A session whose destructor does not give up waiting is never refused a task,
\* and no callback of a streamed prefill finds its object destroyed.
THEOREM CallsAreAccepted == ~EarlyRelease => (SessionSpec => []AddNeverRefused)
<1> SUFFICES ASSUME ~EarlyRelease PROVE SessionSpec => []AddNeverRefused
  OBVIOUS
<1>1. SessionInit => HoldInv /\ OrderInv
  BY HoldInit, OrderInit
<1>2. LayerInv /\ OutcomeInv /\ OrderInv /\ HoldInv /\ [SessionNext]_allVars
        => HoldInv' /\ OrderInv'
  BY HoldNext, OrderNext
<1>3. LayerInv /\ OutcomeInv /\ OrderInv /\ HoldInv => AddNeverRefused
  BY NeverRefused
<1>4. QED
  BY <1>1, <1>2, <1>3, LayerInvariant, SessionTasksTold, PTL DEF SessionSpec
=============================================================================
