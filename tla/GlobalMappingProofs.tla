------------------------- MODULE GlobalMappingProofs -------------------------
(***************************************************************************)
(* Proofs about GlobalMapping, for any number of submaps, any buffer and   *)
(* any number of candidates evaluated at once.  The inductive invariant    *)
(* says which submaps have a pose in isam2 (all but the one whose update   *)
(* is under way), that no loop runs to a submap still to come, and that    *)
(* the submaps inserted, drained and queued add up to those pushed.        *)
(***************************************************************************)
EXTENDS GlobalMapping, TLAPS

\* The submaps pushed are inserted, drained or queued.
Counted ==
  /\ submaps + Len(batch) + Len(inQ) = pushed
  /\ wpc \in {"drain", "ended"} => batch = <<>>

\* Inserted submaps have a pose, but for the one being updated.
Posed ==
  wpc # "crashed" =>
    IF wpc = "update" THEN submaps > 0 /\ values = 1 .. submaps - 1 ELSE values = 1 .. submaps

Placed == cand \cup buffer \cup eval \cup detected \cup graph \cup dropped

\* No loop runs to a submap that is still to come.
Seen == \A l \in Placed : l[2] <= submaps

Apart ==
  /\ cand \cap buffer = {} /\ cand \cap eval = {} /\ cand \cap detected = {}
  /\ cand \cap graph = {} /\ cand \cap dropped = {}
  /\ buffer \cap eval = {} /\ buffer \cap detected = {} /\ buffer \cap graph = {}
  /\ buffer \cap dropped = {}
  /\ eval \cap detected = {} /\ eval \cap graph = {} /\ eval \cap dropped = {}
  /\ detected \cap graph = {} /\ detected \cap dropped = {}
  /\ graph \cap dropped = {}

SavedWhole ==
  /\ \A l \in saved.loops : l[1] <= saved.maps /\ l[2] <= saved.maps
  /\ saved.after => wpc = "ended" /\ saved.maps = submaps

MapInv == TypeOK /\ Counted /\ Posed /\ FactorsHaveValues /\ Seen /\ Apart /\ SavedWhole

-----------------------------------------------------------------------------
Sets == <<graph, cand, buffer, eval, detected, dropped>>

LEMMA TypeOf ==
  ASSUME TypeOK
  PROVE  /\ Len(inQ) \in Nat /\ Len(batch) \in Nat /\ submaps \in Nat /\ pushed \in Nat
         /\ submaps <= pushed /\ pushed <= MaxSubmaps /\ MaxSubmaps \in Nat
         /\ inQ \in Seq(1 .. MaxSubmaps) /\ batch \in Seq(1 .. MaxSubmaps)
         /\ Placed \subseteq Loops
  BY SizeAssumption DEF TypeOK, Placed

\* A loop is a pair of submaps, the earlier one first.
LEMMA LoopShape ==
  ASSUME NEW l \in Loops
  PROVE  l[1] \in Int /\ l[2] \in Int /\ 1 <= l[1] /\ l[1] < l[2] /\ l[2] <= MaxSubmaps
  BY SizeAssumption DEF Loops

\* The loops the next submap may close are loops, and run to that submap.
LEMMA LoopsToNext ==
  ASSUME NEW n \in Nat, n < MaxSubmaps, NEW l \in LoopsTo(n + 1)
  PROVE  l \in Loops /\ l[2] = n + 1 /\ l[1] \in 1 .. n
  <1>1. PICK i \in 1 .. n : l = <<i, n + 1>>
    BY DEF LoopsTo
  <1>2. i \in 1 .. MaxSubmaps /\ n + 1 \in 1 .. MaxSubmaps /\ i < n + 1
    BY SizeAssumption
  <1>3. QED
    BY <1>1, <1>2 DEF Loops

\* Moving what was detected into the graph keeps every set of loops in place.
LEMMA OptimizeKeeps ==
  ASSUME MapInv, Optimize, wpc \notin {"update", "crashed"},
         UNCHANGED <<submaps, values, cand, buffer, eval, dropped>>
  PROVE  /\ graph' \in SUBSET Loops /\ detected' \in SUBSET Loops
         /\ Seen' /\ Apart' /\ FactorsHaveValues'
         /\ \A l \in graph' : l[1] <= submaps /\ l[2] <= submaps
  <1>1. graph' \subseteq graph \cup detected /\ detected' \subseteq detected
    BY DEF Optimize
  <1>2. graph' \cap detected' = {}
    BY DEF Optimize, MapInv, Apart
  <1>3. graph' \in SUBSET Loops /\ detected' \in SUBSET Loops
    BY <1>1 DEF MapInv, TypeOK
  <1>4. Seen'
    BY <1>1 DEF MapInv, Seen, Placed
  <1>5. Apart'
    BY <1>1, <1>2 DEF MapInv, Apart
  <1>6. \A l \in graph' \cup detected' : {l[1], l[2]} \subseteq values
    BY <1>1 DEF MapInv, FactorsHaveValues
  <1>7. FactorsHaveValues'
    BY <1>6 DEF MapInv, FactorsHaveValues
  <1>8. \A l \in graph' : l[1] <= submaps /\ l[2] <= submaps
    <2>1. submaps \in Nat
      BY TypeOf DEF MapInv
    <2>2. values = 1 .. submaps
      BY DEF MapInv, Posed
    <2>3. QED
      BY <1>6, <2>1, <2>2
  <1>9. QED
    BY <1>3, <1>4, <1>5, <1>7, <1>8

-----------------------------------------------------------------------------
(* The steps, by what they change.                                         *)

\* Steps of the node, the viewer and the clock touch only the flags and the queue.
NodeStep ==
  InsertImu \/ InsertSubmap \/ StopSensors \/ Join \/ RequestToOptimize \/ IntervalPasses

LEMMA NodeStepKeeps ==
  ASSUME MapInv, NodeStep
  PROVE  MapInv'
  <1>1. UNCHANGED <<wpc, batch, gotImu, submaps, values, Sets, saved>>
    BY DEF NodeStep, InsertImu, InsertSubmap, StopSensors, Join, RequestToOptimize,
           IntervalPasses, inVars, loopVars, Sets
  <1>2. {streaming, imuQ, eos, request, due, gotImu}' \subseteq BOOLEAN
    BY DEF MapInv, TypeOK, NodeStep, InsertImu, InsertSubmap, StopSensors, Join,
           RequestToOptimize, IntervalPasses, inVars
  <1>3. /\ inQ' \in Seq(1 .. MaxSubmaps) /\ pushed' \in 0 .. MaxSubmaps /\ pushed <= pushed'
        /\ Len(inQ') - Len(inQ) = pushed' - pushed
    <2>1. /\ inQ \in Seq(1 .. MaxSubmaps) /\ pushed \in Nat /\ MaxSubmaps \in Nat
          /\ Len(inQ) \in Nat /\ pushed <= MaxSubmaps
      BY TypeOf DEF MapInv
    <2>2. CASE InsertSubmap
      <3>1. inQ' = Append(inQ, pushed + 1) /\ pushed' = pushed + 1 /\ pushed < MaxSubmaps
        BY <2>2 DEF InsertSubmap
      <3>2. pushed + 1 \in 1 .. MaxSubmaps
        BY <2>1, <3>1
      <3>3. inQ' \in Seq(1 .. MaxSubmaps) /\ Len(inQ') = Len(inQ) + 1
        BY <2>1, <3>1, <3>2
      <3>4. QED
        BY <2>1, <3>1, <3>2, <3>3
    <2>3. CASE UNCHANGED <<inQ, pushed>>
      BY <2>1, <2>3
    <2>4. QED
      BY <2>2, <2>3 DEF NodeStep, InsertImu, StopSensors, Join, RequestToOptimize,
                        IntervalPasses, inVars
  <1>4. TypeOK'
    <2>1. submaps' \in 0 .. pushed'
      BY <1>1, <1>3, TypeOf DEF MapInv, TypeOK
    <2>2. QED
      BY <1>1, <1>2, <1>3, <2>1 DEF MapInv, TypeOK, Sets
  <1>5. Counted'
    <2>1. Len(inQ') \in Int /\ pushed' \in Int
      BY <1>3
    <2>2. /\ Len(inQ) \in Int /\ Len(batch) \in Int /\ submaps \in Int /\ pushed \in Int
          /\ submaps + Len(batch) + Len(inQ) = pushed
      BY TypeOf DEF MapInv, Counted
    <2>3. submaps + Len(batch) + Len(inQ') = pushed'
      BY <1>3, <2>1, <2>2
    <2>4. submaps' = submaps /\ batch' = batch /\ wpc' = wpc
      BY <1>1
    <2>5. QED
      BY <2>3, <2>4 DEF MapInv, Counted
  <1>6. Posed' /\ FactorsHaveValues' /\ Seen' /\ Apart' /\ SavedWhole'
    BY <1>1 DEF MapInv, Posed, FactorsHaveValues, Seen, Placed, Apart, SavedWhole, Sets
  <1>7. QED
    BY <1>4, <1>5, <1>6 DEF MapInv

\* Steps of the mapping thread that leave the loops alone.
ThreadStep == Drain \/ TestEnd \/ TestWork \/ Lock \/ Unlock

LEMMA ThreadStepKeeps ==
  ASSUME MapInv, ThreadStep
  PROVE  MapInv'
  <1>1. UNCHANGED <<pushed, submaps, values, Sets, saved>>
    BY DEF ThreadStep, Drain, TestEnd, TestWork, Lock, Unlock, inVars, loopVars, Sets
  <1>2. /\ wpc \notin {"update", "ended", "crashed"} /\ wpc' \notin {"update", "crashed"}
        /\ wpc' \in Places
    BY DEF ThreadStep, Drain, TestEnd, TestWork, Lock, Unlock, Places
  <1>3. /\ {streaming, imuQ, eos, request, due, gotImu}' \subseteq BOOLEAN
        /\ inQ' \in Seq(1 .. MaxSubmaps) /\ batch' \in Seq(1 .. MaxSubmaps)
        /\ Len(batch') + Len(inQ') = Len(batch) + Len(inQ)
        /\ wpc' \in {"drain", "ended"} => batch' = <<>>
    <2>1. /\ {streaming, imuQ, eos, request, due, gotImu} \subseteq BOOLEAN
          /\ inQ \in Seq(1 .. MaxSubmaps) /\ batch \in Seq(1 .. MaxSubmaps)
      BY DEF MapInv, TypeOK
    <2>2. CASE Drain
      <3>1. batch = <<>> /\ batch' = inQ /\ inQ' = <<>>
        BY <2>2 DEF MapInv, Counted, Drain
      <3>2. Len(<<>>) = 0 /\ <<>> \in Seq(1 .. MaxSubmaps) /\ Len(inQ) \in Nat
        BY <2>1
      <3>3. Len(batch') + Len(inQ') = Len(batch) + Len(inQ)
        BY <3>1, <3>2
      <3>4. {streaming, imuQ, eos, request, due, gotImu}' \subseteq BOOLEAN
        BY <2>1, <2>2 DEF Drain
      <3>5. wpc' = "test"
        BY <2>2 DEF Drain
      <3>6. QED
        BY <2>1, <3>1, <3>2, <3>3, <3>4, <3>5
    <2>3. CASE UNCHANGED <<inQ, batch>> /\ (TestEnd \/ TestWork \/ Lock \/ Unlock)
      BY <2>1, <2>3 DEF TestEnd, TestWork, Lock, Unlock, Idle, inVars
    <2>4. QED
      BY <2>2, <2>3 DEF ThreadStep, TestEnd, TestWork, Lock, Unlock, inVars
  <1>4. TypeOK'
    BY <1>1, <1>2, <1>3 DEF MapInv, TypeOK, Sets
  <1>5. Counted'
    <2>1. /\ Len(inQ) \in Int /\ Len(batch) \in Int /\ submaps \in Int /\ pushed \in Int
          /\ Len(inQ') \in Int /\ Len(batch') \in Int
          /\ submaps + Len(batch) + Len(inQ) = pushed
      BY <1>3, TypeOf DEF MapInv, Counted
    <2>2. submaps + Len(batch') + Len(inQ') = pushed
      BY <1>3, <2>1
    <2>3. QED
      BY <1>1, <1>3, <2>2 DEF Counted
  <1>6. Posed' /\ Seen' /\ Apart' /\ SavedWhole'
    BY <1>1, <1>2 DEF MapInv, Posed, Seen, Placed, Apart, SavedWhole, Sets
  <1>7. FactorsHaveValues'
    BY <1>1, <1>2 DEF MapInv, FactorsHaveValues, Sets
  <1>8. QED
    BY <1>4, <1>5, <1>6, <1>7 DEF MapInv

\* Optimizing when idle.
LEMMA TestIdleKeeps ==
  ASSUME MapInv, TestIdle
  PROVE  MapInv'
  <1>1. /\ UNCHANGED <<inVars, batch, gotImu, submaps, values, cand, loopVars, saved>>
        /\ wpc = "test" /\ wpc' = "drain" /\ batch = <<>>
    BY DEF TestIdle, Idle
  <1>2. /\ graph' \in SUBSET Loops /\ detected' \in SUBSET Loops
        /\ Seen' /\ Apart' /\ FactorsHaveValues'
    <2>1. CASE ToOptimize
      <3>1. Optimize
        BY <2>1 DEF TestIdle
      <3>2. QED
        BY <1>1, <3>1, OptimizeKeeps DEF loopVars
    <2>2. CASE ~ToOptimize
      <3>1. UNCHANGED <<graph, detected>>
        BY <2>2 DEF TestIdle
      <3>2. QED
        BY <1>1, <3>1 DEF MapInv, TypeOK, Seen, Placed, Apart, FactorsHaveValues, loopVars
    <2>3. QED
      BY <2>1, <2>2
  <1>3. TypeOK'
    <2>1. {request, due}' \subseteq BOOLEAN
      BY DEF TestIdle, MapInv, TypeOK
    <2>2. QED
      BY <1>1, <1>2, <2>1 DEF MapInv, TypeOK, inVars, loopVars, Places
  <1>4. Counted' /\ Posed' /\ SavedWhole'
    BY <1>1 DEF MapInv, Counted, Posed, SavedWhole, inVars
  <1>5. QED
    BY <1>2, <1>3, <1>4 DEF MapInv

\* save() while the mapping thread does not hold the mutex.
LEMMA SaveKeeps ==
  ASSUME MapInv, Save, wpc # "crashed"
  PROVE  MapInv'
  <1>1. /\ UNCHANGED <<inVars, request, due, wpc, batch, gotImu, submaps, values, cand, loopVars>>
        /\ wpc \notin {"insert", "update", "crashed"} /\ Optimize
        /\ saved' = [maps |-> submaps, loops |-> graph', after |-> wpc = "ended"]
    BY DEF Save, MutexFree, Locked, OptimizeFirst
  <1>2. /\ graph' \in SUBSET Loops /\ detected' \in SUBSET Loops
        /\ Seen' /\ Apart' /\ FactorsHaveValues'
        /\ \A l \in graph' : l[1] <= submaps /\ l[2] <= submaps
    BY <1>1, OptimizeKeeps DEF loopVars
  <1>3. TypeOK'
    <2>1. saved' \in [maps : 0 .. MaxSubmaps, loops : SUBSET Loops, after : BOOLEAN]
      BY <1>1, <1>2, TypeOf DEF MapInv
    <2>2. QED
      BY <1>1, <1>2, <2>1 DEF MapInv, TypeOK, inVars, loopVars
  <1>4. Counted' /\ Posed'
    BY <1>1 DEF MapInv, Counted, Posed, inVars
  <1>5. SavedWhole'
    BY <1>1, <1>2 DEF SavedWhole
  <1>6. QED
    BY <1>2, <1>3, <1>4, <1>5 DEF MapInv

\* A submap is inserted, and candidates that run to it are queued.
LEMMA InsertOneKeeps ==
  ASSUME MapInv, InsertOne
  PROVE  MapInv'
  <1>1. /\ UNCHANGED <<inVars, request, due, gotImu, values, graph, loopVars, detected, saved>>
        /\ wpc = "insert" /\ wpc' = "update" /\ submaps' = submaps + 1
        /\ batch # <<>> /\ batch' = Tail(batch)
    BY DEF InsertOne
  <1>2. PICK found \in SUBSET LoopsTo(submaps + 1) : cand' = cand \cup found
    BY DEF InsertOne
  <1>3. /\ Len(inQ) \in Nat /\ Len(batch) \in Nat /\ submaps \in Nat /\ pushed \in Nat
        /\ pushed <= MaxSubmaps /\ MaxSubmaps \in Nat /\ batch \in Seq(1 .. MaxSubmaps)
        /\ Placed \subseteq Loops /\ submaps + Len(batch) + Len(inQ) = pushed
    BY TypeOf DEF MapInv, Counted
  <1>4. /\ batch' \in Seq(1 .. MaxSubmaps) /\ Len(batch') \in Nat
        /\ Len(batch') = Len(batch) - 1
    BY <1>1, <1>3
  <1>5. submaps < MaxSubmaps /\ submaps' \in 0 .. pushed
    BY <1>1, <1>3, <1>4
  <1>6. \A l \in found : l \in Loops /\ l[2] = submaps + 1 /\ l[1] \in 1 .. submaps
    BY <1>2, <1>3, <1>5, LoopsToNext
  <1>7. found \cap Placed = {}
    <2>1. \A l \in Placed : l[2] <= submaps
      BY DEF MapInv, Seen
    <2>2. QED
      BY <1>3, <1>6, <2>1
  <1>8. TypeOK'
    <2>1. cand' \in SUBSET Loops
      BY <1>2, <1>6 DEF MapInv, TypeOK
    <2>2. values \subseteq 1 .. submaps'
      BY <1>1, <1>3 DEF MapInv, TypeOK
    <2>3. wpc' \in Places
      BY <1>1 DEF Places
    <2>4. TypeOK
      BY DEF MapInv
    <2>5. {streaming', imuQ', eos', request', due', gotImu'} \subseteq BOOLEAN
      BY <1>1, <2>4 DEF TypeOK, inVars
    <2>6. {inQ', batch'} \subseteq Seq(1 .. MaxSubmaps) /\ pushed' \in 0 .. MaxSubmaps
      BY <1>1, <1>4, <2>4 DEF TypeOK, inVars
    <2>7. {graph', cand', buffer', eval', detected', dropped'} \subseteq SUBSET Loops
      BY <1>1, <2>1, <2>4 DEF TypeOK, loopVars
    <2>8. submaps' \in 0 .. pushed' /\ values' \subseteq 1 .. submaps' /\ saved' = saved
      BY <1>1, <1>5, <2>2 DEF inVars
    <2>9. QED
      BY <2>3, <2>4, <2>5, <2>6, <2>7, <2>8 DEF TypeOK
  <1>9. Counted'
    <2>1. submaps' + Len(batch') + Len(inQ) = pushed
      BY <1>1, <1>3, <1>4, SMTT(40)
    <2>2. QED
      BY <1>1, <2>1 DEF Counted, inVars
  <1>10. values = 1 .. submaps
    BY <1>1 DEF MapInv, Posed
  <1>11. Posed'
    <2>1. values' = 1 .. submaps' - 1 /\ submaps' > 0
      BY <1>1, <1>3, <1>10
    <2>2. QED
      BY <1>1, <2>1 DEF Posed
  <1>12. FactorsHaveValues'
    <2>1. \A l \in found : {l[1], l[2]} \subseteq values \cup {submaps'}
      BY <1>1, <1>6, <1>10
    <2>2. \A l \in graph : l[1] \in values /\ l[2] \in values
      BY <1>1 DEF MapInv, FactorsHaveValues
    <2>3. \A l \in cand \cup buffer \cup eval \cup detected : {l[1], l[2]} \subseteq values
      BY <1>1 DEF MapInv, FactorsHaveValues
    <2>4. QED
      BY <1>1, <1>2, <2>1, <2>2, <2>3 DEF FactorsHaveValues, loopVars
  <1>13. Seen'
    <2>1. \A l \in Placed : l[2] <= submaps + 1
      BY <1>3, LoopShape DEF MapInv, Seen
    <2>2. Placed' = Placed \cup found
      BY <1>1, <1>2 DEF Placed, loopVars
    <2>3. QED
      BY <1>1, <1>3, <1>6, <2>1, <2>2 DEF Seen
  <1>14. Apart'
    BY <1>1, <1>2, <1>7 DEF MapInv, Apart, Placed, loopVars
  <1>15. SavedWhole'
    BY <1>1 DEF MapInv, SavedWhole
  <1>16. QED
    BY <1>8, <1>9, <1>11, <1>12, <1>13, <1>14, <1>15 DEF MapInv

\* The update gives the new submap its pose and the detected loops to the graph.
LEMMA UpdateGraphKeeps ==
  ASSUME MapInv, UpdateGraph
  PROVE  MapInv'
  <1>1. /\ UNCHANGED <<inVars, request, due, batch, gotImu, submaps, cand, loopVars, saved>>
        /\ wpc = "update" /\ wpc' = "insert" /\ values' = values \cup {submaps}
    BY DEF UpdateGraph
  <1>2. submaps \in Nat /\ submaps > 0 /\ values = 1 .. submaps - 1
    BY <1>1, TypeOf DEF MapInv, Posed
  <1>3. /\ graph' \subseteq graph \cup detected /\ detected' \subseteq detected
        /\ graph' \cap detected' = {}
    BY DEF UpdateGraph, MapInv, Apart
  <1>4. values' = 1 .. submaps
    BY <1>1, <1>2
  <1>5. TypeOK'
    BY <1>1, <1>3, <1>4 DEF MapInv, TypeOK, inVars, loopVars, Places
  <1>6. Counted'
    BY <1>1 DEF MapInv, Counted, inVars
  <1>7. Posed'
    BY <1>1, <1>4 DEF Posed
  <1>8. FactorsHaveValues'
    BY <1>1, <1>3 DEF MapInv, FactorsHaveValues, loopVars
  <1>9. Seen' /\ Apart'
    BY <1>1, <1>3 DEF MapInv, Seen, Placed, Apart, loopVars
  <1>10. SavedWhole'
    BY <1>1 DEF MapInv, SavedWhole
  <1>11. QED
    BY <1>5, <1>6, <1>7, <1>8, <1>9, <1>10 DEF MapInv

LEMMA UpdateThrowsKeeps ==
  ASSUME MapInv, UpdateThrows
  PROVE  MapInv'
  <1>1. /\ UNCHANGED <<inVars, request, due, batch, gotImu, submaps, values, Sets, saved>>
        /\ wpc = "update" /\ wpc' = "crashed"
    BY DEF UpdateThrows, Sets, loopVars
  <1>2. TypeOK' /\ Counted' /\ Posed' /\ SavedWhole'
    BY <1>1 DEF MapInv, TypeOK, Counted, Posed, SavedWhole, Places, inVars, Sets
  <1>3. FactorsHaveValues' /\ Seen' /\ Apart'
    BY <1>1 DEF MapInv, FactorsHaveValues, Seen, Placed, Apart, Sets
  <1>4. QED
    BY <1>2, <1>3 DEF MapInv

\* The loop detection thread passes candidates on, and drops the others.
LEMMA LoopDetectionKeeps ==
  ASSUME MapInv, LoopDetection, wpc # "crashed"
  PROVE  MapInv'
  <1>1. UNCHANGED <<inVars, request, due, wpc, batch, gotImu, submaps, values, graph, saved>>
    BY DEF LoopDetection, TakeCandidates, DetectLoops
  <1>2. /\ Placed' = Placed
        /\ cand' \cup buffer' \cup eval' \cup detected' \subseteq cand \cup buffer \cup eval \cup detected
        /\ Apart'
    <2>1. CASE TakeCandidates
      <3>1. PICK room \in SUBSET (buffer \cup cand) :
              /\ Evaluate(room)
              /\ dropped' = dropped \cup ((buffer \cup cand) \ room)
        BY <2>1 DEF TakeCandidates
      <3>2. PICK e \in SUBSET room : eval' = e /\ buffer' = room \ e
        BY <3>1 DEF Evaluate
      <3>3. eval = {} /\ cand' = {} /\ detected' = detected /\ graph' = graph
        BY <2>1 DEF TakeCandidates
      <3>4. QED
        BY <3>1, <3>2, <3>3 DEF MapInv, Apart, Placed
    <2>2. CASE DetectLoops
      <3>1. PICK good \in SUBSET eval :
              detected' = detected \cup good /\ dropped' = dropped \cup (eval \ good)
        BY <2>2 DEF DetectLoops
      <3>2. eval' = {} /\ cand' = cand /\ buffer' = buffer /\ graph' = graph
        BY <2>2 DEF DetectLoops
      <3>3. QED
        BY <3>1, <3>2 DEF MapInv, Apart, Placed
    <2>3. QED
      BY <2>1, <2>2 DEF LoopDetection
  <1>3. {graph, cand, buffer, eval, detected, dropped}' \subseteq SUBSET Loops
    <2>1. Placed' \subseteq Loops
      BY <1>2, TypeOf DEF MapInv
    <2>2. QED
      BY <2>1 DEF Placed
  <1>4. TypeOK' /\ Counted' /\ Posed' /\ SavedWhole'
    BY <1>1, <1>3 DEF MapInv, TypeOK, Counted, Posed, SavedWhole, inVars
  <1>5. FactorsHaveValues'
    BY <1>1, <1>2 DEF MapInv, FactorsHaveValues
  <1>6. Seen'
    BY <1>1, <1>2 DEF MapInv, Seen
  <1>7. QED
    BY <1>2, <1>4, <1>5, <1>6 DEF MapInv

-----------------------------------------------------------------------------
LEMMA MapInvariant == Spec => []MapInv
  <1>1. Init => MapInv
    <2> SUFFICES ASSUME Init PROVE MapInv
      OBVIOUS
    <2>1. MaxSubmaps \in Nat /\ <<>> \in Seq(1 .. MaxSubmaps) /\ Len(<<>>) = 0
      BY SizeAssumption
    <2>2. saved \in [maps : 0 .. MaxSubmaps, loops : SUBSET Loops, after : BOOLEAN]
      BY <2>1 DEF Init, Nothing
    <2>3. TypeOK
      <3>1. {streaming, imuQ, eos, request, due, gotImu} \subseteq BOOLEAN
        BY DEF Init
      <3>2. inQ \in Seq(1 .. MaxSubmaps) /\ batch \in Seq(1 .. MaxSubmaps)
        BY <2>1 DEF Init
      <3>3. pushed \in 0 .. MaxSubmaps /\ submaps \in 0 .. pushed /\ wpc \in Places
        BY <2>1 DEF Init, Places
      <3>4. {graph, cand, buffer, eval, detected, dropped} \subseteq SUBSET Loops /\ values = {}
        BY DEF Init
      <3>5. QED
        BY <2>2, <3>1, <3>2, <3>3, <3>4 DEF TypeOK
    <2>4. Counted
      BY <2>1 DEF Init, Counted
    <2>5. Posed
      <3>1. submaps = 0 /\ values = {} /\ wpc = "drain"
        BY DEF Init
      <3>2. 1 .. 0 = {}
        OBVIOUS
      <3>3. QED
        BY <3>1, <3>2 DEF Posed
    <2>6. FactorsHaveValues /\ Seen /\ Apart /\ SavedWhole
      BY DEF Init, FactorsHaveValues, Seen, Placed, Apart, SavedWhole, Nothing
    <2>7. QED
      BY <2>3, <2>4, <2>5, <2>6 DEF MapInv
  <1>2. MapInv /\ [Next]_vars => MapInv'
    <2> SUFFICES ASSUME MapInv, [Next]_vars PROVE MapInv'
      OBVIOUS
    <2>1. CASE UNCHANGED vars
      BY <2>1 DEF vars, inVars, loopVars, MapInv, TypeOK, Counted, Posed, FactorsHaveValues,
                  Seen, Placed, Apart, SavedWhole
    <2>2. CASE Next
      BY <2>2, NodeStepKeeps, ThreadStepKeeps, TestIdleKeeps, SaveKeeps, InsertOneKeeps,
         UpdateGraphKeeps, UpdateThrowsKeeps, LoopDetectionKeeps
         DEF Next, Mapping, NodeStep, ThreadStep
    <2>3. QED
      BY <2>1, <2>2
  <1>3. QED
    BY <1>1, <1>2, PTL DEF Spec

\* In every state every variable of the global mapping has its type.
THEOREM MapTypeOK == Spec => []TypeOK
  <1>1. MapInv => TypeOK
    BY DEF MapInv
  <1>2. QED
    BY <1>1, MapInvariant, PTL

\* Factors, in isam2 or on their way there, are between submaps that have a pose.
THEOREM FactorsAlwaysHaveValues == Spec => []FactorsHaveValues
  <1>1. MapInv => FactorsHaveValues
    BY DEF MapInv
  <1>2. QED
    BY <1>1, MapInvariant, PTL

\* Every loop candidate is in one place.
THEOREM LoopAlwaysOnce == Spec => []LoopOnce
  <1>1. MapInv => LoopOnce
    <2> SUFFICES ASSUME Apart PROVE LoopOnce
      BY DEF MapInv
    <2> DEFINE places == <<cand, buffer, eval, detected, graph, dropped>>
    <2>1. DOMAIN places = 1 .. 6
      OBVIOUS
    <2>2. ASSUME NEW i \in 1 .. 6, NEW j \in 1 .. 6, i # j
          PROVE  places[i] \cap places[j] = {}
      <3>1. /\ places[1] = cand /\ places[2] = buffer /\ places[3] = eval
            /\ places[4] = detected /\ places[5] = graph /\ places[6] = dropped
        OBVIOUS
      <3>2. /\ i = 1 \/ i = 2 \/ i = 3 \/ i = 4 \/ i = 5 \/ i = 6
            /\ j = 1 \/ j = 2 \/ j = 3 \/ j = 4 \/ j = 5 \/ j = 6
        OBVIOUS
      <3> HIDE DEF places
      <3>3. QED
        BY <2>2, <3>1, <3>2 DEF Apart
    <2>3. QED
      BY <2>1, <2>2 DEF LoopOnce
  <1>2. QED
    BY <1>1, MapInvariant, PTL

\* What save() writes is whole: factors between saved submaps, and after
\* join() every submap but those left in the queue; detected loops are in it.
THEOREM SaveAlwaysConsistent == Spec => SaveIsConsistent
  <1>1. MapInv => /\ \A l \in saved.loops : l[1] <= saved.maps /\ l[2] <= saved.maps
                  /\ saved.after => saved.maps = submaps /\ submaps + Len(inQ) = pushed
    <2> SUFFICES ASSUME MapInv
                 PROVE  saved.after => saved.maps = submaps /\ submaps + Len(inQ) = pushed
      BY DEF MapInv, SavedWhole
    <2>1. ASSUME saved.after PROVE saved.maps = submaps /\ batch = <<>>
      BY <2>1 DEF MapInv, SavedWhole, Counted
    <2>2. ASSUME batch = <<>> PROVE submaps + Len(inQ) = pushed
      <3>1. Len(batch) = 0
        BY <2>2
      <3>2. submaps \in Int /\ Len(inQ) \in Int /\ submaps + Len(batch) + Len(inQ) = pushed
        BY TypeOf DEF MapInv, Counted
      <3>3. QED
        BY <3>1, <3>2
    <2>3. QED
      BY <2>1, <2>2
  <1>2. [Next]_vars => [saved' # saved /\ values # {} => graph \cup detected \subseteq saved'.loops]_vars
    <2> SUFFICES ASSUME Next, saved' # saved, values # {}
                 PROVE  graph \cup detected \subseteq saved'.loops
      OBVIOUS
    <2>1. Save
      BY DEF Next, Mapping, LoopDetection, InsertImu, InsertSubmap, StopSensors, Join,
             RequestToOptimize, Drain, TestEnd, TestIdle, TestWork, Lock, InsertOne,
             UpdateGraph, Unlock, UpdateThrows, IntervalPasses, TakeCandidates, DetectLoops
    <2>2. QED
      BY <2>1 DEF Save, OptimizeFirst, Optimize
  <1>3. QED
    BY <1>1, <1>2, MapInvariant, PTL DEF Spec, SaveIsConsistent
=============================================================================
