--------------------------- MODULE GlobalMapping ---------------------------
(***************************************************************************)
(* GLIM's AsyncGlobalMapping with the pose graph back end: the thread that *)
(* inserts submaps and optimizes under global_mapping_mutex, the thread    *)
(* that evaluates loop candidates, the viewer's requests, and save().      *)
(* Submaps are numbered in the order they are inserted; a loop is a pair   *)
(* of them.                                                                *)
(***************************************************************************)
EXTENDS Integers, FiniteSets, Sequences

CONSTANTS
  MaxSubmaps,  \* bound: submaps inserted
  BufferSize,  \* loop_candidate_buffer_size
  EvalCount    \* loop_candidate_eval_per_thread * num_threads

ASSUME SizeAssumption == MaxSubmaps \in Nat /\ BufferSize \in Nat /\ EvalCount \in Nat \ {0}

VARIABLES
  streaming, \* the sensors are running
  imuQ,      \* input_imu_queue holds something
  inQ,       \* input_submap_queue
  pushed,    \* submaps pushed so far
  eos,       \* end_of_sequence
  request,   \* request_to_optimize
  due,       \* the optimization interval has passed
  wpc,       \* the mapping thread; it holds the mutex in Locked
  batch,     \* submaps drained in this round
  gotImu,    \* IMU data drained in this round
  submaps,   \* number of submaps
  values,    \* submaps whose pose is in isam2
  graph,     \* loops whose factor is in isam2
  cand,      \* loop_candidates
  buffer,    \* candidates_buffer
  eval,      \* candidates under evaluation
  detected,  \* detected_loops
  dropped,   \* candidates rejected, or discarded for want of room
  saved      \* what save() wrote last

inVars == <<streaming, imuQ, inQ, pushed, eos>>
loopVars == <<buffer, eval, dropped>>
vars == <<inVars, request, due, wpc, batch, gotImu, submaps, values, graph, cand,
          loopVars, detected, saved>>

Places == {"drain", "test", "lock", "insert", "update", "ended", "crashed"}
Locked == {"insert", "update"}
MutexFree == wpc \notin Locked

Elems(s) == {s[i] : i \in DOMAIN s}
Loops == {l \in (1 .. MaxSubmaps) \X (1 .. MaxSubmaps) : l[1] < l[2]}
Nothing == [maps |-> 0, loops |-> {}, after |-> FALSE]

Init ==
  /\ streaming = TRUE /\ imuQ = FALSE /\ inQ = <<>> /\ pushed = 0 /\ eos = FALSE
  /\ request = FALSE /\ due = FALSE
  /\ wpc = "drain" /\ batch = <<>> /\ gotImu = FALSE
  /\ submaps = 0 /\ values = {} /\ graph = {}
  /\ cand = {} /\ buffer = {} /\ eval = {} /\ detected = {} /\ dropped = {}
  /\ saved = Nothing

-----------------------------------------------------------------------------
(* The node and the viewer.                                                *)

InsertImu ==
  /\ streaming /\ ~imuQ /\ imuQ' = TRUE
  /\ UNCHANGED <<streaming, inQ, pushed, eos, request, due, wpc, batch, gotImu, submaps,
                 values, graph, cand, loopVars, detected, saved>>

InsertSubmap ==
  /\ ~eos /\ pushed < MaxSubmaps
  /\ pushed' = pushed + 1 /\ inQ' = Append(inQ, pushed + 1)
  /\ UNCHANGED <<streaming, imuQ, eos, request, due, wpc, batch, gotImu, submaps,
                 values, graph, cand, loopVars, detected, saved>>

StopSensors ==
  /\ streaming /\ streaming' = FALSE
  /\ UNCHANGED <<imuQ, inQ, pushed, eos, request, due, wpc, batch, gotImu, submaps,
                 values, graph, cand, loopVars, detected, saved>>

Join ==
  /\ ~streaming /\ ~eos /\ eos' = TRUE
  /\ UNCHANGED <<streaming, imuQ, inQ, pushed, request, due, wpc, batch, gotImu,
                 submaps, values, graph, cand, loopVars, detected, saved>>

RequestToOptimize ==
  /\ ~request /\ request' = TRUE
  /\ UNCHANGED <<inVars, due, wpc, batch, gotImu, submaps, values, graph, cand,
                 loopVars, detected, saved>>

\* isam2->update with the loops detected so far, unless isam2 is empty.
Optimize ==
  IF values = {} THEN UNCHANGED <<graph, detected>>
  ELSE graph' = graph \cup detected /\ detected' = {}

\* Mutant: save() does not optimize first.
SaveOnly == UNCHANGED <<graph, detected>>

OptimizeFirst == Optimize

\* save(): optimize, then write the graph and the submaps.
Save ==
  /\ MutexFree
  /\ OptimizeFirst
  /\ saved' = [maps |-> submaps, loops |-> graph', after |-> wpc = "ended"]
  /\ UNCHANGED <<inVars, request, due, wpc, batch, gotImu, submaps, values, cand, loopVars>>

-----------------------------------------------------------------------------
(* AsyncGlobalMapping::run.                                                *)

Drain ==
  /\ wpc = "drain" /\ wpc' = "test"
  /\ gotImu' = imuQ /\ imuQ' = FALSE
  /\ batch' = inQ /\ inQ' = <<>>
  /\ UNCHANGED <<streaming, pushed, eos, request, due, submaps, values, graph, cand,
                 loopVars, detected, saved>>

Idle == ~gotImu /\ batch = <<>>

\* Mutant: only requests optimize.
AskedTo == request

TestEnd ==
  /\ wpc = "test" /\ Idle /\ eos /\ wpc' = "ended"
  /\ UNCHANGED <<inVars, request, due, batch, gotImu, submaps, values, graph, cand,
                 loopVars, detected, saved>>

\* The optimizer runs when asked to and when the interval has passed.
ToOptimize == request \/ due

TestIdle ==
  /\ wpc = "test" /\ Idle /\ ~eos /\ wpc' = "drain"
  /\ IF ToOptimize
       THEN Optimize /\ request' = FALSE /\ due' = FALSE
       ELSE UNCHANGED <<graph, detected, request, due>>
  /\ UNCHANGED <<inVars, batch, gotImu, submaps, values, cand, loopVars, saved>>

TestWork ==
  /\ wpc = "test" /\ ~Idle /\ wpc' = "lock"
  /\ UNCHANGED <<inVars, request, due, batch, gotImu, submaps, values, graph, cand,
                 loopVars, detected, saved>>

Lock ==
  /\ wpc = "lock" /\ wpc' = "insert"
  /\ UNCHANGED <<inVars, request, due, batch, gotImu, submaps, values, graph, cand,
                 loopVars, detected, saved>>

\* The earlier submaps the new one may close a loop with.
LoopsTo(n) == {<<i, n>> : i \in 1 .. n - 1}

\* GlobalMappingPoseGraph::insert_submap up to find_loop_candidates.
InsertOne ==
  /\ wpc = "insert" /\ batch # <<>>
  /\ wpc' = "update" /\ submaps' = submaps + 1 /\ batch' = Tail(batch)
  /\ \E found \in SUBSET LoopsTo(submaps + 1) : cand' = cand \cup found
  /\ UNCHANGED <<inVars, request, due, gotImu, values, graph, loopVars, detected, saved>>

\* Mutant: the exception of the update is caught.
UpdateSwallows ==
  /\ wpc = "update" /\ wpc' = "insert"
  /\ \/ UNCHANGED <<values, graph, detected>>
     \/ values' = values \cup {submaps} /\ graph' = graph \cup detected /\ detected' = {}
  /\ UNCHANGED <<inVars, request, due, batch, gotImu, submaps, cand, loopVars, saved>>

\* The rest of it: the new pose and the detected loops go to isam2.  The first
\* submap does not collect loops.
UpdateGraph ==
  /\ wpc = "update" /\ wpc' = "insert"
  /\ values' = values \cup {submaps}
  /\ IF submaps = 1 THEN UNCHANGED <<graph, detected>>
                    ELSE graph' = graph \cup detected /\ detected' = {}
  /\ UNCHANGED <<inVars, request, due, batch, gotImu, submaps, cand, loopVars, saved>>

\* isam2->update throws: the new pose is gone and update_submaps, outside the
\* try block, throws in turn, which ends the process.
UpdateThrows ==
  /\ wpc = "update" /\ wpc' = "crashed"
  /\ UNCHANGED <<inVars, request, due, batch, gotImu, submaps, values, graph, cand,
                 loopVars, detected, saved>>

\* The end of the round unlocks the mutex and restarts the interval, whether
\* submaps or only IMU data were inserted.
Unlock ==
  /\ wpc = "insert" /\ batch = <<>>
  /\ wpc' = "drain" /\ due' = FALSE
  /\ UNCHANGED <<inVars, request, batch, gotImu, submaps, values, graph, cand, loopVars,
                 detected, saved>>

Mapping ==
  Drain \/ TestEnd \/ TestIdle \/ TestWork \/ Lock \/ InsertOne \/ UpdateGraph \/ Unlock

\* IMU data comes many times in an interval, so the interval passes only
\* without them.
IntervalPasses ==
  /\ ~due /\ ~streaming /\ due' = TRUE
  /\ UNCHANGED <<inVars, request, wpc, batch, gotImu, submaps, values, graph, cand,
                 loopVars, detected, saved>>

-----------------------------------------------------------------------------
(* GlobalMappingPoseGraph::loop_detection_task.                            *)

\* Mutant: evaluated candidates stay in the buffer.
EvaluateAndKeep(room) ==
  LET n == IF Cardinality(room) < EvalCount THEN Cardinality(room) ELSE EvalCount IN
  \E e \in SUBSET room : Cardinality(e) = n /\ eval' = e /\ buffer' = room

\* Take a subset of the candidates to evaluate.
Evaluate(room) ==
  LET n == IF Cardinality(room) < EvalCount THEN Cardinality(room) ELSE EvalCount IN
  \E e \in SUBSET room : Cardinality(e) = n /\ eval' = e /\ buffer' = room \ e

\* The thread sleeps until the queue holds something, even when its buffer
\* does; a buffer too large is shuffled and cut.
TakeCandidates ==
  /\ eval = {} /\ cand # {} /\ cand' = {}
  /\ LET all == buffer \cup cand IN
     \E room \in SUBSET all :
       /\ Cardinality(room) = IF Cardinality(all) > BufferSize THEN BufferSize ELSE Cardinality(all)
       /\ Evaluate(room)
       /\ dropped' = dropped \cup (all \ room)
  /\ UNCHANGED <<inVars, request, due, wpc, batch, gotImu, submaps, values, graph,
                 detected, saved>>

\* The candidates with enough inliers become factors.
DetectLoops ==
  /\ eval # {} /\ eval' = {}
  /\ \E good \in SUBSET eval :
       detected' = detected \cup good /\ dropped' = dropped \cup (eval \ good)
  /\ UNCHANGED <<inVars, request, due, wpc, batch, gotImu, submaps, values, graph, cand,
                 buffer, saved>>

LoopDetection == TakeCandidates \/ DetectLoops

-----------------------------------------------------------------------------
Next ==
  /\ wpc # "crashed"
  /\ \/ InsertImu \/ InsertSubmap \/ StopSensors \/ Join \/ RequestToOptimize \/ Save
     \/ Mapping \/ UpdateThrows \/ IntervalPasses \/ LoopDetection

\* Both threads are scheduled, running sensors deliver, and time passes.
Spec ==
  /\ Init /\ [][Next]_vars
  /\ WF_vars(Mapping) /\ WF_vars(LoopDetection)
  /\ WF_vars(InsertImu) /\ WF_vars(IntervalPasses)

-----------------------------------------------------------------------------
TypeOK ==
  /\ {streaming, imuQ, eos, request, due, gotImu} \subseteq BOOLEAN
  /\ {inQ, batch} \subseteq Seq(1 .. MaxSubmaps) /\ pushed \in 0 .. MaxSubmaps
  /\ wpc \in Places /\ submaps \in 0 .. pushed /\ values \subseteq 1 .. submaps
  /\ {graph, cand, buffer, eval, detected, dropped} \subseteq SUBSET Loops
  /\ saved \in [maps : 0 .. MaxSubmaps, loops : SUBSET Loops, after : BOOLEAN]

(***************************************************************************)
(* Every factor in isam2, and every factor waiting to go there, is between *)
(* submaps whose poses are there or go there in the same update: a loop    *)
(* found while its submap is being inserted does not overtake it.          *)
(***************************************************************************)
FactorsHaveValues ==
  wpc # "crashed" =>
  /\ \A l \in graph : l[1] \in values /\ l[2] \in values
  /\ \A l \in cand \cup buffer \cup eval \cup detected :
       {l[1], l[2]} \subseteq values \cup (IF wpc = "update" THEN {submaps} ELSE {})

(***************************************************************************)
(* A loop candidate is in one place only: queued, buffered, under          *)
(* evaluation, detected, in the graph, or dropped.  So no loop is          *)
(* evaluated twice and none enters the graph twice.                        *)
(***************************************************************************)
LoopOnce ==
  LET places == <<cand, buffer, eval, detected, graph, dropped>> IN
  \A i, j \in DOMAIN places : i # j => places[i] \cap places[j] = {}

(***************************************************************************)
(* A saved map has the submaps up to some number and factors between those *)
(* only; one saved after join() has every submap but those left in the     *)
(* queue.  Every loop detected by the time of the save is in it.           *)
(***************************************************************************)
SaveIsConsistent ==
  /\ [](\A l \in saved.loops : l[1] <= saved.maps /\ l[2] <= saved.maps)
  /\ [](saved.after => saved.maps = submaps /\ submaps + Len(inQ) = pushed)
  /\ [][saved' # saved /\ values # {} => graph \cup detected \subseteq saved'.loops]_vars

(***************************************************************************)
(* With the sensors stopped, a detected loop ends up in the graph although *)
(* no further submap comes: by a request, by the interval, or by save.     *)
(***************************************************************************)
LoopsReachGraph ==
  \A l \in Loops :
    (l \in detected /\ ~streaming) ~> (l \in graph \/ wpc \in {"ended", "crashed"})
=============================================================================
