# DLIO-stable in TLA+

A verification project for this repository: TLA+ modules of its concurrent and
history-dependent parts, TLC configurations that check them on small instances,
and TLAPS proofs of what must hold on every instance.

1. [The system](#1-the-system)
2. [The modules](#2-the-modules)
3. [What is checked](#3-what-is-checked)
4. [Where code and documentation disagree](#4-where-code-and-documentation-disagree)
5. [What is proved](#5-what-is-proved)
6. [Abstractions, bounds, fairness](#6-abstractions-bounds-fairness)
7. [What is not modelled](#7-what-is-not-modelled)
8. [Plan](#8-plan)

Run a check with `tlc -config MCGeoObserver.cfg MCGeoObserver.tla`, a proof
with `tlapm GeoObserverProofs.tla`.

## 1. The system

The repository holds two programs and the glue between them and the sensors.

| Part | Where | State it keeps | How it interacts |
|---|---|---|---|
| Localization node | `src/gicp_localization` | poses, observer state, IMU and ground-truth buffers, calibration phase | callbacks on a multi-threaded executor, shared members under five mutexes |
| GICP optimiser | `src/gicp_localization/.../nano_gicp` | k-d trees, covariances | called by `performLocalization` |
| GLIM library | `src/GLIM/glim` | factor graphs, keyframes, submaps; queues between three worker threads | `ConcurrentVector` queues, callback slots |
| GLIM ROS 2 node | `src/GLIM/glim_ros2` | reorder queue of live input, primary and auxiliary clouds | feeds GLIM, polls its results on a timer |
| GLIM extensions | `src/GLIM/glim_ext` | per module; some own a thread | GLIM callback slots |
| Adapter | `src/adapter` | IMU queues, clock mapping, GNSS state | publishes the topics of the localization node |

The **localization node** is the core of the repository and of this project. Its
parts share members of one class, `LocalizationNode` (`localization.cc`):

* *IMU side.* `callbackImu` (reentrant callback group: may overlap itself) pushes the
  sample to `imu_buffer` and `imu_meas`, runs the calibration phase machine while
  `imu_calibrated_` is false, then `propagateState` copies the observer state under
  `geo.mtx`, integrates without a lock, publishes, and stores the result if
  `geo.update_seq` has not moved. **Correct** means: a correction is never overwritten;
  a sample counts once, unless its callback overlaps another; output never stops once
  there is a seed; calibration ends.
* *Scan side.* `callbackPointCloud` (one at a time) deskews, moving `prev_scan_stamp`
  and integrating `T_prior` from `basePose`; aligns, accepts or rejects, and snaps to
  ground truth, holding `pose_mutex`; corrects the observer in `updateState`.
  **Correct** means: no interval of motion is lost or counted twice, the prior is
  valid at the time it claims, and rejected scans do not lock out right ones.
* *Seeding.* Parameters, `/initialpose` (`callbackInitialPose`) and the first
  ground-truth message (`callbackGtOdom`) call `applyInitialPose`, which writes pose,
  observer and anchor under two different locks and none. **Correct** means: after it
  everything descends from the new pose, velocities included.
* *Ground truth.* `callbackGtOdom` keeps a sorted, bounded buffer; `getGtPoseAt`
  interpolates in it for calibration, recovery and diagnostics. **Correct** means: the
  buffer is sorted, and no pose passes the quality gate that is made of one that does not.

Hard here are the interleavings of callbacks that run from copies, the order in which
the sources arrive, and long histories (streaks, gaps) whose effect shows scans later.

**GLIM** is a pipeline of threads.

* *Queues.* `ConcurrentVector`: a deque, a mutex, a condition variable, an end-of-data
  flag set outside the mutex, an optional limit. **Correct** means: first in, first
  out, nothing twice; nobody sleeps beside data; the end reaches every reader.
* *Stages.* `AsyncOdometryEstimation`, `AsyncSubMapping` and `AsyncGlobalMapping` each
  own a thread that drains its input queues one after the other, works, and publishes
  into output queues; the ROS node's timer pumps results from one stage to the next.
  **Correct** means: no frame is lost, doubled or overtaken; a frame waits for its IMU
  data; shutting down hands everything over and returns.
* *Global mapping.* The mapping thread, a loop detection thread and the requests of a
  viewer share the graph. **Correct** means: factors connect poses the graph has, a
  loop counts once and is not forgotten, a saved map is consistent.
* *Live input.* Messages of several lidars and an IMU are put in order within a window;
  a primary cloud waits until the auxiliary lidars have passed it. **Correct** means:
  order is broken for the two reasons stated only, a cloud is merged with the right
  partners and not held without a reason, and stopping drains.

The **adapter** rebuilds time: poses teach it the lag between two clocks, IMU messages
wait for that, or for later messages of their burst. **Correct** means: every message
leaves once and in order, its stamp is near its arrival, nothing waits for ever.

The hazards of all of this are listed under `hazards` in `PROJECT.json`, each with the
line where it bites and the properties that are about it.

## 2. The modules

| Module | Models | Extends, instantiates |
|---|---|---|
| `AtomicObserver` | abstract: an estimate that is corrected, restarted, and advanced by one sample at a time; writers that overlap may mix, but lose no correction | |
| `GeoObserver` | the geometric observer and all callbacks that share it | `AtomicObserver` (refinement) |
| `ImuInit` | calibration phases of `callbackImu`, `tryRtkCalibrationStep`, and pose seeding | |
| `GtBuffer` | `callbackGtOdom`'s buffer, `getGtPoseAt`, the quality gate | |
| `ScanPipeline` | `deskewPointcloud`, IMU integration, anchoring in `performLocalization` | |
| `Fifo` | abstract: a channel that may discard what it has no room for | |
| `ConcurrentVector` | GLIM's queue, its readers and the destructor that ends them | `Fifo` (refinement) |
| `GlimStages` | odometry and sub mapping threads, their queues, `timer_callback`, `GlimROS::wait` | |
| `GlobalMapping` | the third thread with the pose graph back end, loop detection, save, optimize | |
| `LiveInput` | the reorder queue, merging of auxiliary clouds, `TimeKeeper` | |
| `Adapter` | `imuCallback`, `poseCallback`, the flush timer, `P1ClockMapper`, retiming | |
| `GeoObserverProofs`, `ImuInitProofs`, `ScanPipelineProofs`, `ConcurrentVectorProofs`, `GlimStagesProofs`, `GlobalMappingProofs`, `LiveInputProofs` | theorems and proofs | the module of the same name |
| `TimedInputProofs` | theorems and proofs about the two modules that put data from outside on the time line | `GtBuffer`, `Adapter` |
| `MC...` | model values for TLC | the module of the same name |

Each of the first group is one view of the same class, `LocalizationNode`. The views
overlap (an initial pose is an action in three of them) and each keeps the part of the
state its properties tell apart. The GLIM modules cut the pipeline at its queues.

**`GeoObserver`.** A pose or velocity is its *lineage*: the number of the
re-initialisation it descends from (a velocity of zero descends from none: `AtRest`). `state` is `[reset, fix, log]`: lineage, the last correction contained,
and the IMU samples integrated since. A program counter per callback splits it where
another thread can see or change shared data: `PushImu`, `ApplyRtkSeed`, `ReadMeas`,
`ReadState`, `WriteState` for `callbackImu` and `propagateState`; `ReceiveScan`,
`Deskew`, `DropEmptyScan`, `Align`, then `AcceptPose`, `CorrectObserver`,
`FinishAccept`, or `Reject`, `SnapPoseToGT`, `DeferSnap` for a scan; `ResetPose`, `ResetState`, `ResetBase`,
`FinishOdomInit` for `applyInitialPose`. `updateState` pulls the state toward
`basePose`; the lineage of the result is the older of the two. The same holds of a prior,
which `Deskew` integrates from `basePose` with `prev_vel`. There are two velocities:
`geo_prev_vel` belongs to the observer; `prev_vel` is the copy of it that a scan takes at
its end, and no pose source touches it. `due`, `crowded` and `old_vel` are history: the
samples whose callbacks overlapped no other one, whether a running callback overlapped
one, and what became of a velocity that an initial pose left in `prev_vel`.

**`ImuInit`.** Time is the stamp of IMU samples. `orientation` and `bias` name the
source of those parts of the state. A callback loads the phase once (`LoadPhase`) and
acts on the copy, as the code does; `seeded` is `can_propagate_now`; `out` records
whether the callback reached `propagateState` with something to publish. `Stall` bounds by
how much the stream of samples may run ahead of a callback still in progress.

**`GtBuffer`.** A sample is a stamp and a variance; the vehicle moves along a line so
that its position is its stamp, and interpolation is exact rational arithmetic.

**`ScanPipeline`.** The vehicle moves at constant speed and the velocity estimate is
right, so a position *is* a time: the truth at `t` is `t`, and integrating from `a` to
`b` adds `b - a`. An error of a pose is an interval that was left out or counted twice.
Deskewing, a start-up parameter, is chosen in `Init`.

**`ConcurrentVector`.** Elements are numbered as they are pushed. An operation holds the
mutex from its first to its last line, so it is one step. A waiting read takes two:
`TestFails` finds nothing and keeps the mutex, `Block` enters the wait set and gives it
up; in between, of the queue's operations, only `submit_end_of_data`, which takes no mutex,
can act (`SetEndOfData`,
`NotifyEnd`). `Poppers` call `pop_wait`, `Drainers` call `get_all_and_clear_wait`, other
threads `Pop`, `GetAndClear`, `GetAllAndClear`. `closing` follows the destructor.

**`GlimStages`.** Frame `f` needs the IMU data up to sample `f`. The odometry thread is
`DrainImu`, `DrainFrames`, `TestOdometry`, `InsertRawFrame`; `raw` is `raw_frames`,
`Estimate` the estimator, which may use up frames to initialise and marginalises those
older than the lag. The sub mapping thread is `PublishSubmaps`, `DrainSubImu`,
`DrainSubFrames`, `TestSubMapping`, `InsertSubFrame`, with the frame it keeps back
(`delayed`). `timer_callback` is `TakeResults`, `InsertMarginalized`, `TakeSubmaps`,
`DeliverSubmap` of a pump; `GlimROS::wait` is `Stop`, `JoinOdometry`,
`HandOverRemaining`, `JoinSubMapping`, `TakeLastSubmaps`, `JoinGlobalMapping`.

**`GlobalMapping`.** The thread's round is `Drain`, one of `TestEnd`, `TestIdle`,
`TestWork`, then `Lock`, per submap `InsertOne` and `UpdateGraph`, and `Unlock`; `Locked`
are the places where it holds `global_mapping_mutex`. `InsertOne` ends where the new
submap's loop candidates are in the queue and its pose is not yet in `isam2`: the other
thread (`TakeCandidates`, `DetectLoops`) may run in between. `UpdateThrows` is the
exception of `isam2->update`: it is caught, but `update_submaps` behind the try block
then asks for the missing pose, and the process ends.

**`LiveInput`.** `Enqueue` is any of the three subscriptions. `Release` is
`pop_live_input` and all that follows from it on the same thread: dispatch, merging
(`ProcessPoints`, `ProcessAux`), the drop of what goes back in time. `Stop` and
`LoopEnds` end it. `late`, `forced`, `inverted`, `heard` and `evicted` are history.

**`Adapter`.** `core_mutex_` makes each callback one step: `ImuCallback` with its three
paths (`SidecarHit`, `ImuWithP1`, `ImuWithArrival`), `PoseCallback`, `FlushTimer`;
`Silence` is the passing of wall time. A bin of the clock mapping is its count, sum and
least lag; `ToRos` interpolates between bins in integers. Names that `GtBuffer` uses too
carry the prefix `Adapter`, so that one module can hold the proofs about both.

## 3. What is checked

| Run | Question | Properties | States |
|---|---|---|---|
| `observer` | Two overlapping IMU callbacks, scans, snaps, `/initialpose`, ground-truth initialisation: does a stale copy overwrite a correction, is propagation without a lock atomic, is a sample skipped or repeated, what outlives a re-initialisation, can a scan get stuck? | `CorrectionKept`, `ImplementsAtomic`, `NoSampleSkipped`, `CleanResetHolds`, `ScanNeverStuck` | 1 976 215 |
| `imu` | Two overlapping IMU callbacks on copies of the phase, one of which may stall: however ground truth and calibration fail, are the biases there within the timeouts, and does the output of a seeded node go on? | `UnseededDeadline`, `OutputContinues` | 5 150 984 |
| `gt_buffer` | Samples in any order: is the buffer sorted and bounded, is every lookup right, is the gate conservative, is the past settled? | `BufferMonotone`, `BufferBounded`, `LookupCorrect`, `GateConservative`, `PastIsSettled` | 51 892 |
| `scan_pipeline` | Rejections, gaps, empty scans, snaps, initial poses: how wrong can dead reckoning get, and does the jump gate let the right match in again? | `NeverFarBehind`, `NeverFarAhead`, `ReacquisitionAdmitted` | 1 909 453 |
| `queue` | Two readers that pop, one that drains, others that do not wait, a full queue: is it a FIFO channel, and who may sleep? | `InOrder`, `NoSleepOnData`, `ImplementsFifo`, `EndWakesOthers` | 13 002 |
| `stages` | Two workers, five queues, a pump and a shutdown at any time: where is each frame, and does `wait()` return? | `TypeOK`, `ConservedInOrder`, `ShutdownHandsOver`, `FrameIsEstimated`, `WaitReturns` | 134 946 |
| `global_mapping` | Mapping and loop detection threads, save, optimize and join: is the graph sound, and what does a saved map hold? | `FactorsHaveValues`, `LoopOnce`, `SaveIsConsistent`, `LoopsReachGraph` | 107 600 |
| `live_input` | Any order of the messages of an IMU and two lidars: in what order do they leave, and what is merged with what? | `InOrderWithinWindow`, `HeldForAux`, `NearestIsMerged`, `StopDrains` | 283 048 |
| `adapter` | Bursts, gaps, lags, a partial sidecar: does every message leave once, with a stamp near its arrival? | `AdapterTypeOK`, `EachOnce`, `BurstBounded`, `OdomNotEarly`, `RtkSharesStamp`, `AllPublished` | 459 643 |
| `override_lost`, `drift_survives`, `lost_wakeup` | Section 4 | `OverrideReaches`, `NoDriftFromPrevious`, `EndWakes` | |

The type invariants of the modules with proofs are theorems (section 5) and not part of
a run, except in `stages` and `adapter`, which check theirs as well.

What they show of the localization node:

* `update_seq` does its work: `CorrectionKept` holds in every interleaving. It protects
  corrections only: `applyInitialPose`, the RTK seed and the first accepted scan do not
  advance it, and section 4 shows the consequence.
* The observer refines `AtomicObserver` with any number of IMU threads; a step that
  writes nothing because the copy was stale is a stutter of the abstract specification.
  What overlaps is excused, and only that: while several IMU callbacks, or one and a
  re-initialisation, are in progress together (`crowded`), their writes are `Mix`, which
  may be anything that contains the last correction.
* Samples: two callbacks that overlap may lose the sample of one and count the other
  twice (section 4). `NoSampleSkipped` is about all others: once the state holds samples
  from before and after it, a usable sample of such a callback is there, and once,
  whatever overlapped earlier or later.
* `CleanResetHolds` names the one thing that a re-initialisation leaves behind, the
  velocity in `prev_vel`, and bounds what it does: at most one pose is predicted from it,
  because whatever becomes of that scan replaces the velocity; without that
  prediction everything descends from the new pose. Section 4 has the trace.
* `ScanNeverStuck`: at every point of a scan callback some step can be taken, so that it
  ends. It would fail if the snap took `pose_mutex` itself and waited for its caller.
* The deadline is the sum of the documented timeouts, each overrun by one IMU period, and
  for callbacks that overlap five times the longest stall: a callback that has
  stalled moves the phase, or stamps its start, with a sample that is old by then, and each
  of the steps towards calibration may be delayed like that.
* `NeverFarBehind` and `NeverFarAhead` are quantitative: the lag of the IMU costs
  once per rejected scan, an interval that could not be integrated costs one period for
  good, and an initial pose between two scans may count up to a period twice, because
  it does not move `prev_scan_stamp`. With deskewing the excess grows with a streak.
* `ReacquisitionAdmitted` is claimed without deskewing only. With deskewing the excess
  just named outgrows the jump gate (which stops growing after one second): a long
  enough streak rejects the right match for ever unless ground truth recovers it.

Of GLIM:

* The queue implements `Fifo`, whatever its limit discards. `notify_one` is enough: a
  reader that was woken and takes one element tests again before it sleeps. Every reader
  ends that was not between its test and its wait when the end was submitted.
* Draining the queues one after the other costs no frame and no order while the threads
  run. After `wait()` only these are left behind: what entered the two input queues after
  the last drain (section 4), and the frame that sub mapping keeps back for smoothing,
  which is in no submap.
* A loop is found while its submap is being inserted, and still its factor never precedes
  the pose: detected loops are collected behind the insertion of the pose, under the
  mutex. The loop detection thread waits for the *queue*, so candidates that stay in its
  buffer wait for the next submap; loops detected after the last save are lost; while
  IMU data streams, the interval alone never triggers an optimisation, which is why
  `LoopsReachGraph` assumes that the sensors have stopped.
* A message overtakes another only if the other came after the window, or the queue was
  over its limit. One stamp far in the future is costly: it moves `latest`, which sends
  everything else through at once, and `TimeKeeper` then drops every cloud before it.
  Primary clouds still held when the node stops are never flushed, and a silent
  auxiliary lidar holds them back until the buffer drops them.

Of the adapter: the two paths each keep order, between them there is none; a lookup that
misses moves the cursor as well; a pose older than the first is ignored by the clock
mapping, so that the lag of one wrong first pose is used for good; a message with a sidecar
match also breaks the silence on which the look-ahead queue waits.

Every property has a mutant in `PROJECT.json`: a plausible slip in a mapped definition
(no freshness test, a velocity kept, a trim one sample late, a drain that replaces, a lost
notification) with which TLC refutes it.

## 4. Where code and documentation disagree

Three runs end in a violation, each of a statement quoted from the repository:

| Run | Statement | What happens |
|---|---|---|
| `override_lost` | `/initialpose` is "always available as a manual override" (`README.md:235` of the package) | A propagation that copied the state before it stores it after it; a scan past deskewing writes its old-lineage prior over pose and anchor. |
| `drift_survives` | `applyInitialPose`: "Reset geometric observer state to prevent drift from previous estimates" (`localization.cc:1641`) | It clears `geo.prev_vel` (`:1654`) and sets `basePose` (`:1659`), but not `prev_vel`, with which the next scan is integrated from that base (`:2130`, `:2302`). If the pose of that scan is accepted or held, it was predicted with the old velocity. |
| `lost_wakeup` | `pop_wait` "waits until a new data arrives or EOD is submitted" (`concurrent_vector.hpp:127`) | `submit_end_of_data` (`:53`) sets the flag and notifies without the mutex. A reader that has tested the flag and is about to wait sleeps for ever; the destructor that joins it hangs. |

More disagreements were seen while modelling, and no run states them. In the
localization node (`localization.cc` unless named):

* Two overlapping IMU callbacks push, then both read `imu_meas` (`:4013`-`:4015`): the newer
  sample is integrated twice, the older never. Nothing in the repository says otherwise of
  samples that come that close together.
* The orientation of the accelerometer is adopted "only when we have no better one"
  (`:3693`), but only the parameter and odom-init flags are looked at (`:3698`); a manual
  pose and an accepted scan lose theirs, yaw included.
* A parameter pose should dead-reckon "instead of going dark" (`:3632`); it does
  not set `first_opt_done`, which the gate requires (`:3607`).
* `T_prior` is commented as the pose "at the median time of the scan" (`:2325`); the
  next integration starts at the first point's stamp on a pose valid at the median (`:2341`).
* Before the first IMU sample a deskewed scan is not in the world frame (`:2113`), yet
  the guess is chosen as if it were (`:2408`).
* The fallback from `RTK_CALIBRATING` and from `WAITING` also happens to seeded nodes
  (`:3256`, `:3620`; the comment at `:3643` says only unseeded ones).
* `imu_calibrated_` stays true when an initial pose or the first accepted scan clears the
  biases (`:1650`).
* `first_imu_received` is set before the stamp it guards (`:3574`), so an overlapping
  callback may fall back at once, and the callback that sets the stamp may do so late.
* The phase may be moved by a callback whose copy of it is old (`:3603`), so that with two
  threads the calibrated flag and the phase may disagree; the output does not depend on it.
* A snap takes any sample, RTK-quality or not (`:3360`; `src/README.md:51`).
* After a rejection the prior is anchored to the held prior, not to the last match
  (`:2849`; `README.md:370` of the package).
* `scan_stamp` may hold the stamp of an initial pose when a scan in progress records it
  as its own (`:1637`).

In GLIM:

* The offline players call `timer_callback` beside the live input thread, which pumps
  too (`glim_rosbag.cpp:421`, `glim_pcap_rosbag.cpp:612`). With two pumps one batch of
  frames may be inserted after a later one, and sub mapping takes them as they come
  (`sub_mapping.cpp:188`): `ConservedInOrder` is false.
* `end_of_sequence` is to stop the thread "when the input queues become empty"
  (`async_odometry_estimation.hpp:86`, `async_sub_mapping.hpp:74`); the loops look at what
  they drained at the start of the round (`.cpp:85`, `.cpp:63`), so that what was
  inserted since is left behind.
* The optimizer should run every interval "even if no additional values and factors are
  given" (`async_global_mapping.hpp:25`); the interval is measured from the last batch
  of any data (`.cpp:138`), and IMU data comes more often than that.

## 5. What is proved

But for `ScanNeverStuck`, every invariant and action property of the passing runs is a
theorem, for every value of the constants, the two refinements included; the only assumptions are the named ASSUMEs of
each module and the premises stated with a theorem.

Data that is recursive is reasoned about in two ways. A recursive *function* is a CHOOSE:
one lemma shows that a function with its equations exists (`IterationExists`,
`FlattensExists`), and the equations then hold of what was chosen. What holds of all
elements is shown by the *least counterexample*, which the well-ordering of the naturals
provides (`LeastNatural`, `IntervalInduction`).

**`GeoObserverProofs`.** `TypeCorrect`. `CorrectionsSurvive` is not inductive alone: the
strengthening `CopyMatchesSeq` says that a callback in its lock-free part whose copied
`update_seq` is still current also has a current copy of the state's last correction;
every change of `update_seq` invalidates its premise, and restarts that leave
`update_seq` alone keep the `fix` field in step. `CleanResetAlwaysHolds` follows what
each callback carries back to the re-initialisation it saw, and where an old velocity can
be: in `prev_vel`, in the prior of the scan in progress, or replaced. `DueSampleCountsOnce`
follows a sample that is due from the push to the state: until its callback is done
no other one is in progress, so `imu_meas` is that sample, nothing newer is in the state
or in a copy, and what was computed from a copy still current ends with it.
`ObserverIsAtomic` needs that outside `crowded` the only callback's copy, when its
`update_seq` is current, is the state itself. All hold for any number of IMU threads, scans,
re-initialisations and pose sources.

**`ImuInitProofs`.** `ImuTypeOK`; `OutputAlwaysContinues`, for any number of threads, from
an invariant on what each callback's copy of the phase lets it do. `DeadlineAlwaysMet`,
also for any number of threads: `Dark` carries, for each way in which the node may still be
without biases (waiting for ground truth, pairing, about to calibrate, calibrating), the
latest stamp until which it can last, and what it allows the callbacks in progress to be
doing meanwhile; each stale step costs at most a `Stall`.

**`TimedInputProofs`, ground truth.** Types, order and bound in one invariant; then
`LookupAlwaysCorrect`, `GateAlwaysConservative` and `PastAlwaysSettled`, which compare
positions in a sorted buffer and take the first or last sample with a property.

**`TimedInputProofs`, adapter.** `AdapterInv` is inductive (`AdapterInvariant`) and has two
parts, `ClockInv` and `QueueInv`; the type invariant and the four safety properties follow.

* `OdomNeverEarly`. That a rebuilt stamp is at most the arrival needs to know which bin
  the newest pose is in. `GoodBins` says that each bin keeps poses of its own interval,
  and none newer than the newest pose: then the bin of this pose is the last one, no
  earlier bin's centre lies after it, and of the outcomes of `toRos` only the median
  lag (off by less than the drift), the last bin's lag, and an interpolation towards the
  last bin remain. A median is one of the lags, whatever their number
  (`UpperMedianIsElement`), and `addPosePair` never raises a bin's lag above that of the
  pose just added. A bump of `monotonicStamp` is one unit above a stamp already bounded
  by an earlier arrival; `OdomOrder` keeps arrivals in order.
* `RtkAlwaysShares`. By `OdomOrder` the stamps of the odometry increase strictly: a copy's
  stamp is one of them, above every earlier one, so that the second `monotonicStamp`
  finds nothing to correct.
* `PublishedOnce`. `Tidy` is `EachOnce` as seen from one of the two paths, and is the same
  statement from the other (`TidyArrival`). Each publication is then one of two moves,
  whichever path it is on: a message joins the tail of a queue, or the head of
  a queue joins the tail of what was published.
* `BurstStaysBounded`. `Arrivals` says that an entry of the look-ahead queue still has the
  stamp it came with, so that stamps in the queue never go back; `PeriodTypes` bounds
  each sampled period by three halves of the nominal one, and so the median. Going
  backwards through at most `Lookahead` messages takes off at most a period each. The
  bumps need that every message published before took an arrival stamp too, which is why
  the property is about messages that had only arrivals before them.

**`ScanPipelineProofs`.** `PipeInv` bounds how far the anchor is behind and ahead in terms
of the counters of rejected scans and lost intervals (`Behind`, `RigidBehind`, `Ahead`);
`NeverFarBehind`, `NeverFarAhead` and `ReacquisitionAdmitted` follow for any period, lag
and mode. The bound ahead assumes that no scan precedes all IMU samples while deskewing
(`TRUE \notin ImuLate`): section 4 says why it is false otherwise.

**`ConcurrentVectorProofs`.** `QueueInv`: the deque increases, ends at what was pushed, and
what is gone was taken or had no room. From it `QueueInOrder` and the refinement
`QueueImplementsFifo`. `ReaderInv` for `NobodySleepsOnData`, with any number of readers.

**`GlimStagesProofs`.** `TypeCorrect`, then three strengthenings. `Places` says where the
three threads stand in each phase of the shutdown and what is empty there: a thread that
was joined has tested its flag on empty queues, and a pump holds nothing between two
calls. With `LastLeaves` (the submap under way when sub mapping ends is the last one
handed over) it gives `HandsOver`.
`InLine` is about all frames at once: `UnderWay` writes them down queue by queue, from the
submaps delivered first to the input queue, as one sequence that increases and lacks exactly
what the initial state estimation used up; each step moves a frame over a boundary
between two queues and leaves the sequence alone. Submaps are flattened by a recursive
function, of which the proof uses its value on the empty sequence and after `Append`.
With one pump (`Pumps = {Feeder}`) it gives `Conserved`; with two it is false (section 4).

**`GlobalMappingProofs`.** `MapInv`: submaps are counted, those before the one under way
have poses, candidates refer to such submaps only, the six places of a loop are apart,
and what was saved is whole. From it the three safety properties of the run.

**`LiveInputProofs`.** `QueueInv` says that everything below the newest stamp released is
excused; `ConcatInv` relates buffers, watermarks and history: what a lidar delivered is
in its buffer or evicted, and below its watermark, and what was merged was covered by it.

Only model-checked:

* liveness under fairness, which the proof system cannot treat: `EndWakesOthers`,
  `FrameIsEstimated`, `WaitReturns`, `LoopsReachGraph`, `StopDrains`, `AllPublished`;
* `ScanNeverStuck`, which is about `ENABLED`;
* the three violations.

## 6. Abstractions, bounds, fairness

*Outcomes of numerics* are nondeterministic: whether a scan is accepted, a prior is
finite, the averaged biases are plausible, ground truth is near, a frame is a keyframe,
a candidate is a loop, `isam2` throws.
*Locks* appear where they decide an interleaving: a locked block is one step; the
`pose_mutex` of `performLocalization`, held across steps, is `PoseMutexFree`, and
`global_mapping_mutex` is `MutexFree` of `GlobalMapping`.
*Data races* on plain members are steps of their own (`ResetBase`, `MarkFirst`), or a
choice (`PairingCounted`: a lost increment).
The first accepted scan writes the observer without `geo.mtx`; it is one step, because no
propagation runs before `first_opt_done` and the other writers replace the same fields.

Bounds are constants named `Max...`, `Last...` or commented "bound".

* Observer: up to four samples, three scans and one reset, which share a `Budget`: four
  samples with two scans, so that a sample that is alone comes before, between and after
  two that overlap while a scan is processed; or a reset with two samples and two scans,
  so that two IMU callbacks overlap it, an accepted scan and a snap in every order; or a
  reset with one sample and three scans, so that one scan leaves a velocity, one is
  predicted from it and one comes after.
* `ImuInit`: two threads, every duration one unit, and stamps to 15, past the latest
  deadline (2 + 12). Each timeout is overrun by a sample, and a callback by a newer one.
  `Calibrating` ends a behaviour when the node is calibrated and no callback is left that
  saw it otherwise: from then on no phase is looked at. The view leaves out the sources of
  orientation and biases, which no guard reads.
* `GtBuffer`: stamps allow a buffer of three to overflow and every gap to be at, under
  and over `MaxDt`.
* `ScanPipeline`: stamps to 12 are four to six scans, enough for a streak beyond
  `MinFailures`, a snap and a new streak, with an IMU buffer (6) that overflows. Scans
  before the first IMU sample come only without deskewing (`ImuLate`).
* Queue: five elements through a limit of two that discards the oldest; the policy that
  discards the newest is covered by the proofs only. The class offers both, and no
  code in the repository sets a limit.
* Stages: three frames and IMU samples with a lag of one and submaps of up to two
  keyframes: one frame in each stage at a time, a submap finished and one begun. One pump.
* Global mapping: three submaps, so that a second loop finds the first detected, with a
  buffer of two and one candidate per evaluation: it overflows and strands one.
* Live input: four messages of four stamps with a window of one and a limit of two.
* Adapter: four IMU messages behind a look-ahead of two, two poses in one or two bins
  with growing or shrinking lag, three kinds of input (plain, P1 times, partial sidecar).

`SYMMETRY` (of IMU threads) is used in `observer` and `imu`, which have safety
properties only.
`CHECK_DEADLOCK FALSE`: at a bound, and when input stops, the programs idle.

Fairness is weak fairness of threads that the code starts and lets run to their end; but
for the IMU of `GlobalMapping`, no arrival, request or stop is ever forced.

* `ConcurrentVector`: each reader's `Read` and the destructor's `Submit`. A reader
  competes for the mutex with finitely many operations of others.
* `GlimStages`: each of the two workers, the pump, and `wait()` once it is called.
* `GlobalMapping`: the two threads, time (`IntervalPasses`), and running sensors
  (`InsertImu`), which the code counts on to come.
* `LiveInput`: the thread's loop (`Release`, `LoopEnds`).
* `Adapter`: the periodic `FlushTimer`, and `Silence` for a stream that has stopped.

## 7. What is not modelled

Most of the lines of this repository are numerics (GICP, k-d trees, point filters,
covariances, factors), vendored libraries, input and output (maps, coordinates,
publishers, viewers, bag and pcap readers) and scripts. They hold no state that several
steps or threads share, or nothing that a model checker could add to; the map of the
project covers a small part of the lines for that reason. Of the rest:

* Localization node: `mergeAuxClouds` and its buffers, the residual and geometry gates
  beyond accept or reject, path and debug messages, an unsupported sensor type, which
  deskews nothing and moves only the stamp.
* GLIM stages: images, the external pose gate, workload limits, `estimation_results`, the
  kill switch of a destructor, recovery and overlap requests of the viewer.
* Global mapping: the default back end with its matching cost factors (the pose graph, the
  other one, is modelled), loading, editing and registration of maps.
* ROS 2 node: the direct mode without reordering, the external odometry stream, per-point
  times, loading of modules, the players but for their second pump.
* Adapter: UTM coordinates, the map odometry, the lidar bridge and its repair of point
  times, the summary and CSV files.
* Extensions: optional plug-ins, among them the GNSS back end with its own thread.

`components` in `PROJECT.json` lists them all.

## 8. Plan

Done: the observer, calibration, ground truth, scans; the queues, stages and global
mapping of GLIM; live input; the time path of the adapter. What is left, in order:

1. Lidar concatenation of the localization node, which is like that of `LiveInput`
   without watermarks, and the adapter's lidar bridge.
2. The default back end of global mapping: which submaps are linked, and when.
3. The GNSS back end of the extensions: its thread and its callback slots.
4. The damping loop of GICP: termination and the choice of the step returned.
5. Proofs of the safety properties these bring; what is modelled now has its own.
