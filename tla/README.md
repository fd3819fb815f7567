# Verification of the adaptive traffic light

TLA+ models of the adaptive traffic light, the TLC configurations that check
them on small instances, and theorems about them that TLAPS checks for every
value of the constants. Paths below are relative to the code root
`src/docs/05_development/adaptive_traffic_light/`.

    tlc -workers 2 -config MCSignalController.cfg MCSignalController.tla
    tlapm SignalControllerProofs.tla

`PROJECT.json` lists the runs, the lines of code each definition stands for,
the hazards each property is aimed at, a mutant of the code that breaks each
property, and the theorems.

## 1. The system

Three processes under the Eclipse S-CORE launch manager, connected by POSIX
message queues, each started after the one before it:

    traffic_perception --/traffic_snapshot_v1--> traffic_timing_decision
        ^                                              |
        | /traffic_signal_state_v1 (viewer only)       | /traffic_timing_plan_v1
        |                                              v
        +------------------------------------ traffic_signal_controller

`deployment/run_traffic_light_system.sh` runs `ipc_reset` once before a launch,
becomes the launch manager, and leaves a helper behind that asks the control daemon
for the run target in which the three processes run.
`config/traffic_light_lifecycle.json` gives each process one restart while it
becomes ready; when one fails later the system switches to a fallback target in
which none of the three runs.

### Inventory

| Component | State | Operations | Interacts through |
|---|---|---|---|
| Signal FSM engine (`signal_fsm_engine.cpp`) | plan in force, phase index, remaining time, moving group, absolute deadline, ring of wake-up samples | `processTick`, `processGreenPhase`, `advancePhase`, `loadPendingPlan`, `handleEmergencyPlan` | the synchronisation channel; `OutputSimulator::submit` |
| Plan synchronisation channel (`plan_sync_channel.cpp`) | mutex, condition variable, pending normal plan, pending emergency, announced phase, shutdown flag | `PublishPlan`, `ConsumePendingPlan`, `SetCurrentPhase`, `WaitForEmergencyUntil`, `RequestShutdown` | shared by receiver, FSM and lifecycle threads |
| Plan receiver (`plan_receiver.cpp`) | none | `ValidatePlan`, `TranslatePlan`, `ReceivePlan` | called by the receiver worker |
| Receiver worker (`mq_timing_plan_receiver_worker.cpp`) | queue handle, instance and sequence of the last message | open with retry, drain, decode, filter | the timing-plan queue |
| Output simulator (`output_simulator.cpp`) | 64-bit mailbox, pending flag, semaphore, sequence | `submit` (FSM thread), `run` (worker), `requestStop` | the signal-state queue |
| Signal control application (`signal_control_app.cpp`) | four threads and their flags | Initialize and rollback, health cycles, ordered stop | the launch manager |
| Latest-value queue (`ipc/.../latest_value_queue.h`, `ipc_reset.cpp`) | queue, lock semaphore, deferred value | `publish`, `receiveLatest`, open, close, reset | both snapshot and signal-state channels |
| Decision engine (`decision_engine.cpp`) | previous plan, next plan id | score, draft, emergency, constraints | called by the service |
| Decision service (`periodic_service.cpp`, `timing_plan_publisher.cpp`, `traffic_data_receiver.cpp`) | missed cycles, watermark, sequence, deferred message | one decision every 2.5 s | snapshot queue in, timing-plan queue out |
| Perception ingestion (`stream_worker.cpp`, `atomic_frame_buffer.cpp`, `frame_pool.cpp`) | a pool of 20 frames, one slot per lane | capture, drop the oldest, return | inference pipeline |
| Perception pipeline (`pipeline_manager.cpp`, `inference_engine.cpp`, `analyzer.h`, `snapshot_publisher.cpp`) | lane metrics, render slots, frame counter | a cycle every 10 s | snapshot queue out, viewer |
| Perception lifecycle (`perception_module.cpp`, `startup_gate.h`, `traffic_perception_application.cpp`) | start gate, threads, flags | start, release, cancel, stop | all perception threads |
| Inference backends (`yolov8_backend.cpp`, `yolov8_oiv7_backend.cpp`, `rt_detrv2_backend.cpp`) | buffers reused from frame to frame, none of whose contents is | `preprocess`, `Run` of ONNX Runtime, `postprocess` | called by the pipeline thread |
| Lane metrics (`analyzer.h`) | detections, queue length, occupancy and emergency flag of each lane | `buildLaneMetrics`, `calculateQueueLength` | the snapshot and the viewer |
| Health reporters (`health_reporter.cpp` twice, `lifecycle_health_reporter.cpp`; `third_party/lifecycle_heartbeat_tolerance.patch`) | monitor, open deadline, cycle counter | `initialize`, a heartbeat and a deadline per cycle, `shutdown` | the main loop of each process; the S-CORE health monitor |
| Control daemon and command (`control_daemon.cpp`, `lmcontrol.cpp`, `control.h`) | control socket, a response socket per client | activate a run target, stop, wait for an answer or an exit | the launch manager; the deployment script |
| Deployment (`run_traffic_light_system.sh`) | generation file, helper process | reset, launch, ask for run target `Running` with retries | the command |
| Viewer, analytics | drawing; offline statistics | | |

### What is hard

- **Threads of different periods share small state.** The FSM sleeps until an
  absolute deadline while the receiver publishes plans, an emergency interrupts
  the sleep, and a stop interrupts everything. `advancePhase` changes the phase
  and announces it in two separate critical sections.
- **A lock-free hand-over.** The FSM never waits for its output: it overwrites a
  word and posts a semaphore only when no wake-up is pending.
- **A lock nobody waits for, in a name that outlives its owner.** The publisher
  must keep the newest value when the queue is full or the lock is busy, in two
  system calls, and either process may die between any two of them.
- **Validation on one side, generation on the other.** Every plan the engine can
  make, from any previous plan and any demand, must satisfy what the controller
  demands of it.
- **Arithmetic on a boundary.** Late wake-ups, proportional reduction, narrow
  bit fields and a wrapping sequence.
- **Resources handed from hand to hand.** Frames that must each have one owner.
- **A protocol of deadlines.** The command that starts and stops the system looks at
  clocks and at an empty socket, the daemon may start late, die, or answer a client
  that has gone, and the script retries.
- **A supervisor that tolerates.** The health monitor counts heartbeats that come too
  early, too late or together: a loop that is merely late must not be stopped, and
  one that is stuck must be.
- **Filters in a row.** Suppression, classes, riders, region, clusters: the order
  decides whether a vehicle counts once, twice or not at all.

What makes each component correct is listed with its module in section 2, and
every hazard with its line in `PROJECT.json`.

## 2. The modules

### Controller core

| Module | Models |
|---|---|
| `SignalPlans` | plan records, `ValidatePlan`, `TranslatePlan`, `MakeDefaultPlan`, lamps and countdowns of a phase |
| `PlanSyncChannel` | the channel: one operator per critical section, the condition variable with its single waiter |
| `TrafficLights` | the abstract specification: two directions that never move together, clear through yellow and take strict turns |
| `SignalController` | the FSM, receiver and lifecycle threads of the process over the channel |
| `MCSignalController` | the instance for TLC |
| `SignalControllerProofs` | theorems about it, and about the output below |

`fsmPc` splits `processTick` at its critical sections; code between two of them
touches only the FSM's own fields and belongs to the step before. A tick of a
green is `FsmStartTick`, then `FsmBlock`/`FsmWake` as often as the condition is
signalled, then `FsmTimeout` (the deadline), `FsmTakeEmergency` or
`FsmWaitAborted`; a tick of a yellow or an all-red is one `FsmSleep`. A phase
that has run out goes through `FsmLoadPendingPlan` (after an all-red only),
`FsmAdvancePhase` and `FsmAnnouncePhase`, two separate steps as in the code.
`LateTicks` is the number of whole periods by which a wake-up may be late.

Properties: an emergency belongs to the green that runs (`EmergencyOfThisGreen`);
the newest plan is never lost (`NewestPlanKept`); a green and its clearance are timed
by one plan (`OnePlanPerGreen`); the lamps of the displays submitted refine
`TrafficLights` (`ShownLightsSpec`); the countdown shown is the truth
(`CountdownHonest`); greens alternate for ever (`GreensAlternate`); an emergency is not
kept waiting (`EmergencyPrompt`); a stop joins everything (`ShutdownCompletes`).
Proved and not run: plans in force or waiting are legal (`PlansLegal`), the lamps of
the FSM itself refine `TrafficLights` (`LightsSpec`), and only an emergency for the
moving direction inside its window adds time (`ExtendedOnlyByEmergency`).

### Output

`OutputSimulator` is the mailbox and `SignalOutput` composes it with the
controller: what the FSM submits goes through the packed word, and the lifecycle
thread stops the worker after it has joined the FSM. Each atomic access is one
step. The accesses are acquire/release only, which across two CPUs would allow
both threads to miss each other's flag; but every controller thread is pinned to
one CPU (`kTrafficSignalControllerCpu`, and a failed pin fails `Initialize`), so
interleaving is exact for this program. (The design document's table places the
output simulator on another CPU under `SCHED_OTHER`; the code does not, and a
change to what the table says would need stronger orders.)

Properties: a sleeping worker has published the newest display and left no
wake-up flag set (`NewestShown`); every display is published or overwritten
(`NewestEventuallyShown`). Proved and not run: what is published is what was submitted
last, with the phase's countdown recovered from the two directions'
(`PublishedIsNewest`).

### Latest-value queue

`LatestValueQueue` has one action per system call of the publisher and the
consumer, deaths of either at any of them, and a new deployment through
`ipc_reset`. `LatestValue` says what it promises: a consumer takes the newest
value or an earlier one it has not yet passed, never an older one. The model
refines it (`LatestSpec`).

Properties: the refinement; nothing of an earlier deployment is taken
(`NothingStale`); while nobody dies the newest value is taken (`NewestTaken`). Proved
and not run: the lock is held by exactly the process that is inside its critical
section, or was left by one that died there (`LockAccounted`), and replacing the oldest
message never fails (`ReplaceNeverFails`).

### Decision engine

`DecisionEngine` is the score, the step towards the target, the emergency path
and the constraints, in whole percents and an abstract unit of time. Plans are
the records of `SignalPlans`, so `ControllerAccepts` applies the controller's own
`ValidatePlan` to them.

Properties: every plan is accepted unless it asks for both emergencies
(`ControllerAccepts`); greens move by at most one step, even through the proportional
reduction (`GradualChange`), and settle under a constant demand (`Settles`). Proved and
not run: the limits themselves (`WithinLimits`), and that greens stay put in an
emergency (`EmergencyKeepsGreens`).

### Plan transport

`DecisionService` extends the engine with the process around it: a cycle takes its
input (`Decide`, or `SkipCycle` when there is no usable snapshot) and then makes
its one call of `mq_send` (`FinishCycle`). A plan that finds the queue full waits in
`pendingLatest` until a cycle can send it or a newer plan replaces it; too many
misses in a row end the process. `PlanTransport` adds the receiver worker of the
controller, one action per system call: opening with retry, the running test,
`mq_timedreceive` with its three outcomes, and the hand-over of the newest message
of a drain. Both processes may stop, die and start again anywhere, and the queue
outlives them. Publisher instances are numbered in order of start; the code only
compares them for equality, so the numbers serve the properties alone.
`SignalController` takes up what is handed over, and `LatestValueQueue` has the
channel the snapshots come through.

Properties: the newest message sent is
queued, held, handed over, or lost in a failure (`NewestKept`); nothing is handed over
after something newer, restarts included (`HandedInOrder`); deferred plans are
sent and queued ones handed over (`PlansGetThrough`); a process without input gives
up, a deferred plan or not (`GivesUp`); a receiver told to stop returns, even while
it waits for a queue that does not exist (`ReceiverStops`). Proved and not run: what is
queued, waits and was received is in the order it was made, so nothing is ever refused
as stale (`QueueInOrder`), and the engine steps from the plan that waits or was sent
last (`EngineInStep`).

What these properties do not say is also worth knowing. A receiver hands over
the newest message of a drain only, so an emergency plan followed by a normal one
in the same drain is not served. And a failing receive loses the message it had
drained, while the position has moved past it (`givenUp`).

### Perception frames

`PerceptionFrames` follows the frames of the perception process: a worker of each
lane acquires one from the pool, decodes into it, shares its buffer as the lane's
preview and exchanges it into the lane's slot; the pipeline thread takes what is in
the slot of each lane in turn, makes the lane's metrics, exchanges the frame into the
render slot, and publishes a snapshot after the last lane; the viewer clones the
previews, takes the render slots, draws and releases. A step is one access to
something shared: the pool or a preview under its mutex, a slot by its atomic
exchange. A frame that fails to be grabbed, that is replaced in a slot or that has
been drawn goes back to the pool, and the end of a stream ends its worker.

An image is the lane it was decoded for, and metrics are the number of their
frame. The viewer reads the detections of a lane without a lock while the pipeline
replaces them, a data race on a vector whose outcome cannot be enumerated, so
detections are left out. Shared buffers are not: `Seen` is what a reader of a buffer
sees, `Torn` when somebody decodes into it.

Properties: each frame is with one thread, in one slot, or free once (`OneOwner`);
nothing is decoded into while it is analysed or drawn, and no lane shows another's
picture (`RightImage`), although a preview shares its buffer with a frame that has gone
back to the pool; a snapshot never speaks of an older frame than the one before it
(`SnapshotsForward`). Proved and not run: no worker finds the pool empty
(`PoolNeverEmpty`), so the path for an empty pool is never taken, whatever the design
documents say of dropping work there. `MCPerceptionFrames` has two lanes of which one
is captured twice.

### Perception lifecycle

`PerceptionLifecycle` has the main thread, a stream worker of each lane and the
pipeline thread at the `StartupGate`. A thread is created (`CreateThread`, or
`CreateFails`), prepares, and arrives at the gate (`StreamArrives`,
`PipelineArrives`) or cancels it (`OpenFails`); the main thread releases the gate
when all have arrived or retreats when it is cancelled (`releaseWhenReady`). A sleeper
at the condition variable is in `asleep`; whoever changes what the others wait for
wakes them all, and a woken thread tests again (`Woken`). The viewer, the health
reporter and the main loop may each fail or end (`InitFails`, `RunEnds`), and then
the flags are cleared, the threads joined and the sender closed (`StopStreams`,
`StopPipeline`, `Join`), except that a start that failed leaves the sender open.
What the threads do in their loops is `PerceptionFrames`.

Properties: all threads begin or none does, whoever fails (`AllOrNone`); starting
comes to a decision (`StartDecided`); no thread is left when the sender is closed or
the application returns (`NothingLeft`); a stop that finds the pipeline in its loop
ends the process (`StopCompletes`). `StopIsBounded`, of every stop, does not hold:
`PipelineManager::run` sets its own `running_` after the gate, over a `stop()` that
came in between (`lifecycle_stop`).

### Detections

| Module | Models |
|---|---|
| `Letterbox` | fitting a frame into the square input of a model, and bringing coordinates back |
| `Detections` | one lane of `InferenceEngine::runOneCycle`: the answer of the model, `postprocess` of each backend, the filters of the engine, the metrics of `analyzer.h` |
| `MCDetections` | what the model may see, for TLC |
| `DetectionsProofs` | theorems about both |

The model is a trained network: it may answer with any anchors of a palette in any
order, or throw (`ModelAnswers`, `InferFails`). A box is a column and an extent of rows,
the direction in which a queue stands; `Overlapping` is OpenCV's Jaccard test, exact.
Backends differ in their classes, in what they do with persons and motorcycles
(`WithRiders`, `postprocessOIV7`) and in whether they suppress overlaps at all
(`postprocessRtDetr`).

Properties: the queue length is that of the longest of the largest groups of vehicles
that stand without a gap, stated over all subsets and not by a scan
(`QueueIsLongestCluster`); an emergency vehicle is reported exactly when it was seen in
the region and nothing at least as confident covers it, be its class one of the
vehicles or not (`EmergencyNotMissed`); a YOLO backend counts nothing twice (`CountedOnce`).
`FailureNotPublished` does not hold: a failed inference is published as an empty road
(`failed_inference`).

What these do not say: a more confident box of any class suppresses an emergency vehicle
under it; two vehicles side by side are a queue of length 0; the lower edge of a box cut
by the frame is row 1080, the region of interest ends at row 1079, and such a vehicle is
not counted; riders are estimated before the region is applied, so that persons and
motorcycles outside it change the count inside. An emergency class of `Person` or `Motorcycle` would be
dropped by one backend or the other before it reaches the lane; `EmergencyIsCounted`
excludes it.

### Health supervision

`HealthSupervision` is the main loop of one of the three processes, with what it
acquires and gives back in `Initialize` and `Run`, its reporter, and the heartbeat
monitor as the patch in `third_party/` leaves it: an interval that starts at the last
heartbeat, at most one heartbeat in it, no sooner than `kHeartbeatMin` and no later than
`kHeartbeatMax`, and up to `HEARTBEAT_FAILURE_TOLERANCE` failures in a row tolerated.
Time is relative: `due` to the next release, `sinceStart` from the start of the interval.
A loop is late by up to `MaxLateness`, works up to `MaxWork`, or hangs for good; the
release that follows is each process's own rule (`ControlRelease`, `DecisionRelease`,
`PerceptionRelease`). `Following` walks through what is acquired in order, and
`AcquireFails` gives back what the code gives back at that place.

Properties: a process that is merely late is not reported (`NoFalseAlarm`); a process
that ends has given back all it held, whatever failed (`NothingHeld`); a stuck loop is
reported (`HangReported`); a failed worker of the controller ends the process
(`WorkerFailureEnds`).

`NoFalseAlarm` is a statement about bounds, and TLC finds where they are. The decision
process keeps to its release grid, so a late cycle is followed by an early one:
alternating cycles that are 1.5 s late and on time put two heartbeats close together four
times in a row, and the process is reported although it works. Perception has the same
limit at 100 ms. The instance uses 1 s and 50 ms, and 1.5 s for the controller, whose
rule not to make up for a missed release is what the property rests on.
`HealthSupervisionProofs` proves both safety properties, for every set of constants with
room enough (`Bearable`).

### Run targets

`RunTargetControl` is one execution of the deployment script: the daemon's loop
(`DaemonStarts` to `SignalsLaunchManager`), the command `lmcontrol` from its request to
its exit code (`Request`, `SeesDelivery`, the timeouts, `TakesResponse`, `SeesExit`),
the script's helper (`HelperChecks` to `HelperWatches`), and the launch manager as the
others see it. An earlier execution may have left a socket that nobody reads, and a
helper that has just looked at its generation. Deadlines may pass at any moment, the
launch manager may crash with or without its children, and other commands are given by
hand.

Properties: an exit code tells what became of the client's own request
(`StatusHonest`); a request reported as delivered was received (`DeliveredWasReceived`);
the helper of an earlier execution asks once at most (`StaleHelperAsksOnce`); a stop
that reached the daemon's socket ends the launch manager (`StopCarriedOut`); helpers
come to a decision (`HelperDecides`). `RunTargetControlProofs` has the theorems.

## 3. The runs

| Run | Asks | Bounds, and why they are enough |
|---|---|---|
| `controller` | the properties of the core, safety and liveness | real durations in units of 500 ms; two normal plans, an emergency each way and five plans that must be refused; wake-ups on time or two periods late. Every threshold of `config.h` is crossed and every interleaving of the threads occurs |
| `output` | the mailbox | a sequence that wraps early; the FSM at most `MaxAhead` displays ahead of a worker that does not run. The real sequence wraps after 24 days |
| `latest_value` | the channel | a queue of 3, enough publishes to fill and replace twice over, any number of deaths |
| `engine` | the decision engine | the constants of `decision_constants.h`; all sixteen pairs of demand levels, scores exactly on a threshold, an emergency each way and both |
| `transport` | nothing lost, order and progress between the engine and `ReceivePlan` | a queue of 2 (8 in the code), so full, empty and in between all occur; two plans per start of the decision process and two starts, so that the second start finds the queue full, defers a plan and replaces it; plans of an emergency among the others; any number of starts of the controller; two misses end the service |
| `frames` | owners, images and snapshots, with frames passing between lanes | two lanes over the smallest pool that suffices, nine frames; two captures of one lane and one of the other, so that the second finds the slot full, the preview taken, or a buffer the other lane has used |
| `lifecycle` | start and stop of the perception threads | the four lanes of the code, two of them with sources that end; every subset of them may fail, at any time |
| `lifecycle_stop` | finding: a stop right after the gate is lost, and the join never returns | one lane, the least |
| `detections` | queue length, emergencies and double counting | up to four anchors of twelve, in every order: a group of three and a vehicle apart, two equal groups, three people and a motorcycle all fit; odd borders of the letterbox; a region that begins inside the frame |
| `failed_inference` | finding: a failed inference is published as an empty road | the instance of `detections` with two anchors |
| `health` | supervision of the three main loops | the periods, ranges and tolerance of the three reporters in ticks of 500 ms or, for perception, 50 ms; every pattern of lateness up to the bounds above; perception's longest interval shortened to what just fits its loop |
| `run_target` | starting and stopping the system | two helpers of two attempts (50 in the script) and one operator who stops, so that a late answer, a second request, a stale helper and a stop are in the socket together; a socket of two |

### Fairness

- Each thread is scheduled: weak fairness of its own steps. Plans, stop requests,
  failures, deaths and spurious wake-ups may never happen.
- The deadline of a timed wait is absolute, so however often the wait is
  interrupted it expires: `DeadlinesPass`, strong fairness of `FsmTimeout`, which
  `GreensAlternate` alone assumes.
- `TransportLiveSpec`: each end that runs takes its steps; a message that waits is
  received unless every receive is interrupted or fails, which is strong fairness of
  `ReceiveMessage`. Nothing has to be started, stopped or to fail.
- The perception threads are scheduled and their loops test their flags once a
  period: weak fairness of each thread. Streams need not end and nothing has to
  fail, but a worker that prepares either arrives or fails.
- `HealthSupervision`: time passes, the monitor's worker and a loop that is not stuck
  go on. `RunTargetControl`: the daemon polls, the launch manager bounds transitions and
  stops, and the deadlines of each client pass; that the launch manager starts the daemon
  in the end is the only thing assumed of what is not in the repository.
- The lock of a latest-value queue is held for microseconds and tried once per
  period: strong fairness of taking it.

`GreensAlternate` is conditional on emergencies ending: an unbroken series of them
extends one green for ever, which the code allows.

## 4. The proofs

Every theorem follows one argument: an inductive invariant, the three facts about
it, and a temporal step. Theorems about values that a step assigns rest on lemmas
about the operators, stated for arbitrary values.

- `SignalControllerProofs`. The invariants the runs check are not inductive: the
  strengthening ties `fsmPc` to the kind of the running phase, the announced phase
  to the index (equal except between the two critical sections of `advancePhase`),
  the moving group to the position in the plan, and the waiter to `fsmPc`. From
  it follow the named theorems, both refinements of `TrafficLights`, and
  `NeverBothOpen`, the safety of the crossing. No bound of the runs enters:
  plans, lateness and limits are arbitrary.
- Of the output, in the same module, `CoreUnchanged` shows that the composition implements the
  core, so all of the above holds with the output attached; then the mailbox
  invariants, whose strengthening says, for each pair of positions in `submit()`
  and `run()`, what flag and semaphore together guarantee. The freshness of
  sequence numbers that wrap needs `ahead < kSequenceMask`.
- `CountdownIsHonest`, there too, relates the last display to the state that the next
  one will be made of: while the tick runs, the display shows what is left of the phase;
  when a phase has ended it shows at most what a tick may take; and once the next phase
  has begun it shows that much of the phase before. `CountdownTable` has the countdown of
  a group in closed form for each of the six positions, from which it follows that a lamp
  that stays has the same countdown on both sides of a change of phase. After a shutdown
  request the wait counts nothing and the countdown would stand still; that nothing is
  displayed then needs the order in which the application stops (`EndsBeforeShutdown`).
  The one hypothesis, `LatenessBounded`, gives the wake-ups a largest lateness.
- `LatestValueQueueProofs`. Who holds the lock, what may be queued, in strictly
  increasing order, and that the consumer drains the queue it locked; then the
  refinement of `LatestValue`, action by action, for every depth of at least two.
- `PlanTransportProofs` first treats the decision engine. The arithmetic of the
  proportional reduction: a rounded-down quotient moves by at most a step when its
  operands do. The assumptions are those of `decision_constants.h` in general form.
- `GreensSettle`, there too. The distance of a green to its target shrinks by a step per
  cycle as long as the reduction takes nothing; when it does take, it shares the excess so
  that at most half of it, and half of the larger distance, is left (`HalfOfExcess`).
  `Settling` bounds the distance after each cycle by a sequence that ends at one step at most,
  from where a green rests. TLC evaluates `Settling` for the constants of the code.
- Then the service and the queue, for every depth, number of restarts and set of snapshots.
  The invariant is about stamps (instance, sequence): the queue rises, the message
  that waits comes after it, everything the receiver has had comes before it, and
  the next stamp of the publisher is after all of these, also across a restart. It
  carries the limits of the engine along with every message, so
  `HandedPlansAccepted` follows: the controller's `ValidatePlan` accepts every plan
  handed over that does not ask for both emergencies. That a drain loses nothing
  needs that a candidate is the newest message once the queue is empty.

- `PerceptionFramesProofs`. For every number of lanes, every pool of more than four
  frames a lane and any number of captures. The invariant says in which position
  which thread holds a frame, and that each frame is in one place; with a free list
  whose places never end, every step exchanges what two places hold, and one lemma
  about that exchange serves them all. If a worker found the pool empty, all frames
  would be in the `4 * NUM_LANES` other places: the pigeonhole principle gives
  `PoolSuffices`. `SnapshotsGoForward` adds that a slot is newer than what was
  taken from it. `PicturesAreRight` needs to know why a preview can be trusted: while
  a lane has shown nothing, its preview is the newest frame on the way from its
  worker to the viewer, which nobody can have released.

- `PerceptionLifecycleProofs`. For every number of lanes. While nobody has cancelled,
  the count of the gate is the number of threads that wait at it or are past it, so
  that it opens when these are all (`StartTogether`); a cancel can only come from a
  thread that has not arrived, or from the main thread before it releases, hence
  never after the opening. `NoneIsLeft` adds which threads exist.

- `RunTargetControlProofs`. For any number of attempts and operators and any capacity
  of the socket. A request is in one place, not made yet, in the socket, with the launch
  manager, or over (`OnePlace`); so what a negative answer says cannot become untrue later
  (`AnswerTrue`), and an exit code repeats an answer (`StageTrue`). `Put` and `Taken`
  say what `Append` and `Tail` do to the requests in a socket.

- `DetectionsProofs`. First the letterbox, for every size of frame and input: the resized
  frame and the two rounded borders fill the input exactly (`InputFilled`), and what comes
  back is in the frame and in order (`BoxInFrame`). They are lemmas about rounded quotients,
  in integers; the code computes in floats.
- Then the boxes, for every palette, answer, threshold and region. Sorting by a key lists
  every index once (`OrderedLists`): an index that comes before another one has fewer before
  it, so the ranks are as many as the indices. What the suppression keeps exists for every
  sequence of boxes (`KernelExists`), found in the order of the ranks, because what suppresses
  a box has a smaller one. A sequence that `Picks` from another inherits that none of its
  boxes overlap; the riders are placed where persons were, none of which is a vehicle of the
  lane itself (`RidersApart`), and so `NothingCountedTwice`. `TrueTo` says of a backend what
  both theorems need, and `EmergencyReported` follows: a box that the suppression drops is
  covered by one it keeps. Its hypothesis is `EmergencyIsCounted`.
- Then the queue. After each vehicle the scan knows that its present run has no gap and
  that no run before it is longer than the best (`ScanKnows`); a run that crosses the begin
  of the present one would contain a gap, and one that starts later in it is shorter
  (`SuffixNoLonger`), so the best cluster at the end is a longest run (`BestIsLongest`). Runs
  and subsets meet in two lemmas: a run is a group without a gap (`RunIsContinuous`), and a
  group without a gap lies in a run that begins and ends with vehicles of it (`GroupInRun`),
  else the vehicles next to the gap would need a third between them. Counting the members
  gives `QueueIsLongest`. The sums and the scan are recursive functions, whose
  existence `Recursion` proves with the least counterexample.

- `HealthSupervisionProofs`. For every period, work, lateness, range and tolerance with
  `Bearable`: the range leaves room for the shortest and the longest time from one
  heartbeat to the next. TLC evaluates it for the constants of the three processes. The
  invariant looks ahead from where the loop stands: if every release from now on were met
  as early as it can be, the next heartbeat would still not come too soon, and if all were
  met as late as they can be, not too late (`NotTooSoon`, `NotTooLate`). The release grids
  need remainders: a release that was missed is not made up for, so lateness brings a
  heartbeat less than a period closer to the next one. `NothingHeldHolds` follows the order
  of each `Initialize`: the process holds the first `n` of what it acquires, and the path
  taken when the next one fails gives back all of these.

The type invariants are proved and not repeated in the runs.

Every invariant that a run checks and expects to hold is also a theorem. Only model-checked
are the liveness properties, which are out of the prover's reach.

## 5. What the models leave out

- Errors of mutexes and condition variables, and an exception in the warm-up of the
  perception pipeline, which would end the process.
- Floats: scores are exact in tenths and boxes in rows; how the code rounds at a
  threshold is not. The occupancy of a lane is a count of pixels; the region of interest
  is a band of rows, its slanted sides are not modelled.
- What the network sees, the ONNX session and its thread pool.
- Wording and logging, the ring of wake-up samples and its statistics, the timing
  reports; `analytics.cpp` and `timeline_analyzer.cpp`, which read log files offline.
- The launch manager and the deadline half of the health monitor, which are not in this
  repository; of the former `RunTargetControl` has what its clients see, of the latter
  `HealthSupervision` has the heartbeat half that the repository patches.
- The viewer's drawing and the age of the signal state it shows.
- A publisher's `kDeferred` value is described by its log line as sent with the
  next snapshot; the next publish replaces it. The model does what the code does.
- A plan is loaded at the end of an all-red (`signal_fsm_engine.cpp:124`), which the
  comment at `plan_sync_channel.h:58` describes as its start. A cycle without a new frame
  publishes the metrics of the old ones under a new number. The models do both as the
  code does.
- The comment at `signal_fsm_engine.cpp:391-395` gives the emergency window as 5 s to
  10 s; the code compares with the 3 s and 15 s of `config.h:31-32`, and so does the
  model.
- Plans of an emergency in both directions are refused by the controller, so
  neither is served: `ControllerAccepts` states it as the contract.

## 6. Plan

Next, in the order of importance.

1. `snapshot_sender.cpp` and the watermark of the receiver at the other end, extending
   `DecisionService` within the instance of `transport`.
2. The viewer's signal state and its age; the ring of wake-up samples.
3. An end-to-end composition: a demand seen by perception reaches the lamps, over the
   abstract specifications (`LatestValue`, `TrafficLights`) of the parts.
