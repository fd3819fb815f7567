------------------------- MODULE HealthSupervision --------------------------
(***************************************************************************)
(* The supervised main loop of each of the three applications, its health  *)
(* reporter, and the heartbeat monitor of the platform as the repository   *)
(* patches it (lifecycle_heartbeat_tolerance.patch):                       *)
(*   controller   signal_control_app.cpp, common/health_reporter.cpp       *)
(*   decision     timing_decision_application.cpp, periodic_service.cpp,   *)
(*                health_reporter.cpp                                      *)
(*   perception   traffic_perception_application.cpp,                      *)
(*                lifecycle_health_reporter.cpp                            *)
(* A behaviour is one process of one of them, from Initialize to the       *)
(* return of Run.  What a cycle does is in the other modules; here it      *)
(* takes time, and may fail.                                               *)
(*                                                                         *)
(* Time passes in ticks of a length that the constants choose; every time  *)
(* is kept relative to now.  A loop that is not stuck wakes up at most     *)
(* MaxLateness after its release, and is done with its work at most        *)
(* MaxWork after it.                                                       *)
(***************************************************************************)
EXTENDS Integers, Sequences, FiniteSets, Functions

CONSTANTS
  Supervised,        (* the applications to look at                        *)
  Period,            (* of each: between two releases                      *)
  kHeartbeatCycleInterval,  (* of each: a heartbeat every so many releases *)
  kHeartbeatMin, kHeartbeatMax, kInternalProcessingCycle,   (* of each     *)
  HEARTBEAT_FAILURE_TOLERANCE,
  MaxLateness,       (* bound of each: from a release to the wake-up       *)
  MaxWork,           (* bound of each: from a release to the end of work   *)
  MaxEvalDelay       (* bound: lateness of the monitor                     *)

Apps == {"controller", "decision", "perception"}

ASSUME HealthAssumption ==
  /\ Supervised \subseteq Apps
  /\ \A f \in {Period, kHeartbeatCycleInterval, kInternalProcessingCycle} :
       f \in [Apps -> Nat \ {0}]
  /\ \A f \in {kHeartbeatMin, kHeartbeatMax, MaxLateness, MaxWork} : f \in [Apps -> Nat]
  /\ \A a \in Apps : kHeartbeatMin[a] <= kHeartbeatMax[a] /\ MaxLateness[a] <= MaxWork[a]
  /\ HEARTBEAT_FAILURE_TOLERANCE \in Nat /\ MaxEvalDelay \in Nat

EXIT_SUCCESS == 0
EXIT_FAILURE == 1

VARIABLES
  app,
  phase,             (* "init", "run" or "ended"                           *)
  held,              (* what the process has acquired and not released     *)
  exitCode,
  stopRequested, workerFailed,
  (* the loop *)
  pc,                (* "wait" for the release or "work"                   *)
  due,               (* time to the release, below 0 when it has passed    *)
  cycle,             (* releases since the last one with a heartbeat       *)
  hung,              (* the loop is stuck for good                         *)
  (* the heartbeat monitor *)
  sinceStart,        (* time since the start of its interval, at most      *)
                     (*   Far                                              *)
  beats,             (* heartbeats since it last looked, 2 for more        *)
  offset, age,       (* of the newest: from the start, and to now          *)
  evalDue,
  failures,          (* consecutive_failures, at most tolerance + 1        *)
  reported

processVars == <<app, phase, held, exitCode, stopRequested, workerFailed>>
loopVars    == <<pc, due, cycle, hung>>
monitorVars == <<sinceStart, beats, offset, age, evalDue, failures, reported>>
vars == <<processVars, loopVars, monitorVars>>

Far == kHeartbeatMax[app] + 1

Init ==
  /\ app \in Supervised /\ phase = "init" /\ held = {} /\ exitCode = EXIT_SUCCESS
  /\ stopRequested = FALSE /\ workerFailed = FALSE
  /\ pc = "wait" /\ due = 0 /\ cycle = 0 /\ hung = FALSE
  /\ sinceStart = 0 /\ beats = 0 /\ offset = 0 /\ age = 0
  /\ evalDue = kInternalProcessingCycle[app] /\ failures = 0 /\ reported = FALSE

-----------------------------------------------------------------------------
(***************************************************************************)
(* Initialize: what it acquires, in order, and what it gives back when one *)
(* of these cannot be had.                                                 *)
(***************************************************************************)

ControlReporter    == <<"monitor", "deadlineMonitor", "heartbeatMonitor", "cycleDeadline">>
DecisionReporter   == <<"monitor", "deadlineMonitor", "heartbeatMonitor", "cycleDeadline">>
PerceptionReporter == <<"monitor", "deadlineMonitor", "heartbeatMonitor", "cycleDeadline">>

(* What HealthReporter::shutdown resets, in each of the three.             *)
ControlReporterStops    == {"deadline"} \cup Range(ControlReporter)
DecisionReporterStops   == {"deadline"} \cup Range(DecisionReporter)
PerceptionReporterStops == {"deadline"} \cup Range(PerceptionReporter)

ServiceAcquires == <<"receiver", "publisher">> \o DecisionReporter
ServiceStops    == {"receiver", "publisher"} \cup DecisionReporterStops

StopOutputWorker == {"outputWorker", "simulator"}

Acquired(a) ==
  CASE a = "controller" -> ControlReporter \o <<"simulator", "outputWorker", "planReceiver", "fsmWorker">>
    [] a = "decision"   -> <<"recorders">> \o ServiceAcquires \o <<"memoryLock">>
    [] a = "perception" -> <<"threads", "viewer">> \o PerceptionReporter

(* Mutant: the output worker is left when the plan receiver cannot start.  *)
ControllerGivesBackMutant(r) ==
  ControlReporterStops \cup
    (CASE r = "outputWorker" -> {"simulator"}
       [] r = "fsmWorker"    -> {"planReceiver"} \cup StopOutputWorker
       [] OTHER              -> {})

ControllerGivesBack(r) ==
  ControlReporterStops \cup
    (CASE r = "outputWorker" -> {"simulator"}
       [] r = "planReceiver" -> StopOutputWorker
       [] r = "fsmWorker"    -> {"planReceiver"} \cup StopOutputWorker
       [] OTHER              -> {})

DecisionGivesBack(r) ==
  {"recorders"} \cup (IF r = "receiver" THEN {}
                      ELSE IF r = "publisher" THEN {"receiver"} ELSE ServiceStops)

PerceptionGivesBack(r) == PerceptionReporterStops \cup {"viewer", "threads"}

GivenBack(r) ==
  CASE app = "controller" -> ControllerGivesBack(r)
    [] app = "decision"   -> DecisionGivesBack(r)
    [] app = "perception" -> PerceptionGivesBack(r)

Following == Acquired(app)[Cardinality(held) + 1]

Initializing == phase = "init" /\ Cardinality(held) < Len(Acquired(app))

Acquire ==
  /\ Initializing
  /\ held' = held \cup {Following}
  /\ UNCHANGED <<app, phase, exitCode, stopRequested, workerFailed, loopVars, monitorVars>>

AcquireFails ==
  /\ Initializing
  /\ held' = held \ GivenBack(Following)
  /\ phase' = "ended" /\ exitCode' = EXIT_FAILURE
  /\ UNCHANGED <<app, stopRequested, workerFailed, loopVars, monitorVars>>

Initialized == phase = "init" /\ Cardinality(held) = Len(Acquired(app))

(* Run begins: the first release of the viewer is a phase away, here a     *)
(* period, like that of the others.                                        *)
RunBegins ==
  /\ Initialized
  /\ phase' = "run" /\ due' = Period[app]
  /\ UNCHANGED <<app, held, exitCode, stopRequested, workerFailed, pc, cycle, hung, monitorVars>>

(* Run returns after everything has been given back; munlockall may fail.  *)
Returns(code) ==
  /\ phase' = "ended" /\ exitCode' = code
  /\ held' \in {{}, held \cap {"memoryLock"}}
  /\ UNCHANGED <<app, stopRequested, workerFailed, pc, due, cycle, hung, monitorVars>>

(* No clock, no affinity: Run of the decision process and of perception    *)
(* fails before its first cycle.                                           *)
RunFails == Initialized /\ app # "controller" /\ Returns(EXIT_FAILURE)

-----------------------------------------------------------------------------
(***************************************************************************)
(* The loop.                                                               *)
(***************************************************************************)

Awake == phase = "run" /\ ~hung

Released == Awake /\ pc = "wait" /\ due <= 0 /\ ~stopRequested

heartbeat ==
  /\ beats' = IF beats = 0 THEN 1 ELSE 2
  /\ offset' = sinceStart /\ age' = 0
  /\ UNCHANGED <<sinceStart, evalDue, failures, reported>>

(* The cycle's work is on, with its deadline open or, where the viewer     *)
(* only refreshes the signal overlay, without.                             *)
Works(open) ==
  /\ pc' = "work" /\ held' = held \cup open
  /\ UNCHANGED <<app, phase, exitCode, stopRequested, workerFailed, due, hung>>

startControlCycle ==
  /\ app = "controller" /\ Released /\ "deadline" \notin held
  /\ IF cycle = 0 THEN heartbeat ELSE UNCHANGED monitorVars
  /\ cycle' = (cycle + 1) % kHeartbeatCycleInterval[app]
  /\ Works({"deadline"})

startDecisionCycle ==
  /\ app = "decision" /\ Released /\ "deadline" \notin held
  /\ heartbeat /\ UNCHANGED cycle
  /\ Works({"deadline"})

reportHeartbeat == heartbeat

(* Whether a release shows content is left open: it depends on the period  *)
(* of the viewer.                                                          *)
startPerceptionCycle ==
  /\ app = "perception" /\ Released /\ "deadline" \notin held
  /\ reportHeartbeat /\ UNCHANGED cycle
  /\ \E open \in {{}, {"deadline"}} : Works(open)

(* The library refuses the deadline.                                       *)
StartCycleFails == Released /\ Returns(EXIT_FAILURE)

(* Mutant: missed releases are made up for, one after the other.           *)
ControlReleaseMutant == due + Period[app]

(* The release that follows one `due` from now.                            *)
ControlRelease == IF due + Period[app] <= 0 THEN Period[app] ELSE due + Period[app]

DecisionRelease == CHOOSE t \in 1..Period[app] : (t - due) % Period[app] = 0

PerceptionRelease == IF due + Period[app] < 0 THEN Period[app] ELSE due + Period[app]

Waits(release) ==
  /\ pc' = "wait" /\ due' = release /\ held' = held \ {"deadline"}
  /\ UNCHANGED <<app, phase, exitCode, stopRequested, workerFailed, cycle, hung, monitorVars>>

Working(a) == Awake /\ app = a /\ pc = "work"

(* Mutant: the cycle goes on without a look at the workers.                *)
finishControlCycleMutant == Working("controller") /\ Waits(ControlRelease)

finishControlCycle == Working("controller") /\ ~workerFailed /\ Waits(ControlRelease)

finishDecisionCycle == Working("decision") /\ Waits(DecisionRelease)

finishPerceptionCycle == Working("perception") /\ Waits(PerceptionRelease)

(* A worker has failed, the decision cycle fails, rendering throws.        *)
CycleFails ==
  /\ \/ Working("controller") /\ workerFailed
     \/ Working("decision")
     \/ Working("perception")
  /\ Returns(EXIT_FAILURE)

(* The wait of the decision process is not cut short by a stop.            *)
Stops ==
  /\ Awake /\ pc = "wait" /\ stopRequested
  /\ app = "decision" => due <= 0
  /\ Returns(EXIT_SUCCESS)

LoopStep ==
  \/ startControlCycle \/ startDecisionCycle \/ startPerceptionCycle \/ StartCycleFails
  \/ finishControlCycle \/ finishDecisionCycle \/ finishPerceptionCycle
  \/ CycleFails \/ Stops

RequestStop ==
  /\ phase = "run" /\ ~stopRequested
  /\ stopRequested' = TRUE
  /\ UNCHANGED <<app, phase, held, exitCode, workerFailed, loopVars, monitorVars>>

(* fsmFailed_ or planReceiverFailed_.                                      *)
WorkerFails ==
  /\ phase = "run" /\ app = "controller" /\ ~workerFailed
  /\ workerFailed' = TRUE
  /\ UNCHANGED <<app, phase, held, exitCode, stopRequested, loopVars, monitorVars>>

(* The loop is stuck: in a lock, a system call, a call of a library.       *)
Hangs ==
  /\ Awake
  /\ hung' = TRUE
  /\ UNCHANGED <<processVars, pc, due, cycle, monitorVars>>

-----------------------------------------------------------------------------
(***************************************************************************)
(* The monitor's worker and the clock.                                     *)
(***************************************************************************)

Failure ==
  /\ failures' = IF failures > HEARTBEAT_FAILURE_TOLERANCE THEN failures ELSE failures + 1
  /\ reported' = (reported \/ failures' > HEARTBEAT_FAILURE_TOLERANCE)

InRange == failures' = 0 /\ UNCHANGED reported

(* Mutant: the interval starts anew when no heartbeat has come in time.    *)
NoHeartbeatMutant ==
  /\ IF sinceStart > kHeartbeatMax[app]
     THEN failures' = 1 /\ reported' = reported ELSE UNCHANGED <<failures, reported>>
  /\ UNCHANGED sinceStart

NoHeartbeat ==
  /\ IF sinceStart > kHeartbeatMax[app] THEN Failure ELSE UNCHANGED <<failures, reported>>
  /\ UNCHANGED sinceStart

(* The next interval starts at the newest heartbeat, in range or not.      *)
evaluate ==
  /\ phase = "run" /\ evalDue <= 0
  /\ evalDue' = kInternalProcessingCycle[app]
  /\ \/ beats = 0 /\ NoHeartbeat
     \/ /\ beats = 1 /\ offset \in kHeartbeatMin[app]..kHeartbeatMax[app]
        /\ InRange /\ sinceStart' = age
     \/ /\ beats = 1 => offset \notin kHeartbeatMin[app]..kHeartbeatMax[app]
        /\ beats # 0
        /\ Failure /\ sinceStart' = age
  /\ beats' = 0 /\ offset' = 0 /\ age' = 0
  /\ UNCHANGED <<processVars, loopVars>>

Tick ==
  /\ phase = "run"
  /\ hung \/ due > -(IF pc = "wait" THEN MaxLateness[app] ELSE MaxWork[app])
  /\ evalDue > -MaxEvalDelay
  /\ due' = IF hung THEN due ELSE due - 1
  /\ evalDue' = evalDue - 1
  /\ sinceStart' = IF sinceStart = Far THEN Far ELSE sinceStart + 1
  /\ age' = IF beats = 0 THEN 0 ELSE age + 1
  /\ UNCHANGED <<processVars, pc, cycle, hung, beats, offset, failures, reported>>

-----------------------------------------------------------------------------
Next ==
  \/ Acquire
  \/ AcquireFails
  \/ RunBegins
  \/ RunFails
  \/ LoopStep
  \/ RequestStop
  \/ WorkerFails
  \/ Hangs
  \/ evaluate
  \/ Tick

Spec == Init /\ [][Next]_vars

(* Time passes, and what is not stuck goes on.                             *)
LiveSpec ==
  Spec /\ WF_vars(Tick) /\ WF_vars(evaluate) /\ WF_vars(LoopStep)
       /\ WF_vars(Acquire \/ AcquireFails \/ RunBegins \/ RunFails)

-----------------------------------------------------------------------------
(***************************************************************************)
(* Properties.                                                             *)
(***************************************************************************)

(* Releases from one heartbeat to the next: only the controller counts.    *)
HeartbeatEvery(a) == IF a = "controller" THEN kHeartbeatCycleInterval[a] ELSE 1

(* How much closer a late wake-up brings a heartbeat to the next one: less *)
(* than a period, since a release that was missed is not made up for (a    *)
(* whole one for perception, where a release that is due is not missed).   *)
CatchUp(a) ==
  LET most == IF a = "perception" THEN Period[a] ELSE Period[a] - 1
  IN  IF MaxLateness[a] < most THEN MaxLateness[a] ELSE most

(* The shortest and the longest time from one heartbeat to the next.       *)
Shortest(a) == HeartbeatEvery(a) * Period[a] - CatchUp(a)
Longest(a)  == HeartbeatEvery(a) * (MaxWork[a] + Period[a] + MaxLateness[a])

(* The range of the monitor leaves room for that much lateness.            *)
Bearable(a) ==
  /\ kHeartbeatMin[a] <= Period[a] /\ kHeartbeatMin[a] <= Shortest(a)
  /\ Longest(a) <= kHeartbeatMax[a]
  /\ kInternalProcessingCycle[a] + MaxEvalDelay < Shortest(a)

(* A process that is merely late is not reported: while its loop wakes up  *)
(* within MaxLateness and works within MaxWork of each release, and the    *)
(* monitor looks within MaxEvalDelay of its own, heartbeats too early, too *)
(* late or too close together never add up to more than the tolerance,     *)
(* whatever the pattern: a release that was missed is not made up for.     *)
NoFalseAlarm == reported => hung

(* A process that ends, in Initialize or in Run, has given back all it     *)
(* held, whatever could not be acquired: no worker outlives the monitor,   *)
(* no deadline stays open.  (The pages of the decision process stay locked *)
(* when munlockall fails.)                                                 *)
NothingHeld == phase = "ended" => held \subseteq {"memoryLock"}

(* A loop that is stuck is reported.                                       *)
HangReported == hung ~> reported

(* A worker of the controller that has failed ends the process, unless the *)
(* loop itself is stuck, and with a failure if no stop came first.         *)
WorkerFailureEnds ==
  (phase = "run" /\ workerFailed) ~>
    (hung \/ (phase = "ended" /\ (exitCode = EXIT_FAILURE \/ stopRequested)))

=============================================================================
