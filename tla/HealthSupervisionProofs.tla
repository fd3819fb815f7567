---------------------- MODULE HealthSupervisionProofs -----------------------
(***************************************************************************)
(* Theorems about HealthSupervision: for every period, range and lateness  *)
(* that the range of the heartbeats leaves room for, and for every cycle   *)
(* interval, tolerance and delay of the monitor.                           *)
(***************************************************************************)
EXTENDS HealthSupervision, FiniteSetTheorems, TLAPS

(* The type invariant.                                                     *)
HealthTypes ==
  /\ app \in Supervised /\ phase \in {"init", "run", "ended"}
  /\ pc \in {"wait", "work"} /\ due \in Int
  /\ cycle \in 0..(HeartbeatEvery(app) - 1) /\ hung \in BOOLEAN
  /\ sinceStart \in Nat /\ beats \in 0..2 /\ offset \in Nat /\ age \in Nat
  /\ evalDue \in Int /\ failures \in Nat /\ reported \in BOOLEAN

-----------------------------------------------------------------------------
(* The release after one that is d away, by application.                   *)
NextRelease(a, d) ==
  CASE a = "decision"   -> CHOOSE t \in 1..Period[a] : (t - d) % Period[a] = 0
    [] a = "controller" -> IF d + Period[a] <= 0 THEN Period[a] ELSE d + Period[a]
    [] a = "perception" -> IF d + Period[a] < 0 THEN Period[a] ELSE d + Period[a]

(* The time since the newest heartbeat or, before the first, since the     *)
(* start; the releases from the next one to the one with a heartbeat; and  *)
(* the next release, were the work done now.                               *)
SinceBeat == IF beats = 0 THEN sinceStart ELSE age
Left      == IF cycle = 0 THEN 0 ELSE HeartbeatEvery(app) - cycle
Coming    == IF pc = "wait" THEN due ELSE NextRelease(app, due)

(* A cycle takes at most so long.                                          *)
CycleMax(a) == MaxWork[a] + Period[a] + MaxLateness[a]

(* Were every release from here on met as early as it can be, the next     *)
(* heartbeat would still not come too soon.                                *)
NotTooSoon ==
  \/ pc = "wait" /\ cycle = 0 /\ beats = 0 /\ sinceStart + due = Period[app]
  \/ Coming + SinceBeat + Left * Period[app] >= Shortest(app)

(* Were all of them met as late as they can be, it would not be too late.  *)
NotTooLate ==
  SinceBeat + (IF pc = "wait" THEN due + MaxLateness[app] ELSE due + CycleMax(app))
    + Left * CycleMax(app) <= Longest(app)

WithinBounds ==
  IF pc = "wait" THEN due >= -MaxLateness[app] ELSE due \in (-MaxWork[app])..0

(* The monitor has at most one heartbeat to look at, and that in range.    *)
BeatInRange ==
  /\ evalDue >= -MaxEvalDelay /\ evalDue <= kInternalProcessingCycle[app]
  /\ beats # 2
  /\ beats = 1 => /\ offset \in kHeartbeatMin[app]..kHeartbeatMax[app]
                  /\ age + evalDue <= kInternalProcessingCycle[app]

OnTime == NotTooSoon /\ NotTooLate /\ WithinBounds /\ BeatInRange

Fresh ==
  /\ pc = "wait" /\ cycle = 0 /\ ~hung /\ sinceStart = 0 /\ beats = 0
  /\ evalDue = kInternalProcessingCycle[app]

(* While the loop is not stuck, the monitor has nothing to count.          *)
HealthInv ==
  /\ HealthTypes
  /\ phase = "init" => Fresh
  /\ ~hung => failures = 0 /\ ~reported
  /\ phase = "run" /\ ~hung => OnTime

-----------------------------------------------------------------------------
(* What a remainder is.                                                    *)
LEMMA Remainder ==
  ASSUME NEW n \in Int, NEW d \in Nat \ {0}
  PROVE  /\ n \div d \in Int /\ n % d \in 0..(d - 1)
         /\ n = d * (n \div d) + (n % d)
  OBVIOUS

(* Of numbers less than d apart that leave the same remainder, there is    *)
(* but one.                                                                *)
LEMMA SameRemainder ==
  ASSUME NEW m \in Int, NEW n \in Int, NEW d \in Nat \ {0},
         m % d = n % d, m - n < d, n - m < d
  PROVE  m = n
<1> DEFINE p == m \div d
           q == n \div d
<1>1. p \in Int /\ q \in Int /\ m - n = d * p - d * q
  <2>1. m = d * p + (m % d) /\ n = d * q + (n % d) /\ n % d \in Int /\ p \in Int /\ q \in Int
    BY Remainder
  <2> HIDE DEF p, q
  <2>2. d * p \in Int /\ d * q \in Int
    BY <2>1
  <2> QED
    BY <2>1, <2>2
<1>2. d * p - d * q = d * (p - q)
  BY <1>1
<1> HIDE DEF p, q
<1>3. p - q < 1 /\ q - p < 1
  <2>1. d * (p - q) < d * 1 /\ d * (q - p) < d * 1
    BY <1>1, <1>2
  <2> QED
    BY <1>1, <2>1
<1> QED
  BY <1>1, <1>3

(* The multiples of d, and they only, leave no remainder.                  *)
LEMMA MultipleRemainder ==
  ASSUME NEW m \in Int, NEW d \in Nat \ {0}
  PROVE  (d * m) % d = 0
<1> DEFINE q == (d * m) \div d
           r == (d * m) % d
<1>1. d * m \in Int
  OBVIOUS
<1>2. q \in Int /\ r \in 0..(d - 1) /\ d * m = d * q + r
  BY <1>1, Remainder
<1> HIDE DEF q, r
<1>3. d * (m - q) = r
  BY <1>2
<1>4. m - q < 1 /\ -1 < m - q
  <2>1. d * (m - q) < d * 1 /\ d * (-1) < d * (m - q)
    BY <1>2, <1>3
  <2> QED
    BY <1>2, <2>1
<1> QED
  BY <1>2, <1>3, <1>4 DEF r

(* What leaves no remainder is a multiple.                                 *)
LEMMA NoRemainder ==
  ASSUME NEW n \in Int, NEW d \in Nat \ {0}, n % d = 0
  PROVE  \E k \in Int : n = d * k
<1>1. n \div d \in Int /\ n = d * (n \div d) + 0
  BY Remainder
<1> QED
  BY <1>1

(* Adding a multiple changes no remainder.                                 *)
LEMMA ShiftedRemainder ==
  ASSUME NEW t \in Int, NEW u \in Int, NEW d \in Nat \ {0},
         t % d = 0, u % d = 0
  PROVE  (t - u) % d = 0
<1>1. PICK p \in Int : t = d * p
  BY NoRemainder
<1>2. PICK q \in Int : u = d * q
  BY NoRemainder
<1>3. t - u = d * (p - q)
  BY <1>1, <1>2
<1> QED
  BY <1>3, MultipleRemainder

(* advancePastNow finds the release: one multiple of the period away from  *)
(* the last, in the future, and at most a period ahead.                    *)
LEMMA DecisionReleaseExists ==
  ASSUME NEW d \in Int, NEW p \in Nat \ {0}
  PROVE  \E t \in 1..p : (t - d) % p = 0
<1> DEFINE r == d % p
           q == d \div p
<1>1. q \in Int /\ r \in 0..(p - 1) /\ d = p * q + r
  BY Remainder
<1> HIDE DEF q, r
<1>2. CASE r = 0
  <2>1. p - d = p * (1 - q)
    BY <1>1, <1>2
  <2> QED
    BY <1>1, <2>1, MultipleRemainder
<1>3. CASE r # 0
  <2>1. r - d = p * (-q)
    BY <1>1
  <2>2. r \in 1..p /\ -q \in Int
    BY <1>1, <1>3
  <2> QED
    BY <2>1, <2>2, MultipleRemainder
<1> QED
  BY <1>2, <1>3

(* The constants of an application.                                        *)
LEMMA Constants ==
  ASSUME NEW a \in Apps
  PROVE  /\ Period[a] \in Nat \ {0} /\ HeartbeatEvery(a) \in Nat \ {0}
         /\ kInternalProcessingCycle[a] \in Nat \ {0} /\ MaxEvalDelay \in Nat
         /\ kHeartbeatMin[a] \in Nat /\ kHeartbeatMax[a] \in Nat
         /\ MaxLateness[a] \in Nat /\ MaxWork[a] \in Nat /\ MaxLateness[a] <= MaxWork[a]
         /\ CatchUp(a) \in Nat /\ CatchUp(a) <= MaxLateness[a] /\ CatchUp(a) <= Period[a]
         /\ CycleMax(a) \in Nat /\ CycleMax(a) = MaxWork[a] + Period[a] + MaxLateness[a]
         /\ Shortest(a) \in Int /\ Shortest(a) = HeartbeatEvery(a) * Period[a] - CatchUp(a)
         /\ Longest(a) \in Int /\ Longest(a) = HeartbeatEvery(a) * CycleMax(a)
<1>1. /\ Period \in [Apps -> Nat \ {0}] /\ kHeartbeatCycleInterval \in [Apps -> Nat \ {0}]
      /\ kInternalProcessingCycle \in [Apps -> Nat \ {0}] /\ MaxEvalDelay \in Nat
      /\ kHeartbeatMin \in [Apps -> Nat] /\ kHeartbeatMax \in [Apps -> Nat]
      /\ MaxLateness \in [Apps -> Nat] /\ MaxWork \in [Apps -> Nat]
      /\ MaxLateness[a] <= MaxWork[a]
  BY HealthAssumption
<1>2. /\ Period[a] \in Nat \ {0} /\ HeartbeatEvery(a) \in Nat \ {0}
      /\ kInternalProcessingCycle[a] \in Nat \ {0}
      /\ kHeartbeatMin[a] \in Nat /\ kHeartbeatMax[a] \in Nat
      /\ MaxLateness[a] \in Nat /\ MaxWork[a] \in Nat
  BY <1>1 DEF HeartbeatEvery
<1>3. CatchUp(a) \in Nat /\ CatchUp(a) <= MaxLateness[a] /\ CatchUp(a) <= Period[a]
  BY <1>2 DEF CatchUp
<1>4. CycleMax(a) \in Nat /\ CycleMax(a) = MaxWork[a] + Period[a] + MaxLateness[a]
  BY <1>2 DEF CycleMax
<1>5. Shortest(a) \in Int /\ Shortest(a) = HeartbeatEvery(a) * Period[a] - CatchUp(a)
  BY <1>2, <1>3 DEF Shortest
<1>6. Longest(a) \in Int /\ Longest(a) = HeartbeatEvery(a) * CycleMax(a)
  BY <1>2, <1>4 DEF Longest, CycleMax
<1> QED
  BY <1>1, <1>2, <1>3, <1>4, <1>5, <1>6

(* The next release of the decision process is the one of its grid.        *)
LEMMA DecisionReleaseIs ==
  ASSUME NEW d \in Int, NEW p \in Nat \ {0}, NEW u \in 1..p, (u - d) % p = 0
  PROVE  (CHOOSE t \in 1..p : (t - d) % p = 0) = u
<1> DEFINE t == CHOOSE x \in 1..p : (x - d) % p = 0
<1>1. t \in 1..p /\ (t - d) % p = 0
  BY DecisionReleaseExists
<1> HIDE DEF t
<1>2. (t - d) - (u - d) = t - u /\ t - d \in Int /\ u - d \in Int
  BY <1>1
<1>3. (t - u) % p = 0
  <2>1. ((t - d) - (u - d)) % p = 0
    BY <1>1, <1>2, ShiftedRemainder
  <2> QED
    BY <1>2, <2>1
<1>4. 0 % p = 0
  BY Remainder
<1>5. t - u = 0
  BY <1>1, <1>3, <1>4, SameRemainder
<1>6. t = u
  BY <1>1, <1>5
<1> QED
  BY <1>6 DEF t

(* A release lies ahead, at most a period, and not closer to the last than *)
(* a period unless that has been missed.                                   *)
LEMMA NextReleaseAhead ==
  ASSUME NEW a \in Apps, NEW d \in Int, d <= 0
  PROVE  /\ NextRelease(a, d) \in 0..Period[a] /\ NextRelease(a, d) >= d + Period[a]
         /\ a # "perception" => NextRelease(a, d) >= 1
<1> DEFINE p == Period[a]
<1>1. p \in Nat \ {0}
  BY Constants
<1>2. CASE a = "decision"
  <2>1. NextRelease(a, d) \in 1..p /\ (NextRelease(a, d) - d) % p = 0
    BY <1>1, <1>2, DecisionReleaseExists DEF NextRelease
  <2>2. CASE d + p >= 1
    <3>1. (d + p) - d = p * 1 /\ d + p \in 1..p
      BY <1>1, <2>2
    <3>2. ((d + p) - d) % p = 0
      BY <1>1, <3>1, MultipleRemainder
    <3>3. NextRelease(a, d) = d + p
      BY <1>1, <1>2, <3>1, <3>2, DecisionReleaseIs DEF NextRelease
    <3> QED
      BY <1>1, <2>1, <3>3
  <2> QED
    BY <1>1, <2>1, <2>2
<1>3. CASE a = "controller"
  BY <1>1, <1>3 DEF NextRelease
<1>4. CASE a = "perception"
  BY <1>1, <1>4 DEF NextRelease
<1> QED
  BY <1>2, <1>3, <1>4 DEF Apps

(* A release is a time.                                                    *)
LEMMA NextReleaseInt ==
  ASSUME NEW a \in Apps, NEW d \in Int
  PROVE  NextRelease(a, d) \in Int
<1>1. Period[a] \in Nat \ {0}
  BY Constants
<1>2. CASE a = "decision"
  BY <1>1, <1>2, DecisionReleaseExists DEF NextRelease
<1>3. CASE a = "controller" \/ a = "perception"
  BY <1>1, <1>3 DEF NextRelease
<1> QED
  BY <1>2, <1>3 DEF Apps

(* A late wake-up brings the next release no closer than CatchUp.          *)
LEMMA NextReleaseCatchesUp ==
  ASSUME NEW a \in Apps, NEW d \in (-MaxLateness[a])..0
  PROVE  NextRelease(a, d) >= Period[a] - CatchUp(a)
<1>1. d \in Int /\ d <= 0 /\ d >= -MaxLateness[a]
  BY Constants
<1>2. NextRelease(a, d) \in Int /\ Period[a] \in Nat \ {0} /\ MaxLateness[a] \in Nat
  BY <1>1, NextReleaseAhead, Constants
<1>3. /\ NextRelease(a, d) >= 0 /\ NextRelease(a, d) >= d + Period[a]
      /\ a # "perception" => NextRelease(a, d) >= 1
  BY <1>1, NextReleaseAhead, Constants
<1> HIDE DEF NextRelease
<1> QED
  BY <1>1, <1>2, <1>3 DEF CatchUp

(* While the work goes on, the next release never comes closer by more     *)
(* than the time that passes.                                              *)
LEMMA NextReleaseKeepsPace ==
  ASSUME NEW a \in Apps, NEW d \in Int, d <= 0
  PROVE  NextRelease(a, d - 1) + 1 >= NextRelease(a, d)
<1> DEFINE p == Period[a]
<1>1. p \in Nat \ {0} /\ d - 1 \in Int
  BY Constants
<1>2. CASE a = "decision"
  <2> DEFINE t == NextRelease(a, d)
  <2>1. t \in 1..p /\ (t - d) % p = 0
    BY <1>1, <1>2, DecisionReleaseExists DEF NextRelease
  <2>2. CASE t >= 2
    <3>1. t - 1 \in 1..p /\ (t - 1) - (d - 1) = t - d
      BY <1>1, <2>1, <2>2
    <3>2. ((t - 1) - (d - 1)) % p = 0
      BY <2>1, <3>1
    <3>3. (CHOOSE x \in 1..p : (x - (d - 1)) % p = 0) = t - 1
      BY <1>1, <3>1, <3>2, DecisionReleaseIs
    <3>4. NextRelease(a, d - 1) = t - 1
      BY <1>2, <3>3 DEF NextRelease
    <3> HIDE DEF t
    <3> QED
      BY <2>1, <3>4 DEF t
  <2>3. NextRelease(a, d - 1) \in 0..p
    BY <1>1, NextReleaseAhead
  <2> QED
    BY <1>1, <2>1, <2>2, <2>3
<1>3. CASE a = "controller"
  BY <1>1, <1>3 DEF NextRelease
<1>4. CASE a = "perception"
  BY <1>1, <1>4 DEF NextRelease
<1> QED
  BY <1>2, <1>3, <1>4 DEF Apps

-----------------------------------------------------------------------------
(* The steps of the loop and of the monitor, as the invariant sees them.   *)
(* Released, the cycle begins, with a heartbeat whenever it is its turn.   *)
Starts ==
  \/ startControlCycle \/ startDecisionCycle \/ startPerceptionCycle

Finishes ==
  \/ finishControlCycle \/ finishDecisionCycle \/ finishPerceptionCycle

(* An end leaves the verdict of the monitor as it is.                      *)
Ends == phase' = "ended" /\ UNCHANGED <<app, pc, due, cycle, hung, monitorVars>>

(* The start of a cycle consumes a release; the first of every             *)
(* HeartbeatEvery cycles also sends a heartbeat, and the others bring the  *)
(* next heartbeat one release closer.                                      *)
LEMMA StartsIs ==
  ASSUME HealthTypes, Starts
  PROVE  /\ app' = app /\ phase = "run" /\ phase' = "run" /\ ~hung /\ hung' = hung
         /\ pc = "wait" /\ pc' = "work" /\ due <= 0 /\ due' = due
         /\ cycle' \in 0..(HeartbeatEvery(app) - 1)
         /\ cycle = 0 => heartbeat /\ Left' = HeartbeatEvery(app) - 1
         /\ cycle # 0 => UNCHANGED monitorVars /\ Left' = Left - 1
<1>1. app \in Apps
  BY HealthAssumption DEF HealthTypes
<1>2. HeartbeatEvery(app) \in Nat \ {0} /\ cycle \in 0..(HeartbeatEvery(app) - 1)
  BY <1>1, Constants DEF HealthTypes
<1>3. /\ app' = app /\ phase = "run" /\ phase' = "run" /\ ~hung /\ hung' = hung
      /\ pc = "wait" /\ pc' = "work" /\ due <= 0 /\ due' = due
  BY DEF Starts, startControlCycle, startDecisionCycle, startPerceptionCycle, Released,
         Awake, Works
<1>4. CASE startControlCycle
  <2>1. HeartbeatEvery(app) = kHeartbeatCycleInterval[app]
    BY <1>4 DEF startControlCycle, HeartbeatEvery
  <2>2. cycle' = (cycle + 1) % HeartbeatEvery(app)
    BY <1>4, <2>1 DEF startControlCycle
  <2>3. cycle' = IF cycle + 1 = HeartbeatEvery(app) THEN 0 ELSE cycle + 1
    <3>1. CASE cycle + 1 = HeartbeatEvery(app)
      <4>1. cycle' = (HeartbeatEvery(app) * 1) % HeartbeatEvery(app)
        BY <1>2, <2>2, <3>1
      <4> QED
        BY <1>2, <3>1, <4>1, MultipleRemainder
    <3>2. CASE cycle + 1 # HeartbeatEvery(app)
      <4>1. cycle + 1 \in 0..(HeartbeatEvery(app) - 1)
        BY <1>2, <3>2
      <4> QED
        BY <1>2, <2>2, <3>2, <4>1
    <3> QED
      BY <3>1, <3>2
  <2>4. Left' = IF cycle' = 0 THEN 0 ELSE HeartbeatEvery(app) - cycle'
    BY <1>3 DEF Left
  <2>5. /\ cycle = 0 => heartbeat
        /\ cycle # 0 => UNCHANGED monitorVars
    BY <1>4 DEF startControlCycle
  <2>6. /\ cycle' \in 0..(HeartbeatEvery(app) - 1)
        /\ cycle = 0 => Left' = HeartbeatEvery(app) - 1
        /\ cycle # 0 => Left' = Left - 1
    BY <1>2, <2>3, <2>4 DEF Left
  <2> QED
    BY <1>3, <2>5, <2>6
<1>5. CASE startDecisionCycle \/ startPerceptionCycle
  <2>1. HeartbeatEvery(app) = 1
    BY <1>5 DEF startDecisionCycle, startPerceptionCycle, HeartbeatEvery
  <2>2. heartbeat /\ cycle' = cycle /\ cycle = 0
    BY <1>2, <1>5, <2>1 DEF startDecisionCycle, startPerceptionCycle, reportHeartbeat
  <2>3. Left' = 0
    BY <2>2 DEF Left
  <2> QED
    BY <1>2, <1>3, <2>1, <2>2, <2>3
<1> QED
  BY <1>4, <1>5 DEF Starts

(* The end of a cycle fixes the next release and touches nothing else.     *)
LEMMA FinishesIs ==
  ASSUME Finishes
  PROVE  /\ phase = "run" /\ ~hung /\ pc = "work" /\ pc' = "wait"
         /\ due' = NextRelease(app, due)
         /\ UNCHANGED <<app, phase, cycle, hung, monitorVars>>
  BY DEF Finishes, finishControlCycle, finishDecisionCycle, finishPerceptionCycle, Working,
         Awake, Waits, ControlRelease, DecisionRelease, PerceptionRelease, NextRelease

(* Every step is one of these.                                             *)
LEMMA StepIs ==
  ASSUME [Next]_vars
  PROVE  \/ UNCHANGED <<app, phase, loopVars, monitorVars>>
         \/ RunBegins
         \/ Starts
         \/ Finishes
         \/ Ends
         \/ Hangs
         \/ evaluate
         \/ Tick
  BY DEF Next, vars, processVars, loopVars, Acquire, AcquireFails, RunFails, LoopStep,
         RequestStop, WorkerFails, StartCycleFails, CycleFails, Stops, Returns, Ends, Starts,
         Finishes

(* Every step keeps the types.                                             *)
LEMMA HealthTypesStep == HealthTypes /\ [Next]_vars => HealthTypes'
<1> SUFFICES ASSUME HealthTypes, [Next]_vars
             PROVE  HealthTypes'
  OBVIOUS
<1>1. app \in Apps
  BY HealthAssumption DEF HealthTypes
<1>2. CASE UNCHANGED <<app, phase, loopVars, monitorVars>>
  BY <1>2 DEF HealthTypes, loopVars, monitorVars
<1>3. CASE RunBegins
  <2>1. Period[app] \in Int
    BY <1>1, Constants
  <2> QED
    BY <1>3, <2>1 DEF RunBegins, HealthTypes, monitorVars
<1>4. CASE Starts
  <2>1. CASE cycle = 0
    BY <1>4, <2>1, StartsIs DEF heartbeat, HealthTypes
  <2>2. CASE cycle # 0
    BY <1>4, <2>2, StartsIs DEF monitorVars, HealthTypes
  <2> QED
    BY <2>1, <2>2
<1>5. CASE Finishes
  <2>1. due' \in Int
    <3>1. due \in Int /\ due' = NextRelease(app, due)
      BY <1>5, FinishesIs DEF HealthTypes
    <3> QED
      BY <1>1, <3>1, NextReleaseInt
  <2> QED
    BY <1>5, <2>1, FinishesIs DEF monitorVars, HealthTypes
<1>6. CASE Ends
  BY <1>6 DEF Ends, monitorVars, HealthTypes
<1>7. CASE Hangs
  BY <1>7 DEF Hangs, processVars, monitorVars, HealthTypes
<1>8. CASE evaluate
  <2>1. kInternalProcessingCycle[app] \in Int
    BY <1>1, Constants
  <2>2. /\ failures' \in Nat /\ sinceStart' \in Nat
        /\ evalDue' \in Int /\ beats' \in 0..2 /\ offset' \in Nat /\ age' \in Nat
    BY <1>8, <2>1 DEF evaluate, NoHeartbeat, InRange, Failure, HealthTypes
  <2>3. reported' \in BOOLEAN
    <3>1. Failure => reported' \in BOOLEAN
      BY Zenon DEF Failure
    <3>2. reported' = reported \/ Failure
      BY <1>8 DEF evaluate, NoHeartbeat, InRange
    <3> QED
      BY <3>1, <3>2 DEF HealthTypes
  <2> QED
    BY <1>8, <2>2, <2>3 DEF evaluate, processVars, loopVars, HealthTypes
<1>9. CASE Tick
  <2>1. Far \in Nat
    BY <1>1, Constants DEF Far
  <2> QED
    BY <1>9, <2>1 DEF Tick, processVars, HealthTypes
<1> QED
  BY <1>2, <1>3, <1>4, <1>5, <1>6, <1>7, <1>8, <1>9, StepIs

-----------------------------------------------------------------------------
(* What is left of the way to the next heartbeat.                          *)
LEMMA LeftIs ==
  ASSUME HealthTypes
  PROVE  /\ app \in Apps /\ Left \in Nat /\ (cycle = 0 => Left = 0)
         /\ Left * Period[app] \in Nat /\ Left * CycleMax(app) \in Nat
<1>1. app \in Apps
  BY HealthAssumption DEF HealthTypes
<1>2. /\ HeartbeatEvery(app) \in Nat /\ cycle \in 0..(HeartbeatEvery(app) - 1)
      /\ Period[app] \in Nat /\ CycleMax(app) \in Nat
  BY <1>1, Constants DEF HealthTypes
<1>3. Left \in Nat /\ (cycle = 0 => Left = 0)
  BY <1>2 DEF Left
<1> QED
  BY <1>1, <1>2, <1>3

(* No heartbeat is overdue while the loop keeps its bounds.                *)
LEMMA NotOverdue ==
  ASSUME HealthTypes, Bearable(app), NotTooLate, WithinBounds
  PROVE  SinceBeat \in Nat /\ SinceBeat <= kHeartbeatMax[app]
<1>1. SinceBeat \in Nat /\ due \in Int /\ pc \in {"wait", "work"}
  BY DEF SinceBeat, HealthTypes
<1>2. app \in Apps /\ Left * CycleMax(app) \in Nat
  BY LeftIs
<1>3. /\ MaxWork[app] \in Nat /\ Period[app] \in Nat /\ MaxLateness[app] \in Nat
      /\ kHeartbeatMax[app] \in Nat /\ Longest(app) \in Int
      /\ CycleMax(app) = MaxWork[app] + Period[app] + MaxLateness[app]
  BY <1>2, Constants
<1>4. Longest(app) <= kHeartbeatMax[app]
  BY DEF Bearable
<1> QED
  BY <1>1, <1>2, <1>3, <1>4 DEF NotTooLate, WithinBounds

(* One less of something.                                                  *)
LEMMA OneLess ==
  ASSUME NEW m \in Int, NEW n \in Int
  PROVE  m * n \in Int /\ (m - 1) * n = m * n - n
  OBVIOUS

(* A cycle begins: its heartbeat, if it has one, comes in time, and the    *)
(* monitor has looked at the one before.                                   *)
LEMMA StartsOnTime ==
  ASSUME HealthTypes, OnTime, Bearable(app), Starts
  PROVE  OnTime'
<1> DEFINE P == Period[app]
           L == MaxLateness[app]
           k == HeartbeatEvery(app)
           C == CycleMax(app)
           n == NextRelease(app, due)
<1>1. /\ app \in Apps /\ Left \in Nat /\ (cycle = 0 => Left = 0)
      /\ Left * P \in Nat /\ Left * C \in Nat
  BY LeftIs
<1>2. /\ P \in Nat \ {0} /\ k \in Nat \ {0} /\ L \in Nat /\ C \in Nat
      /\ MaxWork[app] \in Nat /\ L <= MaxWork[app] /\ C = MaxWork[app] + P + L
      /\ CatchUp(app) \in Nat /\ Shortest(app) = k * P - CatchUp(app)
      /\ Longest(app) = k * C
      /\ kHeartbeatMin[app] \in Nat /\ kHeartbeatMax[app] \in Nat
      /\ kInternalProcessingCycle[app] \in Nat /\ MaxEvalDelay \in Nat
  BY <1>1, Constants
<1>3. /\ app' = app /\ pc = "wait" /\ pc' = "work" /\ due <= 0 /\ due' = due
      /\ (cycle = 0 => heartbeat /\ Left' = k - 1)
      /\ (cycle # 0 => UNCHANGED monitorVars /\ Left' = Left - 1)
  BY StartsIs
<1>4. due \in Int /\ due >= -L
  BY <1>3 DEF OnTime, WithinBounds, HealthTypes
<1>5. /\ n \in Int /\ n >= due + P /\ n >= P - CatchUp(app)
  <2>1. due \in (-MaxLateness[app])..0
    BY <1>2, <1>3, <1>4
  <2> QED
    BY <1>1, <1>3, <2>1, NextReleaseAhead, NextReleaseCatchesUp, NextReleaseInt
<1>6. Coming = due /\ Coming' = n
  BY <1>3 DEF Coming
<1>7. WithinBounds'
  BY <1>2, <1>3, <1>4 DEF WithinBounds
<1>8. SinceBeat \in Nat /\ SinceBeat <= kHeartbeatMax[app]
  BY NotOverdue DEF OnTime
<1>9. beats \in 0..2 /\ sinceStart \in Nat /\ offset \in Nat /\ age \in Nat /\ evalDue \in Int
  BY DEF HealthTypes
<1> HIDE DEF P, L, k, C, n
<1>10. CASE cycle = 0
  <2>1. SinceBeat >= kHeartbeatMin[app] /\ beats = 0
    <3>1. CASE beats = 0 /\ sinceStart + due = P
      BY <1>2, <1>3, <1>4, <1>9, <3>1 DEF Bearable, SinceBeat, P
    <3>2. CASE due + SinceBeat + 0 >= Shortest(app)
      <4>1. Shortest(app) \in Int
        BY <1>1, Constants
      <4>2. SinceBeat >= Shortest(app)
        BY <1>3, <1>4, <1>8, <3>2, <4>1
      <4>3. beats # 1
        BY <1>2, <1>9, <4>1, <4>2 DEF OnTime, BeatInRange, Bearable, SinceBeat
      <4> QED
        BY <1>2, <1>8, <1>9, <4>1, <4>2, <4>3 DEF OnTime, BeatInRange, Bearable
    <3>3. Left * Period[app] = 0
      BY <1>1, <1>2, <1>10 DEF P
    <3>4. \/ beats = 0 /\ sinceStart + due = Period[app]
          \/ due + SinceBeat + 0 >= Shortest(app)
      BY <1>6, <3>3 DEF OnTime, NotTooSoon
    <3> QED
      BY <3>1, <3>2, <3>4 DEF P
  <2>2. /\ beats' = 1 /\ offset' = sinceStart /\ age' = 0 /\ evalDue' = evalDue
    BY <1>3, <1>10, <2>1 DEF heartbeat
  <2>3. BeatInRange'
    <3>1. sinceStart \in kHeartbeatMin[app]..kHeartbeatMax[app]
      BY <1>2, <1>8, <1>9, <2>1 DEF SinceBeat
    <3> QED
      BY <1>2, <1>3, <1>9, <2>2, <3>1 DEF OnTime, BeatInRange
  <2>4. SinceBeat' = 0
    BY <2>2 DEF SinceBeat
  <2>5. NotTooSoon'
    <3>1. Left' * P = k * P - P /\ k * P \in Int
      <4>1. k \in Int /\ P \in Int /\ Left' = k - 1
        BY <1>2, <1>3, <1>10
      <4> HIDE DEF k, P
      <4>2. k * P \in Int /\ (k - 1) * P = k * P - P
        BY <4>1, OneLess
      <4> QED
        BY <4>1, <4>2
    <3>2. Coming' + SinceBeat' + Left' * P >= Shortest(app)
      BY <1>2, <1>5, <1>6, <2>4, <3>1
    <3> QED
      BY <1>3, <3>2 DEF NotTooSoon, P
  <2>6. NotTooLate'
    <3>1. Left' * C = k * C - C /\ k * C \in Int
      <4>1. k \in Int /\ C \in Int /\ Left' = k - 1
        BY <1>2, <1>3, <1>10
      <4> HIDE DEF k, C
      <4>2. k * C \in Int /\ (k - 1) * C = k * C - C
        BY <4>1, OneLess
      <4> QED
        BY <4>1, <4>2
    <3>2. SinceBeat' + (due + C) + Left' * C <= Longest(app)
      BY <1>2, <1>3, <1>4, <2>4, <3>1
    <3> QED
      BY <1>3, <3>2 DEF NotTooLate, C
  <2> QED
    BY <1>7, <2>3, <2>5, <2>6 DEF OnTime
<1>11. CASE cycle # 0
  <2>1. UNCHANGED monitorVars /\ Left' = Left - 1
    BY <1>3, <1>11
  <2>2. BeatInRange' /\ SinceBeat' = SinceBeat
    BY <1>3, <2>1 DEF OnTime, BeatInRange, monitorVars, SinceBeat
  <2>3. NotTooSoon'
    <3>1. Left' * P = Left * P - P
      <4>1. Left \in Int /\ P \in Int
        BY <1>1, <1>2
      <4>2. (Left - 1) * P = Left * P - P
        BY <4>1, OneLess
      <4> QED
        BY <2>1, <4>2
    <3>2. due + SinceBeat + Left * P >= Shortest(app)
      BY <1>6, <1>11 DEF OnTime, NotTooSoon, P
    <3>3. Shortest(app) \in Int
      BY <1>1, Constants
    <3>4. Coming' + SinceBeat' + Left' * P >= Shortest(app)
      BY <1>1, <1>2, <1>4, <1>5, <1>6, <1>8, <2>2, <3>1, <3>2, <3>3
    <3> QED
      BY <1>3, <3>4 DEF NotTooSoon, P
  <2>4. NotTooLate'
    <3>1. Left' * C = Left * C - C
      <4>1. Left \in Int /\ C \in Int
        BY <1>1, <1>2
      <4>2. (Left - 1) * C = Left * C - C
        BY <4>1, OneLess
      <4> QED
        BY <2>1, <4>2
    <3>2. SinceBeat + (due + L) + Left * C <= Longest(app)
      BY <1>3 DEF OnTime, NotTooLate, C, L
    <3>3. Longest(app) \in Int
      BY <1>1, Constants
    <3>4. SinceBeat' + (due + C) + Left' * C <= Longest(app)
      BY <1>1, <1>2, <1>4, <1>8, <2>2, <3>1, <3>2, <3>3
    <3> QED
      BY <1>3, <3>4 DEF NotTooLate, C
  <2> QED
    BY <1>7, <2>2, <2>3, <2>4 DEF OnTime
<1> QED
  BY <1>10, <1>11

(* The work of a cycle ends, and the loop waits for its next release.      *)
LEMMA FinishesOnTime ==
  ASSUME HealthTypes, OnTime, Bearable(app), Finishes
  PROVE  OnTime'
<1> DEFINE P == Period[app]
           L == MaxLateness[app]
           C == CycleMax(app)
           n == NextRelease(app, due)
<1>1. app \in Apps /\ Left * C \in Nat
  BY LeftIs
<1>2. /\ P \in Nat /\ L \in Nat /\ C \in Nat /\ MaxWork[app] \in Nat
      /\ C = MaxWork[app] + P + L /\ Longest(app) \in Int
  BY <1>1, Constants
<1>3. /\ app' = app /\ pc = "work" /\ pc' = "wait" /\ due' = n /\ cycle' = cycle
      /\ UNCHANGED monitorVars
  BY FinishesIs
<1>4. due \in Int /\ due <= 0 /\ due >= -MaxWork[app]
  BY <1>2, <1>3 DEF OnTime, WithinBounds, HealthTypes
<1>5. n \in Int /\ n >= 0 /\ n <= P
  BY <1>1, <1>2, <1>4, NextReleaseAhead
<1>6. /\ Coming' = Coming /\ Left' = Left /\ SinceBeat' = SinceBeat
      /\ SinceBeat \in Nat
  BY <1>3 DEF Coming, Left, SinceBeat, monitorVars, HealthTypes
<1>7. WithinBounds' /\ BeatInRange'
  BY <1>2, <1>3, <1>5 DEF OnTime, BeatInRange, WithinBounds, monitorVars
<1>8. NotTooSoon'
  BY <1>3, <1>6 DEF OnTime, NotTooSoon
<1>9. NotTooLate'
  <2>1. SinceBeat + (due + C) + Left * C <= Longest(app)
    BY <1>3 DEF OnTime, NotTooLate
  <2>2. SinceBeat' + (due' + L) + Left' * C <= Longest(app)
    <3> HIDE DEF P, L, C, n
    <3> QED
      BY <1>1, <1>2, <1>3, <1>4, <1>5, <1>6, <2>1
  <2> QED
    BY <1>3, <2>2 DEF NotTooLate
<1> QED
  BY <1>7, <1>8, <1>9 DEF OnTime

(* Time passes, within the bounds.                                         *)
LEMMA TickOnTime ==
  ASSUME HealthTypes, OnTime, Bearable(app), ~hung, Tick
  PROVE  OnTime' /\ UNCHANGED <<failures, reported>>
<1> DEFINE P == Period[app]
           L == MaxLateness[app]
           C == CycleMax(app)
<1>1. app \in Apps /\ Left * C \in Nat /\ Left * P \in Nat
  BY LeftIs
<1>2. /\ P \in Nat /\ L \in Nat /\ C \in Nat /\ MaxWork[app] \in Nat
      /\ C = MaxWork[app] + P + L /\ Longest(app) \in Int /\ Shortest(app) \in Int
      /\ kHeartbeatMax[app] \in Nat /\ kInternalProcessingCycle[app] \in Nat
      /\ MaxEvalDelay \in Nat
  BY <1>1, Constants
<1>3. /\ due \in Int /\ pc \in {"wait", "work"} /\ evalDue \in Int /\ beats \in 0..2
      /\ sinceStart \in Nat /\ age \in Nat /\ offset \in Nat
  BY DEF HealthTypes
<1>4. SinceBeat \in Nat /\ SinceBeat <= kHeartbeatMax[app]
  BY NotOverdue DEF OnTime
<1>5. /\ app' = app /\ pc' = pc /\ cycle' = cycle /\ beats' = beats /\ offset' = offset
      /\ due' = due - 1 /\ evalDue' = evalDue - 1 /\ evalDue > -MaxEvalDelay
      /\ due > -(IF pc = "wait" THEN L ELSE MaxWork[app])
      /\ UNCHANGED <<failures, reported>>
  BY DEF Tick, processVars
<1>6. Left' = Left
  BY <1>5 DEF Left
<1>7. SinceBeat' = SinceBeat + 1
  <2>1. CASE beats = 0
    <3>1. sinceStart # Far
      BY <1>2, <1>3, <1>4, <2>1 DEF SinceBeat, Far
    <3> QED
      BY <1>5, <2>1, <3>1 DEF SinceBeat, Tick
  <2>2. CASE beats # 0
    BY <1>5, <2>2 DEF SinceBeat, Tick
  <2> QED
    BY <2>1, <2>2
<1>8. WithinBounds'
  BY <1>2, <1>3, <1>5 DEF OnTime, WithinBounds
<1>9. BeatInRange'
  <2>1. beats = 1 => age' = age + 1
    BY DEF Tick
  <2> QED
    BY <1>2, <1>3, <1>5, <2>1 DEF OnTime, BeatInRange
<1>10. Coming' \in Int /\ Coming \in Int /\ Coming' + 1 >= Coming
  <2>1. CASE pc = "wait"
    BY <1>3, <1>5, <2>1 DEF Coming
  <2>2. CASE pc = "work"
    <3>1. due <= 0 /\ due - 1 \in Int
      BY <1>2, <1>3, <2>2 DEF OnTime, WithinBounds
    <3>2. Coming = NextRelease(app, due) /\ Coming' = NextRelease(app, due - 1)
      BY <1>5, <2>2 DEF Coming
    <3> QED
      BY <1>1, <1>3, <3>1, <3>2, NextReleaseInt, NextReleaseKeepsPace
  <2> QED
    BY <1>3, <2>1, <2>2
<1> HIDE DEF P, L, C
<1>11. NotTooSoon'
  <2>1. CASE pc = "wait" /\ cycle = 0 /\ beats = 0 /\ sinceStart + due = Period[app]
    <3>1. sinceStart' = sinceStart + 1
      BY <1>5, <1>7, <2>1 DEF SinceBeat
    <3> QED
      BY <1>3, <1>5, <2>1, <3>1 DEF NotTooSoon
  <2>2. CASE Coming + SinceBeat + Left * Period[app] >= Shortest(app)
    <3> DEFINE x == Left * P
    <3>1. x \in Int
      BY <1>1
    <3>2. Coming + SinceBeat + x >= Shortest(app)
      BY <2>2 DEF P
    <3> HIDE DEF x
    <3>3. Coming' + SinceBeat' + x >= Shortest(app)
      <4>1. PICK next \in Int : next = Coming'
        BY <1>10
      <4>2. PICK now \in Int : now = Coming
        BY <1>10
      <4>3. next + 1 >= now
        BY <1>10, <4>1, <4>2
      <4>4. now + SinceBeat + x >= Shortest(app)
        BY <3>2, <4>2
      <4>5. next + SinceBeat' + x >= Shortest(app)
        BY <1>2, <1>4, <1>7, <3>1, <4>3, <4>4
      <4> QED
        BY <4>1, <4>5
    <3>4. Coming' + SinceBeat' + Left' * P >= Shortest(app)
      BY <1>6, <3>3 DEF x
    <3> QED
      BY <1>5, <3>4 DEF NotTooSoon, P
  <2> QED
    BY <2>1, <2>2 DEF OnTime, NotTooSoon
<1>12. NotTooLate'
  <2> DEFINE slack == IF pc = "wait" THEN due + L ELSE due + C
  <2>1. slack \in Int /\ slack' = slack - 1
    BY <1>2, <1>3, <1>5 DEF L, C
  <2>2. SinceBeat + slack + Left * C <= Longest(app)
    BY DEF OnTime, NotTooLate, L, C
  <2> HIDE DEF slack
  <2>3. SinceBeat' + slack' + Left' * C <= Longest(app)
    BY <1>1, <1>2, <1>4, <1>6, <1>7, <2>1, <2>2
  <2> QED
    BY <1>5, <2>3 DEF NotTooLate, slack, L, C
<1> QED
  BY <1>5, <1>8, <1>9, <1>11, <1>12 DEF OnTime

(* The monitor looks, and finds a heartbeat in range, or none yet due.     *)
LEMMA EvaluateOnTime ==
  ASSUME HealthTypes, OnTime, Bearable(app), failures = 0, ~reported, evaluate
  PROVE  OnTime' /\ failures' = 0 /\ ~reported'
<1>1. app \in Apps
  BY LeftIs
<1>2. /\ kHeartbeatMax[app] \in Nat /\ kInternalProcessingCycle[app] \in Nat
      /\ MaxEvalDelay \in Nat
  BY <1>1, Constants
<1>3. SinceBeat \in Nat /\ SinceBeat <= kHeartbeatMax[app]
  BY NotOverdue DEF OnTime
<1>4. /\ UNCHANGED <<processVars, loopVars>> /\ beats' = 0
      /\ evalDue' = kInternalProcessingCycle[app]
  BY DEF evaluate
<1>5. sinceStart' = SinceBeat /\ failures' = 0 /\ ~reported'
  <2>1. CASE beats = 0
    <3>1. ~(sinceStart > kHeartbeatMax[app])
      BY <1>2, <1>3, <2>1 DEF SinceBeat
    <3>2. NoHeartbeat
      BY <2>1 DEF evaluate
    <3>3. UNCHANGED <<failures, reported>> /\ sinceStart' = sinceStart
      BY <3>1, <3>2 DEF NoHeartbeat
    <3> QED
      BY <2>1, <3>3 DEF SinceBeat
  <2>2. CASE beats # 0
    <3>1. beats = 1 /\ offset \in kHeartbeatMin[app]..kHeartbeatMax[app]
      BY <2>2 DEF OnTime, BeatInRange, HealthTypes
    <3>2. InRange /\ sinceStart' = age
      BY <3>1 DEF evaluate
    <3> QED
      BY <2>2, <3>2 DEF InRange, SinceBeat
  <2> QED
    BY <2>1, <2>2
<1>6. SinceBeat' = SinceBeat /\ Left' = Left /\ Coming' = Coming
  BY <1>4, <1>5 DEF SinceBeat, Left, Coming, processVars, loopVars
<1>7. BeatInRange'
  BY <1>2, <1>4 DEF BeatInRange, processVars
<1>8. NotTooSoon' /\ NotTooLate' /\ WithinBounds'
  <2>1. beats = 0 => sinceStart' = sinceStart
    BY <1>5 DEF SinceBeat
  <2> QED
    BY <1>4, <1>6, <2>1 DEF OnTime, NotTooSoon, NotTooLate, WithinBounds, processVars, loopVars
<1> QED
  BY <1>5, <1>7, <1>8 DEF OnTime

(* Run begins with a whole period before the first release.                *)
LEMMA RunBeginsOnTime ==
  ASSUME HealthTypes, Fresh, Bearable(app), RunBegins
  PROVE  OnTime'
<1> DEFINE P == Period[app]
           L == MaxLateness[app]
           k == HeartbeatEvery(app)
           C == CycleMax(app)
<1>1. app \in Apps
  BY LeftIs
<1>2. /\ P \in Nat /\ L \in Nat /\ C \in Nat /\ MaxWork[app] \in Nat /\ k \in Nat \ {0}
      /\ C = MaxWork[app] + P + L /\ Longest(app) = k * C
      /\ kInternalProcessingCycle[app] \in Nat /\ MaxEvalDelay \in Nat
  BY <1>1, Constants
<1>3. /\ app' = app /\ due' = P /\ pc' = "wait" /\ cycle' = 0 /\ beats' = 0
      /\ sinceStart' = 0 /\ evalDue' = kInternalProcessingCycle[app]
  BY DEF RunBegins, Fresh, monitorVars
<1>4. SinceBeat' = 0 /\ Left' = 0
  BY <1>3 DEF SinceBeat, Left
<1>5. NotTooSoon'
  BY <1>2, <1>3 DEF NotTooSoon
<1>6. NotTooLate'
  <2>1. k * C >= 1 * C /\ k * C \in Int
    BY <1>2
  <2>2. 0 + (P + L) + 0 <= Longest(app)
    BY <1>2, <2>1
  <2>3. Left' * C = 0
    BY <1>2, <1>4
  <2> QED
    BY <1>3, <1>4, <2>2, <2>3 DEF NotTooLate
<1>7. WithinBounds' /\ BeatInRange'
  BY <1>2, <1>3 DEF WithinBounds, BeatInRange
<1> QED
  BY <1>5, <1>6, <1>7 DEF OnTime

-----------------------------------------------------------------------------
(* The invariant holds at the start.                                       *)
LEMMA HealthInvInit ==
  ASSUME Init
  PROVE  HealthInv
<1>1. app \in Apps
  BY HealthAssumption DEF Init
<1>2. HeartbeatEvery(app) \in Nat \ {0} /\ kInternalProcessingCycle[app] \in Nat
  BY <1>1, Constants
<1>3. HealthTypes
  <2>1. 0 \in 0..(HeartbeatEvery(app) - 1)
    BY <1>2
  <2>2. cycle \in 0..(HeartbeatEvery(app) - 1)
    BY <2>1 DEF Init
  <2>3. evalDue \in Int
    BY <1>2 DEF Init
  <2>4. /\ due \in Int /\ sinceStart \in Nat /\ beats \in 0..2 /\ offset \in Nat /\ age \in Nat
        /\ failures \in Nat
    BY DEF Init
  <2>5. /\ app \in Supervised /\ phase \in {"init", "run", "ended"} /\ pc \in {"wait", "work"}
        /\ hung \in BOOLEAN /\ reported \in BOOLEAN
    BY DEF Init
  <2> QED
    BY <2>2, <2>3, <2>4, <2>5 DEF HealthTypes
<1>4. Fresh /\ phase = "init" /\ failures = 0 /\ ~reported
  BY DEF Init, Fresh
<1> QED
  BY <1>3, <1>4 DEF HealthInv

(* Every step keeps the invariant, one step per kind of step.              *)
LEMMA HealthInvStep ==
  ASSUME \A a \in Supervised : Bearable(a), HealthInv, [Next]_vars
  PROVE  HealthInv'
<1>1. HealthTypes /\ HealthTypes' /\ Bearable(app)
  BY HealthTypesStep DEF HealthInv, HealthTypes
<1>2. CASE UNCHANGED <<app, phase, loopVars, monitorVars>>
  <2>1. UNCHANGED <<SinceBeat, Left, Coming>>
    BY <1>2 DEF SinceBeat, Left, Coming, loopVars, monitorVars
  <2>2. OnTime => OnTime'
    BY <1>2, <2>1 DEF OnTime, NotTooSoon, NotTooLate, WithinBounds, BeatInRange, loopVars,
                      monitorVars
  <2> QED
    BY <1>1, <1>2, <2>2 DEF HealthInv, Fresh, loopVars, monitorVars
<1>3. CASE RunBegins
  <2>1. /\ phase = "init" /\ phase' = "run" /\ UNCHANGED <<hung, failures, reported>>
    BY <1>3 DEF RunBegins, Initialized, monitorVars
  <2>2. OnTime'
    BY <1>1, <1>3, <2>1, RunBeginsOnTime DEF HealthInv
  <2> QED
    BY <1>1, <2>1, <2>2 DEF HealthInv
<1>4. CASE Starts
  <2>1. phase = "run" /\ phase' = "run" /\ ~hung /\ hung' = hung
    BY <1>1, <1>4, StartsIs
  <2>2. OnTime'
    BY <1>1, <1>4, <2>1, StartsOnTime DEF HealthInv
  <2>3. UNCHANGED <<failures, reported>>
    BY <1>1, <1>4, StartsIs DEF heartbeat, monitorVars
  <2> QED
    BY <1>1, <2>1, <2>2, <2>3 DEF HealthInv
<1>5. CASE Finishes
  <2>1. /\ phase = "run" /\ phase' = "run" /\ ~hung /\ UNCHANGED <<hung, failures, reported>>
    BY <1>5, FinishesIs DEF monitorVars
  <2>2. OnTime'
    BY <1>1, <1>5, <2>1, FinishesOnTime DEF HealthInv
  <2> QED
    BY <1>1, <2>1, <2>2 DEF HealthInv
<1>6. CASE Ends
  BY <1>1, <1>6 DEF Ends, HealthInv, monitorVars
<1>7. CASE Hangs
  BY <1>1, <1>7 DEF Hangs, Awake, HealthInv, processVars, monitorVars
<1>8. CASE evaluate
  <2>1. phase = "run" /\ phase' = "run" /\ hung' = hung
    BY <1>8 DEF evaluate, processVars, loopVars
  <2>2. CASE hung
    BY <1>1, <2>1, <2>2 DEF HealthInv
  <2>3. CASE ~hung
    BY <1>1, <1>8, <2>1, <2>3, EvaluateOnTime DEF HealthInv
  <2> QED
    BY <2>2, <2>3
<1>9. CASE Tick
  <2>1. phase = "run" /\ phase' = "run" /\ hung' = hung
    BY <1>9 DEF Tick, processVars
  <2>2. CASE hung
    BY <1>1, <2>1, <2>2 DEF HealthInv
  <2>3. CASE ~hung
    BY <1>1, <1>9, <2>1, <2>3, TickOnTime DEF HealthInv
  <2> QED
    BY <2>2, <2>3
<1> QED
  BY <1>2, <1>3, <1>4, <1>5, <1>6, <1>7, <1>8, <1>9, StepIs

(* The timing of the loop and of its heartbeats, for all constants that    *)
(* leave room for its lateness.                                            *)
THEOREM HeartbeatsOnTime ==
  ASSUME \A a \in Supervised : Bearable(a)
  PROVE  Spec => []HealthInv
<1>1. Init => HealthInv
  BY HealthInvInit
<1>2. HealthInv /\ [Next]_vars => HealthInv'
  BY HealthInvStep
<1> QED
  BY <1>1, <1>2, PTL DEF Spec

(* A process that is merely late is not reported, whatever the pattern of  *)
(* its lateness and however long it runs.                                  *)
THEOREM NoFalseAlarmHolds ==
  ASSUME \A a \in Supervised : Bearable(a)
  PROVE  Spec => []NoFalseAlarm
<1>1. HealthInv => NoFalseAlarm
  BY DEF HealthInv, NoFalseAlarm
<1> QED
  BY <1>1, HeartbeatsOnTime, PTL

-----------------------------------------------------------------------------
(* What the reporters acquire, and what all of them reset.                 *)
Reporter == {"monitor", "deadlineMonitor", "heartbeatMonitor", "cycleDeadline"}

(* Stopping the health reporter of a process resets all four of its parts. *)
LEMMA ReporterStops ==
  /\ Reporter \subseteq ControlReporterStops
  /\ Reporter \subseteq DecisionReporterStops
  /\ Reporter \subseteq PerceptionReporterStops
<1>1. /\ Range(ControlReporter) = Reporter /\ Range(DecisionReporter) = Reporter
      /\ Range(PerceptionReporter) = Reporter
  BY DEF Range, ControlReporter, DecisionReporter, PerceptionReporter, Reporter
<1> QED
  BY <1>1 DEF ControlReporterStops, DecisionReporterStops, PerceptionReporterStops

(* The order of Initialize in the signal controller.                       *)
LEMMA ControllerAcquires ==
  LET s == Acquired("controller")
  IN  /\ Len(s) = 8
      /\ s[1] = "monitor" /\ s[2] = "deadlineMonitor" /\ s[3] = "heartbeatMonitor"
      /\ s[4] = "cycleDeadline" /\ s[5] = "simulator" /\ s[6] = "outputWorker"
      /\ s[7] = "planReceiver" /\ s[8] = "fsmWorker"
  BY DEF Acquired, ControlReporter

(* The order of Initialize in the decision service.                        *)
LEMMA DecisionAcquires ==
  LET s == Acquired("decision")
  IN  /\ Len(s) = 8
      /\ s[1] = "recorders" /\ s[2] = "receiver" /\ s[3] = "publisher"
      /\ s[4] = "monitor" /\ s[5] = "deadlineMonitor" /\ s[6] = "heartbeatMonitor"
      /\ s[7] = "cycleDeadline" /\ s[8] = "memoryLock"
  BY DEF Acquired, ServiceAcquires, DecisionReporter

(* The order of Initialize in perception.                                  *)
LEMMA PerceptionAcquires ==
  LET s == Acquired("perception")
  IN  /\ Len(s) = 6
      /\ s[1] = "threads" /\ s[2] = "viewer"
      /\ s[3] = "monitor" /\ s[4] = "deadlineMonitor" /\ s[5] = "heartbeatMonitor"
      /\ s[6] = "cycleDeadline"
  BY DEF Acquired, PerceptionReporter

(* Nothing is acquired twice.                                              *)
LEMMA AcquiredOnce ==
  ASSUME NEW a \in Apps
  PROVE  /\ Len(Acquired(a)) \in Nat
         /\ \A i, j \in 1..Len(Acquired(a)) : Acquired(a)[i] = Acquired(a)[j] => i = j
<1>1. CASE a = "controller"
  BY <1>1, ControllerAcquires
<1>2. CASE a = "decision"
  BY <1>2, DecisionAcquires
<1>3. CASE a = "perception"
  BY <1>3, PerceptionAcquires
<1> QED
  BY <1>1, <1>2, <1>3 DEF Apps

(* The path of Initialize that is taken when something cannot be had gives *)
(* back all that was acquired before it.                                   *)
LEMMA AllGivenBack ==
  ASSUME app \in Apps, NEW n \in 1..Len(Acquired(app)), NEW i \in 1..(n - 1)
  PROVE  Acquired(app)[i] \in GivenBack(Acquired(app)[n])
<1>1. CASE app = "controller"
  <2>1. GivenBack(Acquired(app)[n]) = ControllerGivesBack(Acquired(app)[n])
    BY <1>1 DEF GivenBack
  <2>2. n \in 1..8 /\ i \in 1..7 /\ i < n
    <3>1. Len(Acquired(app)) = 8
      BY <1>1, ControllerAcquires
    <3> QED
      BY <3>1
  <2>3. CASE i \in 1..4
    <3>1. Acquired(app)[i] \in Reporter
      BY <1>1, <2>3, ControllerAcquires DEF Reporter
    <3> QED
      BY <2>1, <3>1, ReporterStops DEF ControllerGivesBack
  <2>4. CASE i = 5
    <3>1. Acquired(app)[i] = "simulator" /\ n \in 6..8
      BY <1>1, <2>2, <2>4, ControllerAcquires
    <3>2. Acquired(app)[n] \in {"outputWorker", "planReceiver", "fsmWorker"}
      BY <1>1, <3>1, ControllerAcquires
    <3> QED
      BY <2>1, <3>1, <3>2 DEF ControllerGivesBack, StopOutputWorker
  <2>5. CASE i = 6
    <3>1. Acquired(app)[i] = "outputWorker" /\ n \in 7..8
      BY <1>1, <2>2, <2>5, ControllerAcquires
    <3>2. Acquired(app)[n] \in {"planReceiver", "fsmWorker"}
      BY <1>1, <3>1, ControllerAcquires
    <3> QED
      BY <2>1, <3>1, <3>2 DEF ControllerGivesBack, StopOutputWorker
  <2>6. CASE i = 7
    <3>1. Acquired(app)[i] = "planReceiver" /\ Acquired(app)[n] = "fsmWorker"
      BY <1>1, <2>2, <2>6, ControllerAcquires
    <3> QED
      BY <2>1, <3>1 DEF ControllerGivesBack
  <2> QED
    BY <2>2, <2>3, <2>4, <2>5, <2>6
<1>2. CASE app = "decision"
  <2>1. GivenBack(Acquired(app)[n]) = DecisionGivesBack(Acquired(app)[n])
    BY <1>2 DEF GivenBack
  <2>2. Acquired(app)[i] \in {"recorders", "receiver", "publisher"} \cup Reporter
    <3>1. i \in 1..7
      <4>1. Len(Acquired(app)) = 8
        BY <1>2, DecisionAcquires
      <4> QED
        BY <4>1
    <3> QED
      BY <1>2, <3>1, DecisionAcquires DEF Reporter
  <2>3. CASE n \in 2..3
    BY <1>2, <2>1, <2>3, DecisionAcquires DEF DecisionGivesBack
  <2>4. CASE n \in 4..8
    <3>1. Acquired(app)[n] # "receiver" /\ Acquired(app)[n] # "publisher"
      BY <1>2, <2>4, DecisionAcquires
    <3>2. GivenBack(Acquired(app)[n]) = {"recorders"} \cup ServiceStops
      BY <2>1, <3>1 DEF DecisionGivesBack
    <3> QED
      BY <2>2, <3>2, ReporterStops DEF ServiceStops
  <2> QED
    BY <1>2, <2>3, <2>4, DecisionAcquires
<1>3. CASE app = "perception"
  <2>1. GivenBack(Acquired(app)[n]) = PerceptionGivesBack(Acquired(app)[n])
    BY <1>3 DEF GivenBack
  <2>2. Acquired(app)[i] \in {"threads", "viewer"} \cup Reporter
    BY <1>3, PerceptionAcquires DEF Reporter
  <2> QED
    BY <2>1, <2>2, ReporterStops DEF PerceptionGivesBack
<1> QED
  BY <1>1, <1>2, <1>3 DEF Apps

(* While it initializes, a process holds the first so many of what it      *)
(* acquires.                                                               *)
HeldSoFar(n) ==
  /\ held = {Acquired(app)[i] : i \in 1..n}
  /\ IsFiniteSet(held) /\ Cardinality(held) = n

HeldInv ==
  /\ app \in Apps /\ phase \in {"init", "run", "ended"}
  /\ phase = "init" => \E n \in 0..Len(Acquired(app)) : HeldSoFar(n)
  /\ NothingHeld

(* One more acquired: the process holds the first n + 1.                   *)
LEMMA AcquireHolds ==
  ASSUME app \in Apps, NEW n \in 0..Len(Acquired(app)), HeldSoFar(n), Acquire
  PROVE  n + 1 \in 0..Len(Acquired(app)) /\ HeldSoFar(n + 1)'
<1> DEFINE s == Acquired(app)
<1>1. n + 1 \in 1..Len(s) /\ app' = app /\ held' = held \cup {s[n + 1]}
  BY AcquiredOnce DEF Acquire, Initializing, Following, HeldSoFar
<1>2. s[n + 1] \notin held
  BY <1>1, AcquiredOnce DEF HeldSoFar
<1>3. IsFiniteSet(held') /\ Cardinality(held') = n + 1
  BY <1>1, <1>2, FS_AddElement DEF HeldSoFar
<1>4. held' = {s[i] : i \in 1..(n + 1)}
  BY <1>1 DEF HeldSoFar
<1>5. Acquired(app)' = Acquired(app)
  BY <1>1
<1> HIDE DEF s
<1> QED
  BY <1>1, <1>3, <1>4, <1>5 DEF HeldSoFar, s

(* A failure to acquire the next leaves the process holding nothing.       *)
LEMMA AcquireFailsHoldsNothing ==
  ASSUME app \in Apps, NEW n \in 0..Len(Acquired(app)), HeldSoFar(n), AcquireFails
  PROVE  held' = {}
<1>1. /\ n + 1 \in 1..Len(Acquired(app)) /\ n = (n + 1) - 1
      /\ held' = held \ GivenBack(Acquired(app)[n + 1])
  BY AcquiredOnce DEF AcquireFails, Initializing, Following, HeldSoFar
<1>2. \A i \in 1..n : Acquired(app)[i] \in GivenBack(Acquired(app)[n + 1])
  BY <1>1, AllGivenBack
<1> QED
  BY <1>1, <1>2 DEF HeldSoFar

(* Every step keeps what a process holds in the order of its Initialize.   *)
LEMMA HeldInvStep == HeldInv /\ [Next]_vars => HeldInv'
<1> SUFFICES ASSUME HeldInv, [Next]_vars
             PROVE  HeldInv'
  OBVIOUS
<1>1. app' = app
  BY DEF Next, vars, processVars, Acquire, AcquireFails, RunBegins, RunFails, Returns, LoopStep,
         startControlCycle, startDecisionCycle, startPerceptionCycle, Works, StartCycleFails,
         finishControlCycle, finishDecisionCycle, finishPerceptionCycle, Waits, CycleFails,
         Stops, RequestStop, WorkerFails, Hangs, evaluate, Tick
<1>2. CASE Acquire
  <2>1. phase = "init" /\ phase' = "init"
    BY <1>2 DEF Acquire, Initializing
  <2>2. PICK n \in 0..Len(Acquired(app)) : HeldSoFar(n)
    BY <2>1 DEF HeldInv
  <2>3. n + 1 \in 0..Len(Acquired(app)) /\ HeldSoFar(n + 1)'
    BY <1>2, <2>2, AcquireHolds DEF HeldInv
  <2> QED
    BY <1>1, <2>1, <2>3 DEF HeldInv, NothingHeld
<1>3. CASE AcquireFails
  <2>1. phase = "init" /\ phase' = "ended"
    BY <1>3 DEF AcquireFails, Initializing
  <2>2. held' = {}
    BY <1>3, <2>1, AcquireFailsHoldsNothing DEF HeldInv
  <2> QED
    BY <1>1, <2>1, <2>2 DEF HeldInv, NothingHeld
<1>4. CASE \E code \in {EXIT_SUCCESS, EXIT_FAILURE} : Returns(code)
  BY <1>1, <1>4 DEF Returns, HeldInv, NothingHeld
<1>5. CASE phase' = "run"
  BY <1>1, <1>5 DEF HeldInv, NothingHeld
<1>6. CASE UNCHANGED <<app, phase, held>>
  BY <1>6 DEF HeldInv, NothingHeld, HeldSoFar
<1>7. \/ Acquire \/ AcquireFails
      \/ \E code \in {EXIT_SUCCESS, EXIT_FAILURE} : Returns(code)
      \/ phase' = "run"
      \/ UNCHANGED <<app, phase, held>>
  BY DEF Next, vars, processVars, RunBegins, RunFails, LoopStep, startControlCycle,
         startDecisionCycle, startPerceptionCycle, Works, Released, Awake, StartCycleFails,
         finishControlCycle, finishDecisionCycle, finishPerceptionCycle, Working, Waits,
         CycleFails, Stops, RequestStop, WorkerFails, Hangs, evaluate, Tick
<1> QED
  BY <1>2, <1>3, <1>4, <1>5, <1>6, <1>7

(* A process that ends, in Initialize at whatever could not be had or in   *)
(* Run, has given back everything (but the locked pages).                  *)
THEOREM NothingHeldHolds == Spec => []NothingHeld
<1>1. Init => HeldInv
  <2> SUFFICES ASSUME Init
               PROVE  HeldInv
    OBVIOUS
  <2>1. app \in Apps /\ phase = "init" /\ held = {}
    BY HealthAssumption DEF Init
  <2>2. 0 \in 0..Len(Acquired(app)) /\ HeldSoFar(0)
    BY <2>1, AcquiredOnce, FS_EmptySet DEF HeldSoFar
  <2> QED
    BY <2>1, <2>2 DEF HeldInv, NothingHeld
<1>2. HeldInv /\ [Next]_vars => HeldInv'
  BY HeldInvStep
<1>3. HeldInv => NothingHeld
  BY DEF HeldInv
<1> QED
  BY <1>1, <1>2, <1>3, PTL DEF Spec

=============================================================================
