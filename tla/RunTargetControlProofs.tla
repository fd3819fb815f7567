----------------------- MODULE RunTargetControlProofs -----------------------
(***************************************************************************)
(* Theorems about RunTargetControl: for any number of attempts and of      *)
(* commands given by hand, and any capacity of the control socket.         *)
(***************************************************************************)
EXTENDS RunTargetControl, SequenceTheorems, FiniteSetTheorems, TLAPS

Texts == {"", "shutdown_pid", "already in requested state", "failed", "none"}

(* The type invariant.                                                     *)
ControlTypeOK ==
  /\ lm \in {"alive", "stopping", "gone"}
  /\ active \in BOOLEAN
  /\ activating \subseteq Clients
  /\ reached \subseteq Clients
  /\ daemon \in {"none", "loop", "signal", "ended", "crashed"}
  /\ queue \in Seq(Clients)
  /\ bound \in {"none", "stale", "live"}
  /\ pc \in [Clients -> {"none", "sent", "delivered", "stopping", "done"}]
  /\ command \in [Clients -> Commands]
  /\ conn \in [Clients -> {"none", "stale", "live"}]
  /\ response \in [Clients -> Responses]
  /\ status \in [Clients -> {0, 1, 2}]
  /\ output \in [Clients -> Texts]
  /\ helper \in [Helpers -> {"check", "ask", "wait", "watch", "done"}]
  /\ attempt \in [Helpers -> 1..MaxAttempts]

-----------------------------------------------------------------------------
(* The requests in a socket, and that none is there twice.                 *)
Within(c, q)  == \E i \in 1..Len(q) : q[i] = c
NoneTwice(q)  == \A i, j \in 1..Len(q) : q[i] = q[j] => i = j

(* A request is in one place: not made yet, in the socket, with Launch     *)
(* Manager, or over.                                                       *)
Nowhere(c) == ~Within(c, queue) /\ c \notin activating /\ c \notin reached

OnePlace(c) ==
  /\ Within(c, queue) => c \notin activating /\ c \notin reached
  /\ c \in activating => c \notin reached
  /\ pc[c] = "none" => Nowhere(c)

(* An answer is true, and stays true until it is looked at.                *)
AnswerTrue(c) ==
  /\ response[c] # NoResponse => pc[c] \in {"sent", "delivered"}
  /\ response[c].success => command[c] = "Stop" \/ c \in reached
  /\ response[c] # NoResponse /\ ~response[c].success => Nowhere(c)

(* What a client knows when it has passed a stage.                         *)
StageTrue(c) ==
  /\ pc[c] \in {"delivered", "stopping"} => conn[c] = "live" /\ ~Within(c, queue)
  /\ pc[c] = "stopping" => command[c] = "Stop"
  /\ pc[c] = "done" => /\ status[c] = 0 /\ command[c] # "Stop" => c \in reached
                       /\ status[c] = 0 /\ command[c] = "Stop" => lm = "gone"
                       /\ status[c] = 2 => Nowhere(c)

ClientInv(c) == OnePlace(c) /\ AnswerTrue(c) /\ StageTrue(c)

(* The earlier helper asks for the first time or not at all.               *)
EarlierOnce ==
  /\ helper["earlier"] = "ask" => attempt["earlier"] = 1
  /\ \A c \in Clients : c[1] = "earlier" /\ conn[c] # "none" => c[2] = 1

ControlInv ==
  /\ ControlTypeOK
  /\ NoneTwice(queue)
  /\ \A c \in Clients : ClientInv(c)
  /\ EarlierOnce

-----------------------------------------------------------------------------
(* A request at the end of the socket.                                     *)
LEMMA Put ==
  ASSUME NEW q \in Seq(Clients), NEW c \in Clients
  PROVE  /\ Append(q, c) \in Seq(Clients)
         /\ \A d : Within(d, Append(q, c)) <=> Within(d, q) \/ d = c
         /\ NoneTwice(q) /\ ~Within(c, q) => NoneTwice(Append(q, c))
<1>1. /\ Append(q, c) \in Seq(Clients) /\ Len(q) \in Nat
      /\ Len(Append(q, c)) = Len(q) + 1
      /\ Append(q, c)[Len(q) + 1] = c
      /\ \A i \in 1..Len(q) : Append(q, c)[i] = q[i]
  OBVIOUS
<1>2. \A i \in 1..Len(q) + 1 : i \in 1..Len(q) \/ i = Len(q) + 1
  BY <1>1
<1>3. 1..Len(q) \subseteq 1..Len(q) + 1 /\ Len(q) + 1 \in 1..Len(q) + 1
  BY <1>1
<1>4. \A d : Within(d, Append(q, c)) <=> Within(d, q) \/ d = c
  BY <1>1, <1>2, <1>3 DEF Within
<1>5. NoneTwice(q) /\ ~Within(c, q) => NoneTwice(Append(q, c))
  BY <1>1, <1>2 DEF Within, NoneTwice
<1> QED
  BY <1>1, <1>4, <1>5

(* The first request is taken out.                                         *)
LEMMA Taken ==
  ASSUME NEW q \in Seq(Clients), q # <<>>, NoneTwice(q)
  PROVE  /\ Head(q) \in Clients /\ Tail(q) \in Seq(Clients)
         /\ Within(Head(q), q)
         /\ \A d : Within(d, Tail(q)) <=> Within(d, q) /\ d # Head(q)
         /\ NoneTwice(Tail(q))
<1>1. /\ Head(q) \in Clients /\ Tail(q) \in Seq(Clients) /\ Head(q) = q[1]
      /\ Len(q) \in Nat /\ Len(q) # 0 /\ Len(Tail(q)) = Len(q) - 1
      /\ \A i \in 1..Len(Tail(q)) : Tail(q)[i] = q[i + 1]
  BY HeadTailProperties, EmptySeq
<1>2. \A i \in 1..Len(q) : i = 1 \/ (i - 1 \in 1..Len(Tail(q)) /\ (i - 1) + 1 = i)
  BY <1>1
<1>3. \A i \in 1..Len(Tail(q)) : i + 1 \in 1..Len(q) /\ i + 1 # 1
  BY <1>1
<1>4. 1 \in 1..Len(q)
  BY <1>1
<1>5. ASSUME NEW d PROVE Within(d, Tail(q)) <=> Within(d, q) /\ d # Head(q)
  <2>1. Within(d, Tail(q)) => Within(d, q) /\ d # Head(q)
    BY <1>1, <1>3, <1>4 DEF Within, NoneTwice
  <2>2. ASSUME Within(d, q), d # Head(q) PROVE Within(d, Tail(q))
    <3>1. PICK i \in 1..Len(q) : q[i] = d
      BY <2>2 DEF Within
    <3>2. i - 1 \in 1..Len(Tail(q)) /\ Tail(q)[i - 1] = d
      BY <1>1, <1>2, <2>2, <3>1
    <3> QED
      BY <3>2 DEF Within
  <2> QED
    BY <2>1, <2>2
<1>6. NoneTwice(Tail(q))
  BY <1>1, <1>3 DEF NoneTwice
<1> QED
  BY <1>1, <1>4, <1>5, <1>6 DEF Within

(* The clients are who they are, and an answer has its fields.             *)
LEMMA ConstantFacts ==
  /\ \A h \in Helpers, n \in 1..MaxAttempts : <<h, n>> \in Clients
  /\ \A r \in Responses : r.success \in BOOLEAN /\ r.message \in Texts
  /\ {Active, Stopping, Already, Failed, NoResponse} \subseteq Responses
  /\ Active.success /\ Stopping.success
  /\ ~Already.success /\ ~Failed.success /\ ~NoResponse.success
  /\ Active # NoResponse /\ Stopping # NoResponse /\ Already # NoResponse /\ Failed # NoResponse
  /\ OperatorCommands \subseteq Commands /\ "Running" \in Commands
<1>1. \A h \in Helpers, n \in 1..MaxAttempts : <<h, n>> \in Clients
  BY DEF Clients
<1>2. \A r \in Responses : r.success \in BOOLEAN /\ r.message \in Texts
  <2>1. /\ Active.success \in BOOLEAN /\ Active.message \in Texts
        /\ Stopping.success \in BOOLEAN /\ Stopping.message \in Texts
        /\ Already.success \in BOOLEAN /\ Already.message \in Texts
        /\ Failed.success \in BOOLEAN /\ Failed.message \in Texts
        /\ NoResponse.success \in BOOLEAN /\ NoResponse.message \in Texts
    BY DEF Active, Stopping, Already, Failed, NoResponse, Texts
  <2> QED
    BY <2>1 DEF Responses
<1>3. {Active, Stopping, Already, Failed, NoResponse} \subseteq Responses
  BY DEF Responses
<1>4. /\ Active.success /\ Stopping.success
      /\ ~Already.success /\ ~Failed.success /\ ~NoResponse.success
  BY DEF Active, Stopping, Already, Failed, NoResponse
<1>5. NoResponse.message = "none" /\ Already.message # "none" /\ Failed.message # "none"
  BY DEF Already, Failed, NoResponse
<1>6. OperatorCommands \subseteq Commands /\ "Running" \in Commands
  BY ControlAssumption DEF Commands
<1> QED
  BY <1>1, <1>2, <1>3, <1>4, <1>5, <1>6

(* An answer arrives at its client, if it waits, and nowhere else.         *)
LEMMA AnswerArrives ==
  ASSUME ControlTypeOK, NEW c \in Clients, NEW r \in Responses, sendActivationResponse(c, r)
  PROVE  /\ response' \in [Clients -> Responses]
         /\ \A d \in Clients : d # c => response'[d] = response[d]
         /\ response'[c] = response[c] \/ (response'[c] = r /\ pc[c] \in {"sent", "delivered"})
  BY DEF ControlTypeOK, sendActivationResponse
-----------------------------------------------------------------------------
(* The end of a command keeps the types.                                   *)
LEMMA ExitTypes ==
  ASSUME ControlTypeOK, NEW c \in Clients, NEW code \in {0, 1, 2}, NEW text \in Texts,
         Exit(c, code, text)
  PROVE  /\ pc' \in [Clients -> {"none", "sent", "delivered", "stopping", "done"}]
         /\ response' \in [Clients -> Responses]
         /\ status' \in [Clients -> {0, 1, 2}] /\ output' \in [Clients -> Texts]
  BY ConstantFacts DEF ControlTypeOK, Exit

(* Nothing has been asked for.                                             *)
LEMMA ControlInit == Init => ControlInv
<1> SUFFICES ASSUME Init PROVE ControlInv
  OBVIOUS
<1>1. ControlTypeOK
  <2>1. helper \in [Helpers -> {"check", "ask", "wait", "watch", "done"}]
    BY DEF Init, Helpers
  <2>2. attempt \in [Helpers -> 1..MaxAttempts]
    <3>1. 1 \in 1..MaxAttempts
      BY ControlAssumption
    <3> QED
      BY <3>1 DEF Init
  <2>3. queue \in Seq(Clients)
    BY EmptySeq DEF Init
  <2> QED
    BY <2>1, <2>2, <2>3, ConstantFacts DEF Init, ControlTypeOK, Texts
<1>2. NoneTwice(queue) /\ \A c : ~Within(c, queue)
  <2>1. queue = <<>> /\ Len(queue) = 0
    BY DEF Init
  <2> QED
    BY <2>1 DEF NoneTwice, Within
<1>3. ASSUME NEW c \in Clients PROVE ClientInv(c)
  BY <1>2, ConstantFacts DEF Init, ClientInv, OnePlace, AnswerTrue, StageTrue, Nowhere
<1>4. EarlierOnce
  BY DEF Init, EarlierOnce, Helpers
<1> QED
  BY <1>1, <1>2, <1>3, <1>4 DEF ControlInv

(* The type invariant, action by action.                                   *)
LEMMA ControlTypes == ControlTypeOK /\ [Next]_vars => ControlTypeOK'
<1> SUFFICES ASSUME ControlTypeOK, [Next]_vars PROVE ControlTypeOK'
  OBVIOUS
<1> USE DEF ControlTypeOK
<1>1. ASSUME UNCHANGED vars PROVE ControlTypeOK'
  BY <1>1 DEF vars, lmVars, daemonVars, clientVars, helperVars
<1>2. ASSUME DaemonStep PROVE ControlTypeOK'
  <2>1. CASE DaemonStarts
    BY <2>1 DEF DaemonStarts, lmVars, clientVars, helperVars
  <2>2. CASE DaemonEnds
    BY <2>2 DEF DaemonEnds, lmVars, clientVars, helperVars
  <2>3. CASE ReceivesActivation
    BY <2>3, HeadTailProperties DEF ReceivesActivation, Polls, clientVars, helperVars
  <2>4. CASE ReceivesStop
    <3>1. Head(queue) \in Clients /\ Tail(queue) \in Seq(Clients)
      BY <2>4, HeadTailProperties DEF ReceivesStop, Polls
    <3>2. response' \in [Clients -> Responses]
      BY <2>4, <3>1, AnswerArrives, ConstantFacts DEF ReceivesStop
    <3> QED
      BY <2>4, <3>1, <3>2 DEF ReceivesStop, lmVars, helperVars
  <2>5. CASE SignalsLaunchManager
    BY <2>5 DEF SignalsLaunchManager, Terminate, clientVars, helperVars
  <2> QED
    BY <1>2, <2>1, <2>2, <2>3, <2>4, <2>5 DEF DaemonStep
<1>3. ASSUME LaunchManagerStep PROVE ControlTypeOK'
  <2>1. CASE LaunchManagerExits
    BY <2>1 DEF LaunchManagerExits, daemonVars, clientVars, helperVars
  <2>2. ASSUME NEW c \in Clients, NEW r \in Responses, Outcome(c, r)
        PROVE  response' \in [Clients -> Responses]
    BY <2>2, AnswerArrives DEF Outcome, Answers
  <2>3. ASSUME NEW c \in Clients, ActivationSucceeds(c) PROVE ControlTypeOK'
    BY <2>2, <2>3, ConstantFacts DEF ActivationSucceeds, Outcome, daemonVars, helperVars
  <2>4. ASSUME NEW c \in Clients, ActivationFails(c) PROVE ControlTypeOK'
    BY <2>2, <2>4, ConstantFacts DEF ActivationFails, Outcome, daemonVars, helperVars
  <2> QED
    BY <1>3, <2>1, <2>3, <2>4 DEF LaunchManagerStep
<1>4. ASSUME Interrupted \/ LaunchManagerCrashes PROVE ControlTypeOK'
  BY <1>4 DEF Interrupted, LaunchManagerCrashes, Terminate, daemonVars, clientVars, helperVars
<1>5. ASSUME NEW c \in Clients, NEW what \in Commands, Request(c, what)
      PROVE  /\ pc' \in [Clients -> {"none", "sent", "delivered", "stopping", "done"}]
             /\ command' \in [Clients -> Commands]
             /\ conn' \in [Clients -> {"none", "stale", "live"}]
             /\ response' \in [Clients -> Responses]
             /\ status' \in [Clients -> {0, 1, 2}] /\ output' \in [Clients -> Texts]
             /\ queue' \in Seq(Clients)
  <2>1. "" \in Texts /\ 1 \in {0, 1, 2} /\ Append(queue, c) \in Seq(Clients)
    <3>1. "" \in Texts
      BY Zenon DEF Texts
    <3>2. Append(queue, c) \in Seq(Clients)
      <4>1. queue \in Seq(Clients)
        OBVIOUS
      <4> QED
        BY <4>1, Put
    <3>3. 1 \in {0, 1, 2}
      BY Zenon
    <3> QED
      BY <3>1, <3>2, <3>3, Zenon
  <2>2. CASE Exit(c, 1, "") /\ UNCHANGED <<queue, conn>>
    BY <1>5, <2>1, <2>2, ExitTypes DEF Request
  <2>3. CASE ~(Exit(c, 1, "") /\ UNCHANGED <<queue, conn>>)
    <3>1. /\ command' = [command EXCEPT ![c] = what]
          /\ conn' = [conn EXCEPT ![c] = bound] /\ bound \in {"stale", "live"}
          /\ pc' = [pc EXCEPT ![c] = "sent"] /\ UNCHANGED <<response, status, output>>
          /\ queue' = Append(queue, c) \/ queue' = queue
      BY <1>5, <2>3 DEF Request
    <3>2. queue' \in Seq(Clients)
      BY <2>1, <3>1
    <3> QED
      BY <3>1, <3>2
  <2> QED
    BY <2>2, <2>3
<1>6. ASSUME NEW h \in Helpers, HelperStep(h) PROVE ControlTypeOK'
  <2>1. CASE HelperChecks(h)
    BY <2>1 DEF HelperChecks, lmVars, daemonVars, clientVars
  <2>2. CASE HelperAsks(h)
    <3>1. <<h, attempt[h]>> \in Clients
      BY ConstantFacts
    <3> QED
      BY <2>2, <3>1, <1>5, ConstantFacts DEF HelperAsks, lmVars
  <2>3. CASE HelperTakes(h)
    <3>1. attempt[h] < MaxAttempts => attempt[h] + 1 \in 1..MaxAttempts
      BY ControlAssumption
    <3> QED
      BY <2>3, <3>1 DEF HelperTakes, Terminate, daemonVars, clientVars
  <2>4. CASE HelperWatches(h)
    BY <2>4 DEF HelperWatches, lmVars, daemonVars, clientVars
  <2> QED
    BY <1>6, <2>1, <2>2, <2>3, <2>4 DEF HelperStep
<1>7. ASSUME NEW c \in Clients, ClientStep(c) PROVE ControlTypeOK'
  <2>1. "" \in Texts /\ response[c].message \in Texts /\ NoResponse \in Responses
    BY ConstantFacts DEF Texts
  <2>2. UNCHANGED <<lmVars, daemonVars, helperVars, command, conn>>
    BY <1>7 DEF ClientStep, SeesDelivery, DeliveryTimeout, ResponseTimeout, SeesExit, TakesResponse
  <2>3. ASSUME NEW code \in {0, 1, 2}, NEW text \in Texts, Exit(c, code, text) PROVE ControlTypeOK'
    <3>1. /\ pc' \in [Clients -> {"none", "sent", "delivered", "stopping", "done"}]
          /\ response' \in [Clients -> Responses]
          /\ status' \in [Clients -> {0, 1, 2}] /\ output' \in [Clients -> Texts]
      BY <2>3, ExitTypes
    <3> QED
      BY <2>2, <3>1 DEF lmVars, daemonVars, helperVars
  <2>4. CASE SeesDelivery(c)
    BY <2>2, <2>4 DEF SeesDelivery, lmVars, daemonVars, helperVars
  <2>5. CASE DeliveryTimeout(c) \/ ResponseTimeout(c) \/ SeesExit(c)
    BY <2>1, <2>3, <2>5 DEF DeliveryTimeout, ResponseTimeout, SeesExit
  <2>6. CASE TakesResponse(c) /\ pc'[c] = "done"
    <3>1. pc' # [pc EXCEPT ![c] = "stopping"]
      BY <2>6
    <3> QED
      BY <2>1, <2>3, <2>6, <3>1 DEF TakesResponse
  <2>7. CASE TakesResponse(c) /\ pc'[c] # "done"
    <3>1. \A code, text : ~Exit(c, code, text)
      BY <2>7 DEF Exit
    <3> QED
      BY <2>1, <2>2, <2>7, <3>1 DEF TakesResponse, lmVars, daemonVars, helperVars
  <2> QED
    BY <1>7, <2>4, <2>5, <2>6, <2>7 DEF ClientStep
<1>8. ASSUME NEW c \in Clients, NEW what \in OperatorCommands, OperatorRequests(c, what)
      PROVE  ControlTypeOK'
  BY <1>5, <1>8, ConstantFacts DEF OperatorRequests, lmVars, helperVars
<1> QED
  BY <1>1, <1>2, <1>3, <1>4, <1>6, <1>7, <1>8 DEF Next

-----------------------------------------------------------------------------
(* What a step that touches no request and no client leaves as it was.     *)
LEMMA Untouched ==
  ASSUME NEW d \in Clients, ClientInv(d), UNCHANGED <<queue, activating, reached, clientVars>>,
         lm = "gone" => lm' = "gone"
  PROVE  ClientInv(d)'
  BY DEF ClientInv, OnePlace, AnswerTrue, StageTrue, Nowhere, clientVars

(* A step of the daemon.                                                   *)
LEMMA DaemonKeeps ==
  ASSUME ControlInv, DaemonStep, NEW d \in Clients
  PROVE  NoneTwice(queue') /\ ClientInv(d)' /\ UNCHANGED <<conn, helperVars>>
<1>1. ControlTypeOK /\ NoneTwice(queue) /\ ClientInv(d)
  BY DEF ControlInv
<1>2. CASE DaemonStarts \/ DaemonEnds \/ SignalsLaunchManager
  <2>1. UNCHANGED <<queue, activating, reached, clientVars, helperVars>> /\ (lm = "gone" => lm' = "gone")
    BY <1>2 DEF DaemonStarts, DaemonEnds, SignalsLaunchManager, Terminate, lmVars
  <2> QED
    BY <1>1, <2>1, Untouched DEF clientVars
<1>3. CASE ReceivesActivation
  <2>1. queue # <<>> /\ queue' = Tail(queue) /\ activating' = activating \cup {Head(queue)}
        /\ UNCHANGED <<lm, reached, clientVars, helperVars>>
    BY <1>3 DEF ReceivesActivation, Polls
  <2>2. /\ Head(queue) \in Clients /\ Within(Head(queue), queue) /\ NoneTwice(queue')
        /\ \A e : Within(e, queue') <=> Within(e, queue) /\ e # Head(queue)
    BY <1>1, <2>1, Taken DEF ControlTypeOK
  <2>3. ClientInv(Head(queue))
    BY <2>2 DEF ControlInv
  <2> QED
    BY <1>1, <2>1, <2>2, <2>3
       DEF ClientInv, OnePlace, AnswerTrue, StageTrue, Nowhere, clientVars
<1>4. CASE ReceivesStop
  <2> DEFINE r == IF processExists THEN Stopping ELSE Failed
  <2>1. /\ queue # <<>> /\ queue' = Tail(queue) /\ command[Head(queue)] = "Stop"
        /\ sendActivationResponse(Head(queue), r)
        /\ UNCHANGED <<lmVars, pc, command, conn, status, output, helperVars>>
    BY <1>4 DEF ReceivesStop, Polls
  <2>2. /\ Head(queue) \in Clients /\ Within(Head(queue), queue) /\ NoneTwice(queue')
        /\ \A e : Within(e, queue') <=> Within(e, queue) /\ e # Head(queue)
    BY <1>1, <2>1, Taken DEF ControlTypeOK
  <2>3. ClientInv(Head(queue))
    BY <2>2 DEF ControlInv
  <2>4. r \in {Stopping, Failed} /\ r \in Responses
    BY ConstantFacts
  <2>5. /\ d # Head(queue) => response'[d] = response[d]
        /\ \/ response'[Head(queue)] = response[Head(queue)]
           \/ response'[Head(queue)] = r /\ pc[Head(queue)] \in {"sent", "delivered"}
    BY <1>1, <2>1, <2>2, <2>4, AnswerArrives
  <2> HIDE DEF r
  <2> QED
    BY <1>1, <2>1, <2>2, <2>3, <2>4, <2>5, ConstantFacts
       DEF ClientInv, OnePlace, AnswerTrue, StageTrue, Nowhere, lmVars
<1> QED
  BY <1>2, <1>3, <1>4 DEF DaemonStep

(* The end of a transition, and of Launch Manager.                         *)
LEMMA LaunchManagerKeeps ==
  ASSUME ControlInv, LaunchManagerStep \/ Interrupted \/ LaunchManagerCrashes, NEW d \in Clients
  PROVE  ClientInv(d)' /\ UNCHANGED <<queue, conn, helperVars>>
<1>1. ControlTypeOK /\ \A c \in Clients : ClientInv(c)
  BY DEF ControlInv
<1>2. CASE LaunchManagerExits \/ Interrupted \/ LaunchManagerCrashes
  <2>1. UNCHANGED <<queue, activating, reached, clientVars, helperVars>> /\ (lm = "gone" => lm' = "gone")
    BY <1>2 DEF LaunchManagerExits, Interrupted, LaunchManagerCrashes, Terminate, daemonVars
  <2> QED
    BY <1>1, <2>1, Untouched DEF clientVars
<1>3. ASSUME NEW c \in Clients, NEW r \in Responses, Outcome(c, r)
      PROVE  /\ c # d => response'[d] = response[d]
             /\ response'[c] = response[c] \/ (response'[c] = r /\ pc[c] \in {"sent", "delivered"})
             /\ activating' = activating \ {c}
             /\ UNCHANGED <<lm, queue, pc, command, conn, status, output, helperVars>>
  <2>1. CASE Running
    BY <1>1, <1>3, <2>1, AnswerArrives DEF Outcome, Answers, daemonVars
  <2>2. CASE ~Running
    BY <1>3, <2>2 DEF Outcome, Answers, daemonVars
  <2> QED
    BY <2>1, <2>2
<1>4. ASSUME NEW c \in Clients, ActivationSucceeds(c)
      PROVE  ClientInv(d)' /\ UNCHANGED <<queue, conn, helperVars>>
  <2>1. c \in activating /\ reached' = reached \cup {c} /\ Outcome(c, Active) /\ Active \in Responses
    BY <1>4, ConstantFacts DEF ActivationSucceeds
  <2> QED
    BY <1>1, <1>3, <2>1, ConstantFacts DEF ClientInv, OnePlace, AnswerTrue, StageTrue, Nowhere
<1>5. ASSUME NEW c \in Clients, ActivationFails(c)
      PROVE  ClientInv(d)' /\ UNCHANGED <<queue, conn, helperVars>>
  <2> DEFINE r == IF lm = "alive" /\ active THEN Already ELSE Failed
  <2>1. c \in activating /\ reached' = reached /\ Outcome(c, r)
    BY <1>5 DEF ActivationFails
  <2>2. r \in {Already, Failed} /\ r \in Responses
    BY ConstantFacts
  <2> HIDE DEF r
  <2> QED
    BY <1>1, <1>3, <2>1, <2>2, ConstantFacts DEF ClientInv, OnePlace, AnswerTrue, StageTrue, Nowhere
<1> QED
  BY <1>2, <1>4, <1>5 DEF LaunchManagerStep

(* The end of a command, whatever its code: what it says must be true.     *)
LEMMA ExitKeeps ==
  ASSUME ControlInv, NEW c \in Clients, NEW code, NEW text, Exit(c, code, text),
         UNCHANGED <<lm, activating, reached, queue>>,
         \/ code = 1
         \/ code = 0 /\ command'[c] = "Stop" /\ lm = "gone"
         \/ code = 0 /\ command'[c] # "Stop" /\ c \in reached
         \/ code = 2 /\ Nowhere(c),
         \A e \in Clients : e # c => command'[e] = command[e] /\ conn'[e] = conn[e],
         NEW d \in Clients
  PROVE  ClientInv(d)'
<1>1. ControlTypeOK /\ ClientInv(d)
  BY DEF ControlInv
<1>2. CASE d = c
  <2>1. pc'[c] = "done" /\ status'[c] = code /\ response'[c] = NoResponse
    BY <1>1 DEF Exit, ControlTypeOK
  <2> QED
    BY <1>1, <1>2, <2>1, ConstantFacts DEF ClientInv, OnePlace, AnswerTrue, StageTrue, Nowhere
<1>3. CASE d # c
  <2>1. pc'[d] = pc[d] /\ status'[d] = status[d] /\ response'[d] = response[d]
    BY <1>1, <1>3 DEF Exit, ControlTypeOK
  <2> QED
    BY <1>1, <1>3, <2>1 DEF ClientInv, OnePlace, AnswerTrue, StageTrue, Nowhere
<1> QED
  BY <1>2, <1>3

(* A step of a client that has asked.                                      *)
LEMMA ClientKeeps ==
  ASSUME ControlInv, NEW c \in Clients, ClientStep(c), NEW d \in Clients
  PROVE  ClientInv(d)' /\ UNCHANGED <<queue, conn, helperVars>>
<1>1. ControlTypeOK /\ ClientInv(c) /\ ClientInv(d)
  BY DEF ControlInv
<1>2. UNCHANGED <<lm, activating, reached, queue, command, conn, helperVars>>
  BY DEF ClientStep, SeesDelivery, DeliveryTimeout, TakesResponse, ResponseTimeout, SeesExit,
         lmVars, daemonVars
<1>7. /\ UNCHANGED <<lm, activating, reached, queue>>
      /\ \A e \in Clients : e # c => command'[e] = command[e] /\ conn'[e] = conn[e]
  BY <1>2
<1>3. CASE SeesDelivery(c)
  <2>1. pc' = [pc EXCEPT ![c] = "delivered"] /\ pc[c] = "sent" /\ conn[c] = "live" /\ queue = <<>>
        /\ UNCHANGED <<response, status>>
    BY <1>3 DEF SeesDelivery
  <2>2. ~Within(c, queue)
    BY <2>1 DEF Within
  <2> QED
    BY <1>1, <1>2, <2>1, <2>2 DEF ControlTypeOK, ClientInv, OnePlace, AnswerTrue, StageTrue, Nowhere
<1>4. ASSUME Exit(c, 1, "") PROVE ClientInv(d)'
  BY <1>4, <1>7, ExitKeeps
<1>5. CASE SeesExit(c) /\ lm = "gone" /\ Exit(c, 0, "")
  <2>1. command'[c] = "Stop"
    BY <1>1, <1>2, <1>5 DEF SeesExit, ClientInv, StageTrue
  <2> QED
    BY <1>2, <1>5, <1>7, <2>1, ExitKeeps
<1>6. CASE TakesResponse(c)
  <2>1. pc[c] = "delivered" /\ response[c] # NoResponse
    BY <1>6 DEF TakesResponse
  <2>2. CASE response[c].success /\ command[c] = "Stop" /\ pc' = [pc EXCEPT ![c] = "stopping"]
             /\ response' = [response EXCEPT ![c] = NoResponse] /\ UNCHANGED <<status, output>>
    BY <1>1, <1>2, <2>1, <2>2, ConstantFacts
       DEF ControlTypeOK, ClientInv, OnePlace, AnswerTrue, StageTrue, Nowhere
  <2>3. CASE response[c].success /\ command[c] # "Stop" /\ Exit(c, 0, "")
    <3>1. c \in reached /\ command'[c] # "Stop"
      BY <1>1, <1>2, <2>3 DEF ClientInv, AnswerTrue
    <3> QED
      BY <1>2, <1>7, <2>3, <3>1, ExitKeeps
  <2>4. CASE ~response[c].success /\ Exit(c, 2, response[c].message)
    <3>1. Nowhere(c)
      BY <1>1, <2>1, <2>4 DEF ClientInv, AnswerTrue
    <3> QED
      BY <1>2, <1>7, <2>4, <3>1, ExitKeeps
  <2> QED
    BY <1>2, <1>6, <2>2, <2>3, <2>4 DEF TakesResponse
<1> QED
  BY <1>2, <1>3, <1>4, <1>5, <1>6 DEF ClientStep, DeliveryTimeout, ResponseTimeout, SeesExit

(* A new command: its request comes into the socket, or it fails.          *)
LEMMA RequestKeeps ==
  ASSUME ControlInv, NEW c \in Clients, NEW what, Request(c, what),
         UNCHANGED lmVars, NEW d \in Clients
  PROVE  /\ NoneTwice(queue') /\ ClientInv(d)'
         /\ d # c => conn'[d] = conn[d]
<1>1. ControlTypeOK /\ NoneTwice(queue) /\ ClientInv(c) /\ ClientInv(d)
  BY DEF ControlInv
<1>2. /\ pc[c] = "none" /\ Nowhere(c) /\ response[c] = NoResponse
      /\ UNCHANGED <<lm, activating, reached>>
  BY <1>1 DEF Request, ClientInv, OnePlace, AnswerTrue, lmVars
<1>3. command' = [command EXCEPT ![c] = what]
  BY DEF Request
<1>4. CASE Exit(c, 1, "") /\ UNCHANGED <<queue, conn>>
  <2>1. \A e \in Clients : e # c => command'[e] = command[e] /\ conn'[e] = conn[e]
    BY <1>1, <1>3, <1>4 DEF ControlTypeOK
  <2>2. ClientInv(d)'
    BY <1>2, <1>4, <2>1, ExitKeeps
  <2> QED
    BY <1>1, <1>4, <2>1, <2>2
<1>5. CASE /\ queue' = Append(queue, c) \/ queue' = queue
           /\ conn' = [conn EXCEPT ![c] = bound] /\ pc' = [pc EXCEPT ![c] = "sent"]
           /\ UNCHANGED <<response, status, output>>
  <2>1. /\ \A e : Within(e, queue') => Within(e, queue) \/ e = c
        /\ \A e : Within(e, queue) => Within(e, queue')
        /\ NoneTwice(queue')
    <3>1. queue \in Seq(Clients) /\ ~Within(c, queue)
      BY <1>1, <1>2 DEF ControlTypeOK, Nowhere
    <3>2. /\ \A e : Within(e, Append(queue, c)) <=> Within(e, queue) \/ e = c
          /\ NoneTwice(Append(queue, c))
      BY <1>1, <3>1, Put
    <3> QED
      BY <1>1, <1>5, <3>2
  <2>2. CASE d = c
    <3>1. pc'[d] = "sent" /\ response'[d] = NoResponse /\ d \notin activating' /\ d \notin reached'
      BY <1>1, <1>2, <1>5, <2>2 DEF ControlTypeOK, Nowhere
    <3> QED
      BY <2>1, <2>2, <3>1, ConstantFacts DEF ClientInv, OnePlace, AnswerTrue, StageTrue, Nowhere
  <2>3. CASE d # c
    <3>1. /\ pc'[d] = pc[d] /\ command'[d] = command[d] /\ conn'[d] = conn[d]
          /\ response'[d] = response[d] /\ status'[d] = status[d]
          /\ Within(d, queue') <=> Within(d, queue)
      BY <1>1, <1>3, <1>5, <2>1, <2>3 DEF ControlTypeOK
    <3> QED
      BY <1>1, <1>2, <2>1, <2>3, <3>1 DEF ClientInv, OnePlace, AnswerTrue, StageTrue, Nowhere
  <2> QED
    BY <2>1, <2>2, <2>3
<1> QED
  BY <1>4, <1>5 DEF Request

(* The helpers: the earlier one never comes back to ask.                   *)
LEMMA HelperKeeps ==
  ASSUME ControlInv, NEW h \in Helpers, HelperStep(h)
  PROVE  NoneTwice(queue') /\ EarlierOnce' /\ \A d \in Clients : ClientInv(d)'
<1>1. /\ ControlTypeOK /\ NoneTwice(queue) /\ EarlierOnce
      /\ \A d \in Clients : ClientInv(d)
  BY DEF ControlInv
<1>2. "earlier" \in Helpers
  BY DEF Helpers
<1>3. CASE HelperAsks(h)
  <2> DEFINE c == <<h, attempt[h]>>
  <2>1. c \in Clients /\ c[1] = h /\ c[2] = attempt[h]
    BY <1>1, ConstantFacts DEF ControlTypeOK
  <2>2. /\ Request(c, "Running") /\ UNCHANGED <<lmVars, attempt>>
        /\ helper[h] = "ask" /\ helper' = [helper EXCEPT ![h] = "wait"]
    BY <1>3 DEF HelperAsks
  <2>3. \A d \in Clients : /\ NoneTwice(queue') /\ ClientInv(d)'
                           /\ d # c => conn'[d] = conn[d]
    <3> HIDE DEF c
    <3> QED
      BY <2>1, <2>2, RequestKeeps
  <2>4. EarlierOnce'
    <3>1. helper'["earlier"] = "ask" => attempt'["earlier"] = 1
      BY <1>1, <1>2, <2>2 DEF ControlTypeOK, EarlierOnce
    <3>2. ASSUME NEW e \in Clients, e[1] = "earlier", conn'[e] # "none" PROVE e[2] = 1
      <4>1. CASE e = c
        BY <1>1, <2>1, <2>2, <3>2, <4>1 DEF EarlierOnce
      <4>2. CASE e # c
        BY <1>1, <2>3, <3>2, <4>2 DEF EarlierOnce
      <4> QED
        BY <4>1, <4>2
    <3> QED
      BY <3>1, <3>2 DEF EarlierOnce
  <2> QED
    BY <2>1, <2>3, <2>4
<1>4. CASE HelperChecks(h) \/ HelperTakes(h) \/ HelperWatches(h)
  <2>1. UNCHANGED <<queue, activating, reached, clientVars>> /\ (lm = "gone" => lm' = "gone")
    BY <1>4 DEF HelperChecks, HelperTakes, HelperWatches, Terminate, lmVars, daemonVars
  <2>2. \A d \in Clients : ClientInv(d)'
    BY <1>1, <2>1, Untouched
  <2>3. helper'["earlier"] = "ask" => helper["earlier"] = "ask" /\ h # "earlier"
    BY <1>1, <1>2, <1>4 DEF HelperChecks, HelperTakes, HelperWatches, ControlTypeOK
  <2>4. h # "earlier" => attempt'["earlier"] = attempt["earlier"]
    BY <1>1, <1>2, <1>4 DEF HelperChecks, HelperTakes, HelperWatches, ControlTypeOK
  <2> QED
    BY <1>1, <2>1, <2>2, <2>3, <2>4 DEF EarlierOnce, clientVars
<1> QED
  BY <1>3, <1>4 DEF HelperStep

(* The whole invariant is kept by every step.                              *)
LEMMA ControlStep == ControlInv /\ [Next]_vars => ControlInv'
<1> SUFFICES ASSUME ControlInv, [Next]_vars PROVE ControlInv'
  OBVIOUS
<1>1. /\ ControlTypeOK /\ NoneTwice(queue) /\ EarlierOnce
      /\ \A d \in Clients : ClientInv(d)
  BY DEF ControlInv
<1>2. ControlTypeOK'
  BY <1>1, ControlTypes
<1>3. ASSUME UNCHANGED <<conn, helperVars>> PROVE EarlierOnce'
  BY <1>1, <1>3 DEF EarlierOnce, helperVars
<1>4. CASE UNCHANGED vars
  <2>1. /\ UNCHANGED <<queue, activating, reached, clientVars>> /\ (lm = "gone" => lm' = "gone")
        /\ UNCHANGED <<conn, helperVars>>
    BY <1>4 DEF vars, lmVars, daemonVars, clientVars
  <2> QED
    BY <1>1, <1>2, <1>3, <2>1, Untouched DEF ControlInv
<1>5. CASE DaemonStep
  <2>1. \A d \in Clients : NoneTwice(queue') /\ ClientInv(d)' /\ UNCHANGED <<conn, helperVars>>
    BY <1>5, DaemonKeeps
  <2>2. <<"earlier", 1>> \in Clients
    BY ControlAssumption DEF Clients, Helpers
  <2> QED
    BY <1>2, <1>3, <2>1, <2>2 DEF ControlInv
<1>6. CASE LaunchManagerStep \/ Interrupted \/ LaunchManagerCrashes
  <2>1. \A d \in Clients : ClientInv(d)' /\ UNCHANGED <<queue, conn, helperVars>>
    BY <1>6, LaunchManagerKeeps
  <2>2. <<"earlier", 1>> \in Clients
    BY ControlAssumption DEF Clients, Helpers
  <2> QED
    BY <1>1, <1>2, <1>3, <2>1, <2>2 DEF ControlInv
<1>7. ASSUME NEW h \in Helpers, HelperStep(h) PROVE ControlInv'
  BY <1>2, <1>7, HelperKeeps DEF ControlInv
<1>8. ASSUME NEW c \in Clients, ClientStep(c) PROVE ControlInv'
  <2>1. \A d \in Clients : ClientInv(d)' /\ UNCHANGED <<queue, conn, helperVars>>
    BY <1>8, ClientKeeps
  <2> QED
    BY <1>1, <1>2, <1>3, <2>1 DEF ControlInv
<1>9. ASSUME NEW c \in Clients, NEW what \in OperatorCommands, OperatorRequests(c, what) PROVE ControlInv'
  <2>1. c[1] = "operator" /\ Request(c, what) /\ UNCHANGED <<lmVars, helperVars>>
    BY <1>9 DEF OperatorRequests
  <2>2. \A d \in Clients : /\ NoneTwice(queue') /\ ClientInv(d)'
                           /\ d # c => conn'[d] = conn[d]
    BY <2>1, RequestKeeps
  <2>3. EarlierOnce'
    BY <1>1, <2>1, <2>2 DEF EarlierOnce, helperVars
  <2> QED
    BY <1>2, <2>2, <2>3 DEF ControlInv
<1> QED
  BY <1>4, <1>5, <1>6, <1>7, <1>8, <1>9 DEF Next

(* So it holds in every state.                                             *)
THEOREM ControlInvariant == Spec => []ControlInv
  BY ControlInit, ControlStep, PTL DEF Spec

-----------------------------------------------------------------------------
(* The exit code of lmcontrol tells the truth about its own request, for   *)
(* any number of clients, crashes and late answers (lmcontrol.cpp).        *)
THEOREM ExitCodesHonest == Spec => []StatusHonest
<1>1. ControlInv => StatusHonest
  BY DEF ControlInv, ClientInv, StageTrue, Nowhere, StatusHonest
<1> QED
  BY <1>1, ControlInvariant, PTL

(* A client that reports delivery has been served: the request has left    *)
(* the socket of the living daemon (the 500 ms test of lmcontrol.cpp).     *)
THEOREM DeliveryHonest == Spec => []DeliveredWasReceived
<1>1. ControlInv => DeliveredWasReceived
  BY DEF ControlInv, ClientInv, StageTrue, Within, DeliveredWasReceived
<1> QED
  BY <1>1, ControlInvariant, PTL

(* The helper of an earlier execution puts at most one request into the    *)
(* socket of this one (the generation of run_traffic_light_system.sh).     *)
THEOREM EarlierHelperAsksOnce == Spec => []StaleHelperAsksOnce
<1>1. ASSUME ControlInv PROVE StaleHelperAsksOnce
  <2> DEFINE S == {c \in Clients : c[1] = "earlier" /\ conn[c] = "live"}
  <2>1. S \subseteq {<<"earlier", 1>>}
    <3>1. ASSUME NEW c \in S PROVE c = <<"earlier", 1>>
      <4>1. c \in Clients /\ c[1] = "earlier" /\ c[2] = 1
        BY <1>1 DEF ControlInv, EarlierOnce
      <4> QED
        BY <4>1 DEF Clients
    <3> QED
      BY <3>1
  <2>2. IsFiniteSet({<<"earlier", 1>>}) /\ Cardinality({<<"earlier", 1>>}) = 1
    BY FS_Singleton
  <2>3. Cardinality(S) <= 1
    <3> HIDE DEF S
    <3> QED
      BY <2>1, <2>2, FS_Subset
  <2> QED
    BY <2>3 DEF StaleHelperAsksOnce
<1> QED
  BY <1>1, ControlInvariant, PTL

=============================================================================
