-------------------------- MODULE RunTargetControl --------------------------
(***************************************************************************)
(* Starting and stopping the system: the control daemon                    *)
(* (control_daemon.cpp), the command lmcontrol (lmcontrol.cpp) and the     *)
(* helper of the deployment script that asks for the run target Running    *)
(* (run_traffic_light_system.sh), over the shared memory of control.h.     *)
(*                                                                         *)
(* The model is one execution of the script, with its Launch Manager, the  *)
(* daemon that it starts and the helper, and what an earlier execution may *)
(* have left behind: a control socket nobody reads, and its helper.  Other *)
(* commands are given by hand.  Launch Manager and the socket library are  *)
(* not in this repository: a transition ends with any result, and a stop   *)
(* ends the daemon first.                                                  *)
(*                                                                         *)
(* The deadlines (500 ms for delivery, 180 s for the answer, 150 s for the *)
(* exit) may pass at any moment: client and daemon are not synchronised,   *)
(* and a client that is not scheduled may look at its clock before it      *)
(* looks at the socket.                                                    *)
(***************************************************************************)
EXTENDS Naturals, Sequences, FiniteSets

CONSTANTS
  MaxAttempts,             (* requests of a helper, 50 in the script       *)
  MaxOperators,            (* bound: commands given by hand                *)
  OperatorCommands,        (* which of Commands they are                   *)
  kControlSocketCapacity

Helpers  == {"earlier", "current"}
Commands == {"Running", "Stop"}

(* An invocation of lmcontrol, and with it its process id and its response *)
(* socket: the n-th of a helper, or of the operators.                      *)
Clients == (Helpers \X (1..MaxAttempts)) \cup ({"operator"} \X (1..MaxOperators))

ASSUME ControlAssumption ==
  /\ MaxAttempts \in Nat \ {0} /\ MaxOperators \in Nat /\ OperatorCommands \subseteq Commands
  /\ kControlSocketCapacity \in Nat \ {0}

(* What a RunTargetResponse says: success, success with the process id of  *)
(* Launch Manager, failure because Running is active, failure.             *)
Active     == [success |-> TRUE,  message |-> ""]
Stopping   == [success |-> TRUE,  message |-> "shutdown_pid"]
Already    == [success |-> FALSE, message |-> "already in requested state"]
Failed     == [success |-> FALSE, message |-> "failed"]
NoResponse == [success |-> FALSE, message |-> "none"]
Responses  == {Active, Stopping, Already, Failed, NoResponse}

VARIABLES
  (* Launch Manager, external *)
  lm,                 (* "alive", "stopping" or "gone"                     *)
  active,             (* it is in run target Running                       *)
  activating,         (* clients whose transitions are under way           *)
  (* the daemon *)
  daemon,             (* "none", "loop", "signal", "ended", "crashed"      *)
  queue,              (* its control socket                                *)
  bound,              (* what /sm_control names: "none", "stale", "live"   *)
  (* lmcontrol *)
  pc,                 (* "none", "sent", "delivered", "stopping", "done"   *)
  command,
  conn,               (* the control socket it got: as bound               *)
  response,           (* its response socket                               *)
  status, output,     (* exit code and the message printed with code 2     *)
  (* the helpers *)
  helper,             (* "check", "ask", "wait", "watch", "done"           *)
  attempt,
  (* history *)
  reached             (* clients whose transition succeeded                *)

lmVars     == <<lm, active, activating, reached>>
daemonVars == <<daemon, queue, bound>>
clientVars == <<pc, command, conn, response, status, output>>
helperVars == <<helper, attempt>>
vars == <<lmVars, daemonVars, clientVars, helperVars>>

(* The script has written its generation and becomes Launch Manager, just  *)
(* after an earlier helper has looked at the generation.                   *)
Init ==
  /\ lm = "alive" /\ active = FALSE /\ activating = {} /\ reached = {}
  /\ daemon = "none" /\ queue = <<>>
  /\ bound \in {"none", "stale"}
  /\ pc = [c \in Clients |-> "none"] /\ command = [c \in Clients |-> "Running"]
  /\ conn = [c \in Clients |-> "none"] /\ response = [c \in Clients |-> NoResponse]
  /\ status = [c \in Clients |-> 0] /\ output = [c \in Clients |-> ""]
  /\ helper = [h \in Helpers |-> IF h = "earlier" THEN "ask" ELSE "check"]
  /\ attempt = [h \in Helpers |-> 1]

-----------------------------------------------------------------------------
(***************************************************************************)
(* The daemon.                                                             *)
(***************************************************************************)

Running       == daemon \in {"loop", "signal"}
processExists == lm # "gone"

(* The response socket exists while the client waits and holds one message. *)
sendActivationResponse(c, r) ==
  response' = IF pc[c] \in {"sent", "delivered"} /\ response[c] = NoResponse
              THEN [response EXCEPT ![c] = r] ELSE response

(* controlSocket.create makes a new socket under the name, or fails.       *)
DaemonStarts ==
  /\ lm = "alive" /\ daemon = "none"
  /\ \/ daemon' = "loop" /\ bound' = "live"
     \/ daemon' = "ended" /\ bound' = bound
  /\ UNCHANGED <<lmVars, queue, clientVars, helperVars>>

(* A turn of the loop: the flag that the SIGTERM of Launch Manager sets is *)
(* looked at here only.                                                    *)
DaemonEnds ==
  /\ daemon = "loop" /\ lm = "stopping"
  /\ daemon' = "ended" /\ bound' = "none"
  /\ UNCHANGED <<lmVars, queue, clientVars, helperVars>>

Polls == daemon = "loop" /\ queue # <<>>

ReceivesActivation ==
  /\ Polls /\ command[Head(queue)] # "Stop"
  /\ queue' = Tail(queue)
  /\ activating' = activating \cup {Head(queue)}
  /\ UNCHANGED <<lm, active, reached, daemon, bound, clientVars, helperVars>>

(* Mutant: no signal when the client has gone.                             *)
ReceivesStopMutant ==
  /\ Polls /\ command[Head(queue)] = "Stop"
  /\ queue' = Tail(queue)
  /\ sendActivationResponse(Head(queue), IF processExists THEN Stopping ELSE Failed)
  /\ daemon' = IF processExists /\ pc[Head(queue)] # "done" THEN "signal" ELSE "loop"
  /\ UNCHANGED <<lmVars, bound, pc, command, conn, status, output, helperVars>>

(* The answer goes out before the signal.                                  *)
ReceivesStop ==
  /\ Polls /\ command[Head(queue)] = "Stop"
  /\ queue' = Tail(queue)
  /\ sendActivationResponse(Head(queue), IF processExists THEN Stopping ELSE Failed)
  /\ daemon' = IF processExists THEN "signal" ELSE "loop"
  /\ UNCHANGED <<lmVars, bound, pc, command, conn, status, output, helperVars>>

(* SIGTERM: Launch Manager begins to stop.                                 *)
Terminate == lm' = IF lm = "alive" THEN "stopping" ELSE lm

SignalsLaunchManager ==
  /\ daemon = "signal"
  /\ Terminate
  /\ daemon' = "loop"
  /\ UNCHANGED <<active, activating, reached, queue, bound, clientVars, helperVars>>

(* The callback of ActivateRunTarget, which the end of the daemon cancels. *)
Answers(c, r) ==
  IF Running THEN sendActivationResponse(c, r) ELSE response' = response

Outcome(c, r) ==
  /\ activating' = activating \ {c}
  /\ Answers(c, r)
  /\ UNCHANGED <<lm, daemonVars, pc, command, conn, status, output, helperVars>>

ActivationSucceeds(c) ==
  /\ c \in activating /\ lm = "alive" /\ ~active
  /\ active' = TRUE /\ reached' = reached \cup {c}
  /\ Outcome(c, Active)

ActivationFails(c) ==
  /\ c \in activating
  /\ Outcome(c, IF lm = "alive" /\ active THEN Already ELSE Failed)
  /\ UNCHANGED <<active, reached>>

-----------------------------------------------------------------------------
(***************************************************************************)
(* lmcontrol.                                                              *)
(***************************************************************************)

Exit(c, code, text) ==
  /\ pc' = [pc EXCEPT ![c] = "done"]
  /\ status' = [status EXCEPT ![c] = code] /\ output' = [output EXCEPT ![c] = text]
  /\ response' = [response EXCEPT ![c] = NoResponse]

(* Up to the request in the control socket, any step of which may fail.  A *)
(* request in a socket nobody reads stays there.                           *)
Request(c, what) ==
  /\ pc[c] = "none"
  /\ command' = [command EXCEPT ![c] = what]
  /\ \/ /\ bound = "live" /\ Len(queue) < kControlSocketCapacity
        /\ queue' = Append(queue, c)
        /\ conn' = [conn EXCEPT ![c] = bound] /\ pc' = [pc EXCEPT ![c] = "sent"]
        /\ UNCHANGED <<response, status, output>>
     \/ /\ bound = "stale"
        /\ conn' = [conn EXCEPT ![c] = bound] /\ pc' = [pc EXCEPT ![c] = "sent"]
        /\ UNCHANGED <<queue, response, status, output>>
     \/ Exit(c, 1, "") /\ UNCHANGED <<queue, conn>>

(* Mutant: the request is taken for delivered when it is not the next.     *)
SeesDeliveryMutant(c) ==
  /\ pc[c] = "sent" /\ conn[c] = "live" /\ (queue # <<>> => Head(queue) # c)
  /\ pc' = [pc EXCEPT ![c] = "delivered"]
  /\ UNCHANGED <<command, conn, response, status, output>>

(* The request is taken for delivered when the socket is seen empty.       *)
SeesDelivery(c) ==
  /\ pc[c] = "sent" /\ conn[c] = "live" /\ queue = <<>>
  /\ pc' = [pc EXCEPT ![c] = "delivered"]
  /\ UNCHANGED <<command, conn, response, status, output>>

DeliveryTimeout(c) ==
  /\ pc[c] = "sent"
  /\ Exit(c, 1, "") /\ UNCHANGED <<command, conn>>

(* Mutant: the command is over when the stop is accepted.                  *)
TakesResponseMutant(c) ==
  /\ pc[c] = "delivered" /\ response[c] # NoResponse
  /\ Exit(c, IF response[c].success THEN 0 ELSE 2, response[c].message)
  /\ UNCHANGED <<command, conn>>

(* A success that answers a stop carries a process id.                     *)
TakesResponse(c) ==
  /\ pc[c] = "delivered" /\ response[c] # NoResponse
  /\ LET r == response[c]
     IN  \/ /\ r.success /\ command[c] = "Stop"
            /\ pc' = [pc EXCEPT ![c] = "stopping"]
            /\ response' = [response EXCEPT ![c] = NoResponse]
            /\ UNCHANGED <<status, output>>
         \/ r.success /\ command[c] # "Stop" /\ Exit(c, 0, "")
         \/ ~r.success /\ Exit(c, 2, r.message)
  /\ UNCHANGED <<command, conn>>

(* Mutant: an answer that never comes is waited for without a deadline.    *)
ResponseTimeoutMutant(c) ==
  /\ pc[c] = "delivered" /\ response[c] # NoResponse
  /\ Exit(c, 1, "") /\ UNCHANGED <<command, conn>>

ResponseTimeout(c) ==
  /\ pc[c] = "delivered"
  /\ Exit(c, 1, "") /\ UNCHANGED <<command, conn>>

(* waitForProcessExit: the process is gone, or the deadline passes.        *)
SeesExit(c) ==
  /\ pc[c] = "stopping"
  /\ (lm = "gone" /\ Exit(c, 0, "")) \/ Exit(c, 1, "")
  /\ UNCHANGED <<command, conn>>

ClientStep(c) ==
  /\ \/ SeesDelivery(c)
     \/ DeliveryTimeout(c)
     \/ TakesResponse(c)
     \/ ResponseTimeout(c)
     \/ SeesExit(c)
  /\ UNCHANGED <<lmVars, daemonVars, helperVars>>

OperatorRequests(c, what) ==
  /\ c[1] = "operator" /\ Request(c, what)
  /\ UNCHANGED <<lmVars, daemon, bound, helperVars>>

-----------------------------------------------------------------------------
(***************************************************************************)
(* The helpers of the deployment script.                                   *)
(***************************************************************************)

(* Mutant: the generation is not looked at.                                *)
HelperChecksMutant(h) ==
  /\ helper[h] = "check"
  /\ helper' = [helper EXCEPT ![h] = "ask"]
  /\ UNCHANGED <<lmVars, daemonVars, clientVars, attempt>>

(* The earlier helper is of a generation that is no longer the active one. *)
HelperChecks(h) ==
  /\ helper[h] = "check"
  /\ helper' = [helper EXCEPT ![h] = IF h = "earlier" \/ lm = "gone" THEN "done" ELSE "ask"]
  /\ UNCHANGED <<lmVars, daemonVars, clientVars, attempt>>

HelperAsks(h) ==
  /\ helper[h] = "ask"
  /\ Request(<<h, attempt[h]>>, "Running")
  /\ helper' = [helper EXCEPT ![h] = "wait"]
  /\ UNCHANGED <<lmVars, daemon, bound, attempt>>

(* After MaxAttempts without an answer, or an activation that failed for   *)
(* any reason but that Running is active, a helper ends its own Launch     *)
(* Manager; that of the earlier one has gone.                              *)
HelperTakes(h) ==
  /\ helper[h] = "wait"
  /\ LET c       == <<h, attempt[h]>>
         retry   == status[c] = 1 /\ attempt[h] < MaxAttempts
         already == status[c] = 2 /\ output[c] = Already.message
     IN  /\ pc[c] = "done"
         /\ helper' = [helper EXCEPT ![h] = CASE status[c] = 0 -> "watch"
                                              [] retry         -> "check"
                                              [] OTHER         -> "done"]
         /\ attempt' = [attempt EXCEPT ![h] = IF retry THEN @ + 1 ELSE @]
         /\ IF status[c] = 0 \/ retry \/ already \/ h = "earlier" THEN lm' = lm ELSE Terminate
  /\ UNCHANGED <<active, activating, reached, daemonVars, clientVars>>

HelperWatches(h) ==
  /\ helper[h] = "watch" /\ (h = "earlier" \/ lm = "gone")
  /\ helper' = [helper EXCEPT ![h] = "done"]
  /\ UNCHANGED <<lmVars, daemonVars, clientVars, attempt>>

-----------------------------------------------------------------------------
(***************************************************************************)
(* Launch Manager, as far as the others see it.                            *)
(***************************************************************************)

(* Ctrl-C, or a SIGTERM that Bazel passes on.                              *)
Interrupted ==
  /\ lm = "alive"
  /\ Terminate
  /\ UNCHANGED <<active, activating, reached, daemonVars, clientVars, helperVars>>

LaunchManagerExits ==
  /\ lm = "stopping" /\ ~Running
  /\ lm' = "gone" /\ active' = FALSE
  /\ UNCHANGED <<activating, reached, daemonVars, clientVars, helperVars>>

(* Abnormally, with its children or without.                               *)
LaunchManagerCrashes ==
  /\ processExists
  /\ lm' = "gone" /\ active' = FALSE
  /\ daemon' \in {daemon, IF Running THEN "crashed" ELSE daemon}
  /\ UNCHANGED <<activating, reached, queue, bound, clientVars, helperVars>>

-----------------------------------------------------------------------------
DaemonStep ==
  DaemonStarts \/ DaemonEnds \/ ReceivesActivation \/ ReceivesStop \/ SignalsLaunchManager

HelperStep(h) == HelperChecks(h) \/ HelperAsks(h) \/ HelperTakes(h) \/ HelperWatches(h)

LaunchManagerStep ==
  \/ LaunchManagerExits
  \/ \E c \in Clients : ActivationSucceeds(c) \/ ActivationFails(c)

Next ==
  \/ DaemonStep
  \/ LaunchManagerStep
  \/ Interrupted
  \/ LaunchManagerCrashes
  \/ \E h \in Helpers : HelperStep(h)
  \/ \E c \in Clients : ClientStep(c) \/ \E what \in OperatorCommands : OperatorRequests(c, what)

Spec == Init /\ [][Next]_vars

(* What runs goes on: the daemon polls every 100 ms, Launch Manager bounds *)
(* a transition and a stop, and the deadlines of a client pass.            *)
Fairness ==
  /\ WF_vars(DaemonStep) /\ WF_vars(LaunchManagerStep)
  /\ \A h \in Helpers : WF_vars(HelperStep(h))
  /\ \A c \in Clients : WF_vars(ClientStep(c))

LiveSpec == Spec /\ Fairness

-----------------------------------------------------------------------------
(***************************************************************************)
(* Properties.                                                             *)
(***************************************************************************)

(* The exit code of lmcontrol tells what became of its own request         *)
(* (lmcontrol.cpp, 143-145), whatever other clients, late answers and      *)
(* crashes there are: 0 only if the transition it asked for succeeded or,  *)
(* for a stop, Launch Manager has gone; 2 only if the transition failed.   *)
StatusHonest ==
  \A c \in Clients : pc[c] = "done" =>
    /\ status[c] = 0 /\ command[c] # "Stop" => c \in reached
    /\ status[c] = 0 /\ command[c] = "Stop" => lm = "gone"
    /\ status[c] = 2 => c \notin reached

(* A client that reports delivery was served: its request has left the     *)
(* socket, although several clients share it and only its being empty is   *)
(* looked at, and was not left in the socket of an earlier execution.      *)
DeliveredWasReceived ==
  \A c \in Clients : pc[c] \in {"delivered", "stopping"} =>
    /\ conn[c] = "live"
    /\ \A i \in 1..Len(queue) : queue[i] # c

(* The helper of an earlier execution makes at most one request to the     *)
(* daemon of this one, the one that it was about to make when the          *)
(* generation changed.                                                     *)
StaleHelperAsksOnce ==
  Cardinality({c \in Clients : c[1] = "earlier" /\ conn[c] = "live"}) <= 1

(* A stop that is in the daemon's socket ends Launch Manager, even if the  *)
(* client that asked for it has given up, unless the daemon crashes first. *)
StopCarriedOut ==
  (\E i \in 1..Len(queue) : command[queue[i]] = "Stop") ~> (lm = "gone" \/ daemon = "crashed")

(* A helper comes to a decision, and so does every command it waits for:   *)
(* Running is active, or it has given up.                                  *)
HelperDecides ==
  \A h \in Helpers : helper[h] = "check" ~> helper[h] \in {"watch", "done"}

=============================================================================
