-------------------------------- MODULE BnoApp --------------------------------
(***************************************************************************)
(* bno_app: the owner loop, bno/app/main.c, and the worker that reads the  *)
(* operator's lines, bno/app/imu_console.c.  One plan of the coordinator   *)
(* (ImuCmd) is run from the first turn to the last; the machine of the     *)
(* stage and the session it drives are StagePump's.                        *)
(*                                                                         *)
(* The two threads share the line queue, the flush numbers, the input      *)
(* error and the stop, so the owner's turn is cut where it touches them:   *)
(*   turn      the stop, the session's service, the stage's action, TICK   *)
(*   input     the settle's end, the input gate, one line                  *)
(*   service   imu_cmd_service, the rendering, the publication, the sleep  *)
(* The publication itself is BnoArchive's.                                 *)
(***************************************************************************)
EXTENDS StagePump, Sequences

CONSTANTS
  Plans,            \* the plan imu_cli_parse made of the arguments
  MaxLines,         \* bound: lines the operator types while the loop runs
  QueueCapacity     \* IMU_CONSOLE_QUEUE_CAPACITY

ASSUME AppAssumption == MaxLines \in Nat /\ QueueCapacity \in Nat \ {0}

VARIABLES
  status,               \* running, stopped, completed or error (ownerFailure)
  step,                 \* where the owner is in its turn
  signalStop,
  gate,                 \* inputGate: the stage it is armed for, and its ticket
  settleStarted, settleDue,
  productionConfigured,
  restoredBy,           \* the stages whose result says restoredProduction
  printed

VARIABLES
  tty,                  \* lines typed and not yet read, with the stage they answer
  typed,
  queue,
  flushRequested, flushAcknowledged,
  inputError, stopRequested,
  worker                \* the input worker: where it is, and its local variables

stageVars == <<phase, session, restoredBy, coordinator>>
settle == <<settleStarted, settleDue, productionConfigured>>
flush == <<flushRequested, flushAcknowledged>>
console == <<tty, typed, queue, flush, inputError, stopRequested, worker>>
ownerOnly == <<gate, settle, printed>>

vars == <<status, step, signalStop, ownerOnly, stageVars, console>>

Keys == {"q", "CLEAR", "y", "Enter"}

Running == status = "running"
At(s) == Running /\ step = s

Init ==
  /\ Cmd!Init
  /\ phase = "none"
  /\ sess = "CONFIGURING"
  /\ reports = "none"
  /\ restoredBy = {}
  /\ status = "running"
  /\ step = "start"
  /\ signalStop = FALSE
  /\ gate = [stage |-> "NONE", flushTicket |-> 0]
  /\ settleStarted = FALSE
  /\ settleDue = FALSE
  /\ productionConfigured = FALSE
  /\ printed = {}
  /\ tty = <<>>
  /\ typed = 0
  /\ queue = <<>>
  /\ flushRequested = 0
  /\ flushAcknowledged = 0
  /\ inputError = FALSE
  /\ stopRequested = FALSE
  /\ worker = [pc |-> "top"]

-----------------------------------------------------------------------------
(* The operator, and the signal handler                                    *)

Type(key) ==
  /\ Running
  /\ typed < MaxLines
  /\ worker.pc # "done"
  /\ typed' = typed + 1
  /\ tty' = Append(tty, [key |-> key, at |-> s_active])
  /\ UNCHANGED <<status, step, signalStop, ownerOnly, stageVars, queue, flush,
                 inputError, stopRequested, worker>>

Signal ==
  /\ Running
  /\ ~signalStop
  /\ signalStop' = TRUE
  /\ UNCHANGED <<status, step, ownerOnly, stageVars, console>>

-----------------------------------------------------------------------------
(* input_worker                                                            *)

WorkerStep(from) ==
  /\ worker.pc = from
  /\ UNCHANGED <<status, step, signalStop, ownerOnly, stageVars, typed,
                 flushRequested, stopRequested>>

(* The top of the loop: the stop, then a flush asked for, then the poll.   *)
WorkerTop ==
  /\ WorkerStep("top")
  /\ \/ /\ stopRequested
        /\ worker' = [pc |-> "done"]
        /\ UNCHANGED tty
     \/ /\ ~stopRequested
        /\ flushRequested # flushAcknowledged
        /\ tty' = <<>>
        /\ worker' = [pc |-> "flush", requested |-> flushRequested]
     \/ /\ ~stopRequested
        /\ flushRequested = flushAcknowledged
        /\ worker' = [pc |-> "poll"]
        /\ UNCHANGED tty
  /\ UNCHANGED <<queue, flushAcknowledged, inputError>>

FlushKeepsQueue ==
  /\ WorkerStep("flush")
  /\ flushAcknowledged' = worker.requested
  /\ worker' = [pc |-> "top"]
  /\ UNCHANGED <<tty, queue, inputError>>

WorkerFlush ==
  /\ WorkerStep("flush")
  /\ queue' = <<>>
  /\ flushAcknowledged' = worker.requested
  /\ worker' = [pc |-> "top"]
  /\ UNCHANGED <<tty, inputError>>

(* The poll times out after 100 ms; a terminal gives its lines one by one. *)
WorkerPoll ==
  /\ WorkerStep("poll")
  /\ \/ worker' = [pc |-> "top"] /\ UNCHANGED tty
     \/ /\ tty # <<>>
        /\ worker' = [pc |-> "offer", line |-> Head(tty)]
        /\ tty' = Tail(tty)
  /\ UNCHANGED <<queue, flushAcknowledged, inputError>>

(* imu_console_offer_line: a full queue drops the line.                    *)
WorkerOffer ==
  /\ WorkerStep("offer")
  /\ queue' = IF Len(queue) < QueueCapacity THEN Append(queue, worker.line) ELSE queue
  /\ worker' = [pc |-> "top"]
  /\ UNCHANGED <<tty, flushAcknowledged, inputError>>

(* End of file ends the worker; a failing call also ends the program.      *)
WorkerEnds(failed) ==
  /\ worker.pc \in {"poll", "flush"}
  /\ worker.pc = "flush" => failed
  /\ WorkerStep(worker.pc)
  /\ worker' = [pc |-> "done"]
  /\ inputError' = failed
  /\ UNCHANGED <<tty, queue, flushAcknowledged>>

InputWorker == WorkerTop \/ WorkerFlush \/ WorkerPoll \/ WorkerOffer

-----------------------------------------------------------------------------
(* The turn of the owner                                                   *)

OwnerFails ==
  /\ status' = "error"
  /\ step' = "cleanup"

LoopEnds(how) ==
  /\ status' = how
  /\ step' = "cleanup"

(* What main does before the loop: the session is open, the plan accepted. *)
Start ==
  /\ At("start")
  /\ \/ /\ \E plan \in Plans : Cmd!imu_cmd_init(plan)
        /\ step' = "turn"
        /\ UNCHANGED status
     \/ /\ OwnerFails
        /\ UNCHANGED coordinator
  /\ UNCHANGED <<signalStop, ownerOnly, phase, session, restoredBy, console>>

PlanComplete ==
  /\ At("turn")
  /\ s_complete
  /\ LoopEnds("completed")
  /\ UNCHANGED <<signalStop, ownerOnly, stageVars, console>>

Ended == {id \in Identities : s_results[id].state \in Terminal}

(* adopt_stop, and the rendering main does for it after the loop.          *)
Stop ==
  /\ At("turn")
  /\ ~s_complete
  /\ signalStop
  /\ Cmd!post_process_stop
  /\ \/ LoopEnds("stopped") /\ printed' = Ended'
     \/ OwnerFails /\ UNCHANGED printed
  /\ UNCHANGED <<signalStop, gate, settle, phase, session, restoredBy, console>>

(* A reset noticed by imu_session_service; a stop is looked for again.     *)
ChipReset ==
  /\ At("turn")
  /\ ~s_complete
  /\ ResetNoticed
  /\ UNCHANGED <<status, step, signalStop, ownerOnly, phase, restoredBy,
                 coordinator, console>>

Acts ==
  /\ At("turn")
  /\ ~s_complete
  /\ ~signalStop
  /\ UNCHANGED <<signalStop, gate, printed, console>>

(* The session lost between two stages or during one: no stage can run.    *)
SessionFailed ==
  /\ Acts
  /\ sess = "FAULTED"
  /\ s_active # "ACQUISITION"
  /\ Cmd!SessionUnrestorable
  /\ OwnerFails
  /\ UNCHANGED <<settle, phase, session, restoredBy>>

Usable == sess # "FAULTED" \/ s_active = "ACQUISITION"

(* The adapter is pumped from the turn after the one that armed the stage. *)
PumpAdapter ==
  /\ Acts
  /\ Usable
  /\ s_active \in Composed
  /\ step' = "input"
  /\ \/ ~s_armed /\ TickArms /\ UNCHANGED <<session, restoredBy>>
     \/ s_armed /\ PumpOther /\ UNCHANGED restoredBy
     \/ s_armed /\ RestoreSucceeds /\ restoredBy' = restoredBy \cup {s_active}
  /\ UNCHANGED <<status, settle>>

(* Production is configured unless a stage restored it, the settle begun,  *)
(* and its deadline set 300 ms ahead.                                      *)
BeginSettle ==
  /\ Acts
  /\ Usable
  /\ s_active = "SETTLE"
  /\ ~settleStarted
  /\ \/ /\ begin_settle
        /\ reports' = IF productionConfigured THEN reports ELSE "production"
        /\ productionConfigured' = TRUE
        /\ settleStarted' = TRUE
        /\ TickArms
        /\ step' = "input"
        /\ UNCHANGED status
     \/ /\ \/ sess = "CONFIGURING" /\ ~productionConfigured /\ Faults
           \/ sess # "CONFIGURING" /\ UNCHANGED session
        /\ Cmd!SessionUnrestorable
        /\ OwnerFails
        /\ UNCHANGED <<phase, productionConfigured, settleStarted>>
  /\ UNCHANGED <<settleDue, restoredBy>>

WaitSettle ==
  /\ Acts
  /\ Usable
  /\ s_active = "SETTLE"
  /\ settleStarted
  /\ settleDue' \in BOOLEAN
  /\ step' = "input"
  /\ UNCHANGED <<status, settleStarted, productionConfigured, stageVars>>

(* Acquisition runs on whatever the session does, until its time is over.  *)
Acquire ==
  /\ Acts
  /\ Usable
  /\ s_active \in {"NONE", "ACQUISITION"}
  /\ step' = "input"
  /\ \/ s_active = "ACQUISITION" /\ ~s_armed /\ TickArms
     \/ s_active = "ACQUISITION" /\ Cmd!post_tick(TRUE) /\ s_armed /\ UNCHANGED phase
     \/ (s_active = "NONE" \/ s_armed) /\ UNCHANGED <<phase, coordinator>>
  /\ UNCHANGED <<status, settle, session, restoredBy>>

-----------------------------------------------------------------------------
(* post_one_input: the end of the settle, the gate, one line               *)

Inputs(s) ==
  /\ At("input")
  /\ UNCHANGED <<signalStop, printed, settleStarted, productionConfigured, restoredBy,
                 reports, tty, typed, flushAcknowledged, inputError, stopRequested,
                 worker>>
  /\ s

(* app_input_stage_ready: a new stage asks the worker for a flush.         *)
ArmGate(stage) ==
  IF gate.stage = stage
  THEN UNCHANGED <<gate, flushRequested>>
  ELSE /\ flushRequested' = flushRequested + 1
       /\ gate' = [stage |-> stage, flushTicket |-> flushRequested']

Ready ==
  /\ gate.stage = s_active
  /\ gate.flushTicket # 0
  /\ flushAcknowledged >= gate.flushTicket

SettleFails ==
  Inputs(/\ settleDue
         /\ sess # "SETTLING"
         /\ OwnerFails
         /\ UNCHANGED <<gate, settleDue, phase, sess, coordinator, queue, flushRequested>>)

InputFails ==
  Inputs(/\ inputError
         /\ IF settleDue THEN mark_operational /\ Cmd!post_settle_done
                         ELSE UNCHANGED <<sess, coordinator>>
         /\ OwnerFails
         /\ UNCHANGED <<gate, phase, queue, flushRequested>>
         /\ settleDue' = FALSE)

(* The settle ends: the stage is over, so no line is taken in this turn.   *)
Settled ==
  Inputs(/\ settleDue
         /\ ~inputError
         /\ mark_operational
         /\ Cmd!post_settle_done
         /\ settleDue' = FALSE
         /\ ArmGate("NONE")
         /\ step' = "service"
         /\ UNCHANGED <<status, phase, queue>>)

(* No line: the gate is closed, the queue empty or held by the worker.     *)
NoLine ==
  Inputs(/\ ~settleDue
         /\ ~inputError
         /\ ArmGate(s_active)
         /\ step' = "service"
         /\ UNCHANGED <<status, settleDue, phase, sess, coordinator, queue>>)

(* imu_console_translate: what a line means to the stage that is active.   *)
Means(key) ==
  CASE s_active \notin Composed -> "nothing"
    [] key = "q" /\ RequiredAction # "NONE" -> "q"
    [] key = "CLEAR" /\ s_active \in {"DCD_CLEAR", "TARE_CLEAR"} /\ phase = "confirm" -> "confirm"
    [] key = "y" /\ s_active = "TARE" /\ phase = "confirm" -> "confirm"
    [] key = "Enter" /\ LooksLikePrompt -> "confirm"
    [] OTHER -> "nothing"

TakesLine(s) ==
  Inputs(/\ ~settleDue
         /\ ~inputError
         /\ Ready
         /\ queue # <<>>
         /\ queue' = Tail(queue)
         /\ UNCHANGED <<gate, settleDue, sess, flushRequested>>
         /\ s)

TakeLine ==
  TakesLine(/\ \/ Means(Head(queue).key) = "q" /\ MachineTakesQ
               \/ Means(Head(queue).key) = "confirm" /\ MachineTakesConfirm
               \/ Means(Head(queue).key) = "nothing" /\ UNCHANGED <<phase, coordinator>>
            /\ step' = "service"
            /\ UNCHANGED status)

(* The machine refuses what the translation accepted: the turn fails.      *)
LineRefused ==
  TakesLine(/\ Means(Head(queue).key) = "confirm"
            /\ RefusesConfirm
            /\ OwnerFails
            /\ UNCHANGED <<phase, coordinator>>)

-----------------------------------------------------------------------------
(* The rest of the turn, and the end                                       *)

ConfiguredByAnyResult == printed' # {}
ConfiguredByResult == \E id \in printed' : id \in restoredBy

Service ==
  /\ At("service")
  /\ CmdServed
  /\ ArmGate(s_active')
  /\ \/ /\ printed' = Ended'
        /\ productionConfigured' = (productionConfigured \/ ConfiguredByResult)
        /\ \/ step' = "turn" /\ UNCHANGED status
           \/ OwnerFails
     \/ /\ OwnerFails
        /\ UNCHANGED <<printed, productionConfigured>>
  /\ UNCHANGED <<signalStop, settleStarted, settleDue, session, restoredBy, tty, typed,
                 queue, flushAcknowledged, inputError, stopRequested, worker>>

(* The cleanup: the worker is told to stop, joined, and the run is over.   *)
JoinOnly ==
  /\ step = "cleanup"
  /\ step' = "join"
  /\ UNCHANGED stopRequested

imu_console_request_stop ==
  /\ step = "cleanup"
  /\ step' = "join"
  /\ stopRequested' = TRUE

imu_console_join ==
  /\ step = "join"
  /\ worker.pc = "done"
  /\ step' = "exited"
  /\ UNCHANGED stopRequested

Cleanup ==
  /\ imu_console_request_stop \/ imu_console_join
  /\ UNCHANGED <<status, signalStop, ownerOnly, stageVars, tty, typed, queue, flush,
                 inputError, worker>>

Over == step = "exited" /\ UNCHANGED vars

Act == SessionFailed \/ PumpAdapter \/ BeginSettle \/ WaitSettle \/ Acquire
Input == SettleFails \/ InputFails \/ Settled \/ NoLine \/ TakeLine \/ LineRefused

Owner ==
  \/ Start
  \/ PlanComplete
  \/ Stop
  \/ Act
  \/ Input
  \/ Service
  \/ Cleanup

Next ==
  \/ Owner
  \/ ChipReset
  \/ InputWorker
  \/ \E failed \in BOOLEAN : WorkerEnds(failed)
  \/ \E key \in Keys : Type(key)
  \/ Signal
  \/ Over

Spec == Init /\ [][Next]_vars

(* Two threads that run; neither the operator nor a signal must act.       *)
Fairness == WF_vars(Owner) /\ WF_vars(InputWorker)

FairSpec == Spec /\ Fairness

-----------------------------------------------------------------------------
(* Properties                                                              *)

Lines == [key : Keys, at : Identities \cup {"NONE"}]

OwnerTypeOK ==
  /\ status \in {"running", "stopped", "completed", "error"}
  /\ step \in {"start", "turn", "input", "service", "cleanup", "join", "exited"}
  /\ gate \in [stage : Identities \cup {"NONE"}, flushTicket : Nat]
  /\ restoredBy \subseteq Composed
  /\ printed \subseteq Identities
  /\ phase \in Phases
  /\ sess \in SessionStates
  /\ reports \in ReportSets

WorkerTypeOK ==
  /\ tty \in Seq(Lines)
  /\ typed \in 0..MaxLines
  /\ queue \in Seq(Lines)
  /\ Len(queue) <= QueueCapacity
  /\ flushRequested \in Nat
  /\ flushAcknowledged \in 0..flushRequested
  /\ worker.pc \in {"top", "flush", "poll", "offer", "done"}

(* The types of the owner's and the input worker's variables.              *)
TypeOK == OwnerTypeOK /\ WorkerTypeOK

(* "Input typed ahead of a destructive stage is discarded at the stage     *)
(* boundary; a CLEAR intended for DCD clear cannot authorize later tare    *)
(* clear" (bno/readme.md:908): whenever the owner could take a line, the   *)
(* lines in the queue were all typed during the stage they would reach,    *)
(* however late the worker serves the flush and whatever it was reading.   *)
InputIsOfThisStage ==
  At("input") /\ Ready => \A k \in DOMAIN queue : queue[k].at = s_active

(* The session settles, and acquires, on the production reports: no path   *)
(* through the stages (cancelled before they touched the session, failed,  *)
(* restored, skipped) lets productionConfigured stand for reports that a   *)
(* stage has left otherwise.                                               *)
SettledInProduction ==
  sess \in {"SETTLING", "OPERATIONAL"} => reports = "production"

(* A stop signal ends the program wherever it finds it, and its worker,    *)
(* and every stage that has ended by then was reported to the operator,    *)
(* the one the stop abandons included, unless the owner failed.            *)
Reported == status = "error" \/ printed = Ended
StopEndsRun == signalStop ~> (step = "exited" /\ Reported)

(* "Any other line: Ignored; it cannot become confirmation"                *)
(* (bno/readme.md:932): a line never ends the program.                     *)
LineNeverEndsRun ==
  [][step = "input" /\ queue' # queue => status' # "error"]_vars
=============================================================================
