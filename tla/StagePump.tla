------------------------------ MODULE StagePump ------------------------------
(***************************************************************************)
(* What the owner loops of bno_app and twg_app share: the coordinator they *)
(* post to (ImuCmd), the machine of the running stage as they see it, and  *)
(* the adapter they pump once per turn.                                    *)
(*                                                                         *)
(* A machine is the phase it is in: each step of ImuMachines is one of the *)
(* steps below (MachinesArePhases in ImuMachinesProofs).  It restores      *)
(* production before it ends, unless it has not touched the session or     *)
(* cannot.                                                                 *)
(*   confirm   waits for the operator's first confirmation                 *)
(*   config    asks for the report set of the stage, or the clear of DCD   *)
(*   prompt    waits for Enter (calibration)                               *)
(*   work      measures, or waits for a deadline                           *)
(*   commit    asks for the save of DCD, or for a tare command             *)
(*   verify    asks for the verification set (calibration)                 *)
(*   restore   asks for the production reports                             *)
(***************************************************************************)
EXTENDS Integers, ImuCmdTypes

VARIABLES
  phase,
  sess, reports     \* the SH-2 session: sState, and the reports it streams

VARIABLES s_inited, s_plan, s_active, s_armed, s_request, s_do_not_acquire,
          s_process_stop, s_warning, s_complete, s_unrestorable, s_slot_done,
          s_results, machine

coordinator == <<s_inited, s_plan, s_active, s_armed, s_request, s_do_not_acquire,
                 s_process_stop, s_warning, s_complete, s_unrestorable,
                 s_slot_done, s_results, machine>>
session == <<sess, reports>>

Cmd == INSTANCE ImuCmd WITH Plans <- {}

PlanOf(a, b, c) ==
  [slot |-> [k \in 1..3 |-> IF k = 1 THEN a ELSE IF k = 2 THEN b ELSE c],
   fieldsAgree |-> TRUE]

Phases == {"none", "confirm", "config", "prompt", "work", "commit", "verify",
           "restore", "done"}
SessionStates == {"CONFIGURING", "SETTLING", "OPERATIONAL", "COMMAND", "RECOVERING",
                  "FAULTED"}
ReportSets == {"production", "command", "none", "unknown"}

Unarmed == s_active \in Composed /\ ~s_armed

-----------------------------------------------------------------------------
(* Operator events, as the machine of the stage takes them                 *)

Untouched == phase = "confirm" \/ (phase = "config" /\ s_active # "CALIBRATION")

MachineTakesQ ==
  /\ ~Unarmed
  /\ \/ /\ Untouched
        /\ Cmd!post_q
        /\ phase' = "done"
     \/ /\ ~Untouched
        /\ phase' = IF phase = "done" \/ s_active \notin Composed THEN phase ELSE "restore"
        /\ UNCHANGED coordinator

(* imu_cal refuses a confirmation that nothing asked for; the tares answer *)
(* one without effect.                                                     *)
RefusesConfirm ==
  s_active \in {"CALIBRATION", "DCD_CLEAR"} /\ phase \notin {"confirm", "prompt"}

MachineTakesConfirm ==
  /\ ~Unarmed
  /\ ~RefusesConfirm
  /\ phase' = CASE phase = "confirm" -> "config"
                [] phase = "prompt" -> "work"
                [] OTHER -> phase
  /\ UNCHANGED coordinator

(* What the stage shows as its required action.                            *)
RequiredAction ==
  CASE phase = "confirm" -> IF s_active = "DCD_CLEAR" THEN "CONFIRM" ELSE "ALIGN_AND_CONFIRM"
    [] phase \in {"none", "restore", "done"} -> "NONE"
    [] phase = "config" /\ s_active \in {"DCD_CLEAR", "TARE", "TARE_CLEAR"} -> "NONE"
    [] phase = "commit" /\ s_active # "CALIBRATION" -> "NONE"
    [] OTHER -> "PRESS_Q_TO_END"

(* A calibration in its prompts and in the turn its verification is asked  *)
(* for has the same progress: an action, no deadline, a phase that prompts.*)
LooksLikePrompt == s_active = "CALIBRATION" /\ phase \in {"prompt", "verify"}

-----------------------------------------------------------------------------
(* The adapter's pump                                                      *)

MachineEnds(result) ==
  /\ Cmd!MachineFinishes(result)
  /\ phase' = "done"

NewReports(set, state) == reports' = set /\ sess' = state
Faults == NewReports("unknown", "FAULTED")
InMode == sess = IF phase = "verify" THEN "COMMAND" ELSE "CONFIGURING"

(* A check whose report set was applied but reads back different is over.  *)
AfterConfigure ==
  CASE s_active = "CALIBRATION" -> {"prompt"}
    [] s_active = "TARE_CLEAR" -> {"commit"}
    [] s_active \in Slot3 -> {"work", "restore"}
    [] OTHER -> {"work"}

(* The stage's own report set: it may fail before or after it changed the  *)
(* chip.                                                                   *)
PumpConfigure ==
  /\ phase \in {"config", "verify"}
  /\ s_active # "DCD_CLEAR"
  /\ \/ InMode /\ NewReports("command", "COMMAND") /\ phase' \in AfterConfigure
     \/ InMode /\ Faults /\ phase' = "restore"
     \/ ~InMode /\ UNCHANGED session /\ phase' = "restore"
  /\ UNCHANGED coordinator

(* The clear of DCD: done, refused, or done by half with the session lost. *)
PumpClearDcd ==
  /\ phase = "config"
  /\ s_active = "DCD_CLEAR"
  /\ \/ /\ sess = "CONFIGURING"
        /\ NewReports("none", "CONFIGURING")
        /\ phase' = "restore"
        /\ UNCHANGED coordinator
     \/ /\ UNCHANGED session
        /\ sess = "CONFIGURING"
        /\ phase' = "restore"
        /\ UNCHANGED coordinator
     \/ /\ \/ sess = "CONFIGURING" /\ \E s \in {"FAULTED", "RECOVERING"} : NewReports("none", s)
           \/ sess = "RECOVERING" /\ UNCHANGED session
        /\ MachineEnds(Result("RECOVERY_FAILED", TRUE))

(* A save of DCD answered: saved or given up, tried again after a hold, or *)
(* measured again; a tare made: to be persisted, to be verified.           *)
AfterCommit ==
  CASE s_active = "CALIBRATION" -> {"verify", "work", "prompt"}
    [] s_active = "TARE" -> {"commit", "work", "restore"}
    [] OTHER -> {"restore"}

PumpCommit ==
  /\ phase = "commit"
  /\ phase' \in AfterCommit
  /\ UNCHANGED <<session, coordinator>>

Verdicts == MachineResults(s_active) \ {Result("RECOVERY_FAILED", TRUE)}

RestoreSucceeds ==
  /\ phase = "restore"
  /\ sess \in {"COMMAND", "CONFIGURING"}
  /\ NewReports("production", "CONFIGURING")
  /\ \E r \in Verdicts : MachineEnds(r)

RestoreFails ==
  /\ phase = "restore"
  /\ IF sess \in {"COMMAND", "CONFIGURING"} THEN Faults ELSE UNCHANGED session
  /\ MachineEnds(Result("RECOVERY_FAILED", TRUE))

PumpNothing ==
  /\ phase \in {"none", "confirm", "prompt", "work", "done"}
  /\ UNCHANGED <<phase, session, coordinator>>

(* A pump that does not put the production reports back.                   *)
PumpOther == PumpConfigure \/ PumpClearDcd \/ PumpCommit \/ RestoreFails \/ PumpNothing

-----------------------------------------------------------------------------
(* The TICK that initializes the machine, and the machine's own service    *)

FirstPhase ==
  CASE s_active \in {"DCD_CLEAR", "TARE", "TARE_CLEAR"} -> "confirm"
    [] s_active \in {"CALIBRATION", "TARE_CHECK", "CHECK", "PROBE"} -> "config"
    [] OTHER -> "none"

TickArms ==
  /\ s_active # "NONE"
  /\ ~s_armed
  /\ Cmd!post_tick(FALSE)
  /\ phase' = FirstPhase

(* What a machine that measures may find in its service.                   *)
MayFind ==
  CASE s_active = "CALIBRATION" -> {"work", "prompt", "commit", "restore"}
    [] s_active = "TARE" -> {"work", "commit", "restore"}
    [] s_active = "PROBE" -> {"work", "restore"}
    [] OTHER -> {"work"}

MachineServed == phase' \in IF phase = "work" THEN MayFind ELSE {phase}

(* imu_cmd_service: a complete machine's result is adopted, a stage is     *)
(* started, or the machine of the stage is serviced.                       *)
CmdServed ==
  \/ /\ Cmd!imu_cmd_service
     /\ phase' = "none"
  \/ /\ s_complete \/ (s_active # "NONE" /\ ~Cmd!MachineComplete)
     /\ MachineServed
     /\ UNCHANGED coordinator

(* A reset noticed by imu_session_service.                                 *)
ResetNoticed ==
  /\ sess # "RECOVERING"
  /\ sess' = "RECOVERING"
  /\ reports' = "none"

begin_settle == sess = "CONFIGURING" /\ sess' = "SETTLING"
MarkUnsettled == sess' = "OPERATIONAL"
mark_operational == sess = "SETTLING" /\ sess' = "OPERATIONAL"
=============================================================================
