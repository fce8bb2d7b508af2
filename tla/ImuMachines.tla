------------------------------ MODULE ImuMachines ------------------------------
(***************************************************************************)
(* The three command machines under the turn of the owner loop, the same   *)
(* in bno_app and twg_app: the SH-2 session is serviced, the machine's     *)
(* adapter is pumped, the clock is posted, the machine is serviced.  The   *)
(* operator's q and confirm arrive before the pump (twg_app takes its key  *)
(* first) or after the clock (bno_app).  The stage, any of the seven, is   *)
(* chosen at the start; a machine serves one stage from its initialization *)
(* to its result.                                                          *)
(***************************************************************************)
EXTENDS ImuCal, ImuTare, ImuCheck

vars == <<identity, control, evidence, session, step, cal, tare, check>>

Init ==
  /\ InitCalVars
  /\ InitTareVars
  /\ InitCheckVars
  /\ \/ imu_cal_init
     \/ imu_cal_init_dcd_clear
     \/ \E id \in Slot2 : imu_tare_init(id)
     \/ \E id \in Slot3 : imu_check_init(id)

(* The machine that serves the stage acts; the other two keep still.       *)
Cal(A) == identity \in Slot1 /\ A /\ UNCHANGED <<tare, check>>
Tare(A) == identity \in Slot2 /\ A /\ UNCHANGED <<cal, check>>
Check(A) == identity \in Slot3 /\ A /\ UNCHANGED <<cal, tare>>

ChipResets == ChipReset /\ UNCHANGED <<cal, tare, check>>
Decodes == \E at_goal \in SUBSET Sensors : Decode(at_goal) /\ UNCHANGED <<cal, tare, check>>

(* A complete machine is not pumped again.                                 *)
Pump ==
  /\ step = "session"
  /\ ~Ended
  /\ step' = "tick"
  /\ UNCHANGED identity
  /\ Cal(imu_cal_adapter_pump) \/ Tare(imu_tare_adapter_pump) \/ Check(imu_check_adapter_pump)

(* TICK: the deadline and the gate's clock come d units nearer.            *)
Tick(d) ==
  /\ step = "tick"
  /\ step' = "service"
  /\ tick(d)
  /\ UNCHANGED <<identity, st, pending, term, result, evidence, session, cal, tare, check>>

InputStep == step \in {"session", "service"} /\ ~Ended /\ UNCHANGED <<identity, session, step>>

OperatorQ == InputStep /\ (Cal(cal_post_q) \/ Tare(tare_post_q) \/ Check(check_post_q))
OperatorConfirm == InputStep /\ (Cal(cal_post_confirm) \/ Tare(tare_post_confirm))

Service ==
  /\ step = "service"
  /\ step' = "session"
  /\ UNCHANGED <<identity, session>>
  /\ Cal(imu_cal_service) \/ Tare(imu_tare_service) \/ Check(imu_check_service)

Next ==
  \/ ChipResets
  \/ Decodes
  \/ Pump
  \/ \E d \in 0..1 : Tick(d)
  \/ OperatorQ
  \/ OperatorConfirm
  \/ Service

Spec == Init /\ [][Next]_vars

(* The owner turns for as long as the process lives and time passes; the   *)
(* operator answers every prompt, and ends the two stages only q can end.  *)
(* Nothing makes a gate pass, a save succeed or the chip stay up.          *)
Fairness ==
  /\ WF_vars(Pump)
  /\ WF_vars(Tick(0) \/ Tick(1))
  /\ SF_vars(Tick(1))
  /\ WF_vars(Service)
  /\ SF_vars(OperatorConfirm)
  /\ SF_vars(OperatorQ /\ identity \in {"TARE_CHECK", "CHECK"})

FairSpec == Spec /\ Fairness

-----------------------------------------------------------------------------
(* Properties                                                              *)

Requests == {"NONE", "CONFIGURE", "VERIFY", "SAVE_DCD", "CLEAR_DCD", "TARE_NOW",
             "PERSIST", "CLEAR_TARE", "RESTORE"}
SessionStates == {"CONFIGURING", "COMMAND", "RECOVERING", "FAULTED"}
Facts == [epoch : Nat, valid : BOOLEAN, at_goal : SUBSET Sensors, tared : BOOLEAN]

ControlTypeOK ==
  /\ identity \in Composed
  /\ pending \in Requests
  /\ left \in Nat
  /\ good \in Nat \cup {NotGood}
  /\ term \in Results
  /\ result \in [state : Terminal \cup {"RUNNING"}, warning : BOOLEAN, restored : BOOLEAN]
  /\ step \in {"session", "tick", "service"}

SessionTypeOK ==
  /\ sess \in SessionStates
  /\ epoch \in Nat
  /\ mail \in Facts
  /\ facts \in Facts
  /\ verified \in BOOLEAN

CountersTypeOK ==
  /\ s_poseIndex \in 0..PoseCount - 1
  /\ s_accelRound \in 1..AccelRounds
  /\ s_magRound \in 0..MagRounds
  /\ s_saveAttempt \in Nat
  /\ s_expectedEpoch \in Nat
  /\ s_configEpoch \in Nat

(* The types of the machines' variables, and the bounds of their rounds.   *)
TypeOK == ControlTypeOK /\ SessionTypeOK /\ CountersTypeOK

(* A machine ends with one of the results the coordinator is built on      *)
(* (ImuCmd's MachineResults): only q cancels, only a probe times out, and  *)
(* the warning goes with the result.                                       *)
ResultPromised ==
  Ended => Result(result.state, result.warning) \in MachineResults(identity)

(* SUCCEEDED tells the truth about the chip, whatever failed, was retried  *)
(* or was reset on the way: the calibration was saved and its gate passed  *)
(* again, the tare is active, stored and verified, the clear cleared.      *)
SuccessIsReal ==
  result.state = "SUCCEEDED" =>
    CASE identity = "CALIBRATION" -> chip.dcd = "saved" /\ s_dcdSaved /\ verified
      [] identity = "DCD_CLEAR" -> chip.dcd = "cleared"
      [] identity = "TARE" -> chip.active = "new" /\ chip.stored = "new" /\ verified
      [] identity = "TARE_CLEAR" -> chip.active = "cleared" /\ chip.stored = "cleared"
      [] OTHER -> FALSE

(* A stage that changed what the chip keeps and did not succeed says so:   *)
(* no cancel, retry or failed restore hides a mutation behind a result     *)
(* without a warning.                                                      *)
MutationReported ==
  Ended /\ chip # [dcd |-> "old", active |-> "old", stored |-> "old"] =>
    result.state = "SUCCEEDED" \/ result.warning

(* A result other than RECOVERY_FAILED leaves the session as the next      *)
(* stage needs it: in CONFIGURING with the production reports, and saying  *)
(* restored; or, when q came before the stage's first request, untouched   *)
(* by it.  "Every ordinary terminal path emits RESTORE_PRODUCTION first."  *)
RestoredOrUntouched ==
  [][~Ended /\ Ended' =>
       \/ result'.state = "RECOVERY_FAILED" /\ ~result'.restored
       \/ result'.restored /\ sess' = "CONFIGURING" /\ reports' = "production"
       \/ ~result'.restored /\ reports' \in {"asFound", "none"} /\ chip' = chip]_vars

(* What is judged is of now.  The evidence for a tare is an attitude       *)
(* decoded in the frame the tare made, never one queued before it; and a   *)
(* calibration gate looks at facts of the session's epoch, so that after a *)
(* reset or a new report set no accuracy of before counts.                 *)
EvidenceIsCurrent ==
  /\ s_haveEvidence /\ ~Ended /\ sess = "COMMAND" => facts.tared
  /\ identity = "CALIBRATION" /\ st \in CalGates /\ step = "service" /\ facts.valid =>
       facts.epoch = epoch

(* The verdict a restore was begun for stands: neither q, nor a deadline   *)
(* in the same turn, nor the restore's answer turns it into another one.   *)
VerdictStands ==
  [][st = "WAIT_RESTORE" =>
       /\ st' \in {"WAIT_RESTORE", "DONE"}
       /\ term' = term
       /\ Ended' => result'.state \in {term.state, "RECOVERY_FAILED"}]_vars

(* Every stage ends, although every gate fails, every save fails and the   *)
(* chip resets: rounds, attempts and deadlines are used up.                *)
StageEnds == <>Ended
=============================================================================
