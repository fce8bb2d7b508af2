-------------------------------- MODULE ImuCal --------------------------------
(***************************************************************************)
(* The calibration and DCD-clear machine, bno/app/imu_cal.c, and its       *)
(* adapter, imu_cal_adapter.c.  One action per posted event, one for the   *)
(* adapter's pump, one per branch of imu_cal_service.                      *)
(***************************************************************************)
EXTENDS ImuMachine

CONSTANTS
  PoseCount,     \* IMU_CAL_ACCEL_POSE_COUNT
  AccelRounds,   \* IMU_CAL_ACCEL_MAX_ROUNDS
  MagRounds,     \* IMU_CAL_MAG_MAX_ROUNDS
  SaveAttempts   \* IMU_CAL_MAX_SAVE_ATTEMPTS

ASSUME RoundsAssumption ==
  /\ PoseCount \in Nat \ {0}
  /\ AccelRounds \in Nat \ {0}
  /\ MagRounds \in Nat \ {0}
  /\ SaveAttempts \in Nat \ {0}

VARIABLES
  s_poseIndex,
  s_accelRound,
  s_magRound,
  s_saveAttempt,
  s_saveRetryUsed,
  s_dcdSaved

rounds == <<s_poseIndex, s_accelRound, s_magRound, s_saveAttempt, s_saveRetryUsed>>
cal == <<rounds, s_dcdSaved>>

CalGates == {"ACCEL_GATE", "GYRO_GATE", "MAG_GATE", "HOLD_GATE", "VERIFY_GATE"}

ToGoal(sensors) == facts.valid /\ sensors \subseteq facts.at_goal
gate_accel == ToGoal({"accel"})
gate_gyro == ToGoal({"gyro"})
gate_mag == ToGoal({"mag"})
gate_verify == ToGoal({"accel", "mag"})

InitCalVars ==
  /\ s_poseIndex = 0
  /\ s_accelRound = 1
  /\ s_magRound = 0
  /\ s_saveAttempt = 0
  /\ s_saveRetryUsed = FALSE
  /\ s_dcdSaved = FALSE

imu_cal_init ==
  /\ InitBase("CALIBRATION")
  /\ st = "WAIT_CONFIG"
  /\ pending = "CONFIGURE"
  /\ left = 0

imu_cal_init_dcd_clear ==
  /\ InitBase("DCD_CLEAR")
  /\ st = "CLEAR_CONFIRM"
  /\ pending = "NONE"
  /\ left = 0

-----------------------------------------------------------------------------
(* Rounds and attempts                                                     *)

begin_mag_round(round) ==
  /\ s_magRound' = round
  /\ Move("MAG_PROMPT", 0, "NONE")

OuterAttemptUncounted ==
  /\ s_saveAttempt' = s_saveAttempt
  /\ s_saveRetryUsed' = FALSE
  /\ begin_mag_round(1)
  /\ UNCHANGED <<s_poseIndex, s_accelRound>>

begin_outer_attempt ==
  /\ s_saveAttempt' = s_saveAttempt + 1
  /\ s_saveRetryUsed' = FALSE
  /\ begin_mag_round(1)
  /\ UNCHANGED <<s_poseIndex, s_accelRound>>

AccelPrompt(round, pose) ==
  /\ s_accelRound' = round
  /\ s_poseIndex' = pose
  /\ Move("ACCEL_PROMPT", 0, "NONE")
  /\ UNCHANGED <<s_magRound, s_saveAttempt, s_saveRetryUsed>>

begin_same_session_verify(r) ==
  /\ enter_state("WAIT_VERIFY", 0)
  /\ pending' = "VERIFY"
  /\ term' = r
  /\ UNCHANGED result

-----------------------------------------------------------------------------
(* Operator events                                                         *)

cal_post_q ==
  /\ \/ /\ identity = "DCD_CLEAR"
        /\ st \in {"CLEAR_CONFIRM", "WAIT_CLEAR"}
        /\ finish(Result("CANCELLED", TRUE), FALSE)
     \/ /\ identity = "CALIBRATION"
        /\ st \notin {"WAIT_RESTORE", "DONE"}
        /\ begin_restore(Result("CANCELLED", TRUE))
  /\ UNCHANGED <<evidence, cal>>

cal_post_confirm ==
  /\ \/ /\ st = "CLEAR_CONFIRM"
        /\ st' = "WAIT_CLEAR"
        /\ pending' = "CLEAR_DCD"
        /\ UNCHANGED <<left, good, term, result>>
     \/ st = "ACCEL_PROMPT" /\ Move("ACCEL_WINDOW", Window, pending)
     \/ st = "GYRO_PROMPT" /\ Move("GYRO_GATE", GateTimeout, pending)
     \/ st = "MAG_PROMPT" /\ Move("MAG_MOTION", Window, pending)
     \/ st = "VERIFY_PROMPT" /\ Move("VERIFY_MOTION", Window, pending)
  /\ UNCHANGED <<evidence, cal>>

-----------------------------------------------------------------------------
(* post_session: the answer to the pending request                         *)

ClearAnswered(ok) ==
  /\ st = "WAIT_CLEAR"
  /\ \/ /\ sess' \in {"FAULTED", "RECOVERING"}
        /\ finish(Result("RECOVERY_FAILED", TRUE), FALSE)
     \/ /\ sess' \notin {"FAULTED", "RECOVERING"}
        /\ begin_restore(IF ok THEN Result("SUCCEEDED", FALSE) ELSE Result("FAILED", TRUE))
  /\ UNCHANGED cal

ConfigAnswered(ok) ==
  /\ st = "WAIT_CONFIG"
  /\ \/ ok /\ Move("ACCEL_PROMPT", 0, "NONE")
     \/ ~ok /\ begin_restore(Result("FAILED", TRUE))
  /\ UNCHANGED cal

SaveSucceeded ==
  /\ s_dcdSaved' = TRUE
  /\ begin_same_session_verify(Result("SUCCEEDED", FALSE))
  /\ UNCHANGED rounds

FirstSaveFailure ==
  /\ ~s_saveRetryUsed
  /\ s_saveRetryUsed' = TRUE
  /\ Move("SAVE_RETRY_HOLD", Window, "NONE")
  /\ UNCHANGED <<s_poseIndex, s_accelRound, s_magRound, s_saveAttempt, s_dcdSaved>>

LastSaveForgiven ==
  /\ s_saveRetryUsed
  /\ s_saveAttempt >= SaveAttempts
  /\ s_saveRetryUsed' = FALSE
  /\ begin_same_session_verify(Result("SUCCEEDED", FALSE))
  /\ UNCHANGED <<s_poseIndex, s_accelRound, s_magRound, s_saveAttempt, s_dcdSaved>>

(* The last attempt failed: this session is verified all the same, and the *)
(* verdict that will stand is already FAILED.                              *)
LastSaveFailure ==
  /\ s_saveRetryUsed
  /\ s_saveAttempt >= SaveAttempts
  /\ s_saveRetryUsed' = FALSE
  /\ begin_same_session_verify(Result("FAILED", TRUE))
  /\ UNCHANGED <<s_poseIndex, s_accelRound, s_magRound, s_saveAttempt, s_dcdSaved>>

SecondSaveFailure ==
  /\ s_saveRetryUsed
  /\ s_saveAttempt < SaveAttempts
  /\ begin_outer_attempt
  /\ UNCHANGED s_dcdSaved

SaveAnswered(ok) ==
  /\ st = "WAIT_SAVE"
  /\ \/ ok /\ SaveSucceeded
     \/ ~ok /\ (FirstSaveFailure \/ SecondSaveFailure \/ LastSaveFailure)

VerifyAnswered(ok) ==
  /\ st = "WAIT_VERIFY"
  /\ \/ ok /\ Move("VERIFY_PROMPT", 0, "NONE")
     \/ ~ok /\ begin_restore(Result("FAILED", TRUE))
  /\ UNCHANGED cal

RestoreAnswered(ok) ==
  /\ st = "WAIT_RESTORE"
  /\ \/ ok /\ finish(term, TRUE)
     \/ ~ok /\ finish(Result("RECOVERY_FAILED", TRUE), FALSE)

ForwardValidOnly == facts' = IF identity = "CALIBRATION" /\ mail.valid THEN mail ELSE facts
forward_cal_facts == facts' = IF identity = "CALIBRATION" THEN mail ELSE facts

(* imu_cal_adapter_pump: the facts first, then the request, if there is    *)
(* one, and its answer.                                                    *)
imu_cal_adapter_pump ==
  /\ forward_cal_facts
  /\ UNCHANGED verified
  /\ \/ /\ pending = "NONE"
        /\ UNCHANGED <<control, cal, session>>
     \/ \E ok \in BOOLEAN :
          /\ pending # "NONE"
          /\ Call(pending, ok)
          /\ \/ ClearAnswered(ok)
             \/ ConfigAnswered(ok)
             \/ SaveAnswered(ok)
             \/ VerifyAnswered(ok)
             \/ RestoreAnswered(ok) /\ UNCHANGED cal

-----------------------------------------------------------------------------
(* imu_cal_service, state by state                                         *)

AccelWindow ==
  /\ st = "ACCEL_WINDOW"
  /\ Due
  /\ \/ /\ s_poseIndex + 1 < PoseCount
        /\ AccelPrompt(s_accelRound, s_poseIndex + 1)
     \/ /\ s_poseIndex + 1 >= PoseCount
        /\ Move("ACCEL_GATE", GateTimeout, pending)
        /\ UNCHANGED rounds

AccelGate ==
  /\ st = "ACCEL_GATE"
  /\ \/ /\ Sustained(gate_accel) \/ (Due /\ s_accelRound >= AccelRounds)
        /\ Move("GYRO_PROMPT", 0, pending)
        /\ UNCHANGED rounds
     \/ /\ ~Sustained(gate_accel)
        /\ Due
        /\ s_accelRound < AccelRounds
        /\ AccelPrompt(s_accelRound + 1, 0)
     \/ /\ ~Sustained(gate_accel)
        /\ ~Due
        /\ WaitAtGate(gate_accel)
        /\ UNCHANGED rounds

GyroGate ==
  /\ st = "GYRO_GATE"
  /\ \/ /\ Sustained(gate_gyro) \/ Due
        /\ begin_outer_attempt
     \/ /\ ~Sustained(gate_gyro)
        /\ ~Due
        /\ WaitAtGate(gate_gyro)
        /\ UNCHANGED rounds

MagMotion ==
  /\ st = "MAG_MOTION"
  /\ Due
  /\ Move("MAG_GATE", GateTimeout, pending)
  /\ UNCHANGED rounds

MagGate ==
  /\ st = "MAG_GATE"
  /\ \/ /\ Sustained(gate_mag)
        /\ Move("HOLD_WINDOW", Window, pending)
        /\ UNCHANGED rounds
     \/ /\ ~Sustained(gate_mag)
        /\ Due
        /\ s_magRound < MagRounds
        /\ begin_mag_round(s_magRound + 1)
        /\ UNCHANGED <<s_poseIndex, s_accelRound, s_saveAttempt, s_saveRetryUsed>>
     \/ /\ ~Sustained(gate_mag)
        /\ Due
        /\ s_magRound >= MagRounds
        /\ begin_restore(Result("FAILED", TRUE))
        /\ UNCHANGED rounds
     \/ /\ ~Sustained(gate_mag)
        /\ ~Due
        /\ WaitAtGate(gate_mag)
        /\ UNCHANGED rounds

HoldWindow ==
  /\ st = "HOLD_WINDOW"
  /\ Due
  /\ Move("HOLD_GATE", GateTimeout, pending)
  /\ UNCHANGED rounds

HoldGate ==
  /\ st = "HOLD_GATE"
  /\ \/ /\ Sustained(gate_verify)
        /\ Move("WAIT_SAVE", 0, "SAVE_DCD")
        /\ UNCHANGED rounds
     \/ /\ ~Sustained(gate_verify)
        /\ Due
        /\ s_saveAttempt >= SaveAttempts
        /\ begin_restore(Result("FAILED", TRUE))
        /\ UNCHANGED rounds
     \/ /\ ~Sustained(gate_verify)
        /\ Due
        /\ s_saveAttempt < SaveAttempts
        /\ begin_outer_attempt
     \/ /\ ~Sustained(gate_verify)
        /\ ~Due
        /\ WaitAtGate(gate_verify)
        /\ UNCHANGED rounds

SaveRetryHold ==
  /\ st = "SAVE_RETRY_HOLD"
  /\ Due
  /\ Move("WAIT_SAVE", 0, "SAVE_DCD")
  /\ UNCHANGED rounds

VerifyMotion ==
  /\ st = "VERIFY_MOTION"
  /\ Due
  /\ Move("VERIFY_GATE", GateTimeout, pending)
  /\ UNCHANGED rounds

VerifyGate ==
  /\ st = "VERIFY_GATE"
  /\ UNCHANGED rounds
  /\ \/ /\ Sustained(gate_verify)
        /\ verified' = TRUE
        /\ begin_restore(term)
     \/ /\ ~Sustained(gate_verify)
        /\ UNCHANGED verified
        /\ \/ Due /\ begin_restore(Result("FAILED", TRUE))
           \/ ~Due /\ WaitAtGate(gate_verify)

TimedStates == {"ACCEL_WINDOW", "MAG_MOTION", "HOLD_WINDOW", "SAVE_RETRY_HOLD",
                "VERIFY_MOTION"}

NothingDue ==
  /\ st \notin CalGates
  /\ st \in TimedStates => ~Due
  /\ UNCHANGED <<control, rounds, verified>>

imu_cal_service ==
  /\ UNCHANGED <<facts, s_dcdSaved>>
  /\ \/ /\ AccelWindow \/ AccelGate \/ GyroGate \/ MagMotion \/ MagGate
           \/ HoldWindow \/ HoldGate \/ SaveRetryHold \/ VerifyMotion
        /\ UNCHANGED verified
     \/ VerifyGate
     \/ NothingDue
=============================================================================
