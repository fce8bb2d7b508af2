------------------------------- MODULE TwgStage -------------------------------
(***************************************************************************)
(* The stage controller of twg_app, integrate/twg_stage.c, and the turn of *)
(* the owner loop around it, integrate/main.c: the operator's keys choose  *)
(* the mode, a mode that needs the IMU runs a plan of the coordinator      *)
(* (ImuCmd), and the pressure reference is captured, dropped or kept.      *)
(*                                                                         *)
(* A turn is cut where the code calls another component: the key, the      *)
(* adapter's pump, the tick with the settle, the coordinator's service,    *)
(* the pressure requests, the capture, the row.  The machine of the stage  *)
(* and the session it drives are StagePump's.                              *)
(***************************************************************************)
EXTENDS StagePump

CONSTANTS
  SettleTurns,   \* TWG_STAGE_SETTLE_NS, in turns
  ZeroTurns,     \* TWG_ZERO_DURATION_NS, in turns
  MinSamples,    \* TWG_ZERO_MIN_SAMPLES
  MaxSamples     \* TWG_ZERO_MAX_SAMPLES

ASSUME StageAssumption ==
  /\ SettleTurns \in Nat
  /\ ZeroTurns \in Nat
  /\ MinSamples \in Nat \ {0}
  /\ MaxSamples \in Nat
  /\ MinSamples <= MaxSamples

VARIABLES
  mode, imuPlanActive, settleStarted, settleLeft, clearConfirmed,
  pressureRequest,      \* which of the three pressure flags this turn's key set
  status,               \* how the owner loop stands
  step,                 \* where it is in its turn
  restored,             \* does a result of the plan say restoredProduction?
  zeroActive, zeroLeft, zeroValidSamples,
  sampleOrigins,        \* the captures the samples kept are of
  zeroValid, surfaceOrigins,
  windowOpen

settle == <<settleStarted, settleLeft>>
capture == <<zeroActive, zeroLeft, zeroValidSamples, sampleOrigins>>
reference == <<zeroValid, surfaceOrigins>>
pressure == <<capture, reference>>

vars == <<mode, imuPlanActive, settle, clearConfirmed, pressureRequest, status,
          step, restored, phase, session, pressure, windowOpen, coordinator>>

PlanModes == {"CALIBRATION", "TARE", "CLEAR_ALL"}

(* TARE stands for TARE_Z and TARE_FULL, which differ in their axes.       *)
build_plan(m) ==
  CASE m = "CALIBRATION" -> PlanOf("CALIBRATION", "NONE", "NONE")
    [] m = "TARE" -> PlanOf("NONE", "TARE", "NONE")
    [] m = "CLEAR_ALL" -> PlanOf("DCD_CLEAR", "TARE_CLEAR", "NONE")

Running == status = "running"

(* twg_stage_init: production configured, settling; the deadline is not    *)
(* set, so the first turn finds it passed.                                 *)
Init ==
  /\ Cmd!Init
  /\ mode = "RESTORE"
  /\ imuPlanActive = FALSE
  /\ settleStarted = TRUE
  /\ settleLeft = 0
  /\ clearConfirmed = FALSE
  /\ pressureRequest = "none"
  /\ status = "running"
  /\ step = "turn"
  /\ restored = FALSE
  /\ phase = "none"
  /\ sess = "SETTLING"
  /\ reports = "production"
  /\ zeroActive = FALSE
  /\ zeroLeft = 0
  /\ zeroValidSamples = 0
  /\ sampleOrigins = {}
  /\ zeroValid = FALSE
  /\ surfaceOrigins = {}
  /\ windowOpen = FALSE

OwnerFails ==
  /\ status' = "error"
  /\ UNCHANGED step

-----------------------------------------------------------------------------
(* The session, as the stage and the machines call it                      *)

(* A reset noticed by imu_session_service, before the key or the pump.     *)
ChipReset ==
  /\ Running
  /\ step \in {"turn", "pump"}
  /\ ResetNoticed
  /\ UNCHANGED <<mode, imuPlanActive, settle, clearConfirmed, pressureRequest,
                 status, step, restored, phase, pressure, windowOpen, coordinator>>

-----------------------------------------------------------------------------
(* twg_stage_turn: the stop, the startup settle, the key                   *)

ProcessStop ==
  /\ Running
  /\ step = "turn"
  /\ mode' = "STOPPED"
  /\ status' = "stopped"
  /\ IF imuPlanActive THEN Cmd!post_process_stop ELSE UNCHANGED coordinator
  /\ UNCHANGED <<imuPlanActive, settle, clearConfirmed, pressureRequest, step,
                 restored, phase, session, pressure, windowOpen>>

(* The loop's own test sees the signal first: no turn, nothing posted.     *)
SignalEndsLoop ==
  /\ Running
  /\ step = "turn"
  /\ status' = "stopped"
  /\ UNCHANGED <<mode, imuPlanActive, settle, clearConfirmed, pressureRequest,
                 step, restored, phase, session, pressure, windowOpen, coordinator>>

InputError ==
  /\ Running
  /\ step = "turn"
  /\ OwnerFails
  /\ UNCHANGED <<mode, imuPlanActive, settle, clearConfirmed, pressureRequest,
                 restored, phase, session, pressure, windowOpen, coordinator>>

StartupSettle ==
  /\ Running
  /\ step = "turn"
  /\ mode = "RESTORE"
  /\ \/ /\ mark_operational
        /\ mode' = "ACQUISITION"
        /\ settleStarted' = FALSE
        /\ step' = "requests"
        /\ UNCHANGED status
     \/ /\ sess # "SETTLING"
        /\ OwnerFails
        /\ UNCHANGED <<mode, settleStarted, sess>>
  /\ UNCHANGED <<imuPlanActive, settleLeft, clearConfirmed, pressureRequest,
                 restored, phase, reports, pressure, windowOpen, coordinator>>

TakesKey == Running /\ step = "turn" /\ mode # "RESTORE"
AfterKey == IF imuPlanActive THEN "pump" ELSE "requests"

NoKey ==
  /\ TakesKey
  /\ step' = AfterKey
  /\ UNCHANGED <<mode, imuPlanActive, settle, clearConfirmed, pressureRequest,
                 status, restored, phase, session, pressure, windowOpen, coordinator>>

(* start_imu_plan, in the turn its key was taken in.                       *)
start_imu_plan(m) ==
  /\ \/ /\ sess \in {"OPERATIONAL", "CONFIGURING"}
        /\ sess' = "CONFIGURING"
        /\ Cmd!imu_cmd_init(build_plan(m))
        /\ mode' = m
        /\ imuPlanActive' = TRUE
        /\ settleStarted' = FALSE
        /\ restored' = FALSE
        /\ phase' = "none"
        /\ step' = "pump"
        /\ UNCHANGED status
     \/ /\ sess \notin {"OPERATIONAL", "CONFIGURING"}
        /\ OwnerFails
        /\ UNCHANGED <<mode, imuPlanActive, settleStarted, restored, phase, sess,
                       coordinator>>
  /\ UNCHANGED <<settleLeft, reports, pressure, windowOpen>>

KeyStage(m) ==
  /\ TakesKey
  /\ mode = "ACQUISITION"
  /\ m \in {"CALIBRATION", "TARE"}
  /\ start_imu_plan(m)
  /\ UNCHANGED <<clearConfirmed, pressureRequest>>

(* y after x: the whole clear, the pressure reference included.            *)
KeyClearConfirmed ==
  /\ TakesKey
  /\ mode = "CLEAR_CONFIRM"
  /\ clearConfirmed' = TRUE
  /\ pressureRequest' = "clear"
  /\ start_imu_plan("CLEAR_ALL")

KeyMode(from, to, request) ==
  /\ TakesKey
  /\ mode = from
  /\ mode' = to
  /\ pressureRequest' = request
  /\ step' = "requests"
  /\ UNCHANGED <<imuPlanActive, settle, clearConfirmed, status, restored, phase,
                 session, pressure, windowOpen, coordinator>>

CancelForgotten == KeyMode("PRESSURE_ZERO", "ACQUISITION", "none")
KeyZeroCancel == KeyMode("PRESSURE_ZERO", "ACQUISITION", "cancel")

KeysOfModes ==
  \/ KeyMode("ACQUISITION", "PRESSURE_ZERO", "zero")
  \/ KeyMode("ACQUISITION", "CLEAR_CONFIRM", "none")
  \/ KeyMode("CLEAR_CONFIRM", "ACQUISITION", "none")
  \/ KeyZeroCancel

StageKey ==
  /\ TakesKey
  /\ imuPlanActive
  /\ UNCHANGED <<mode, imuPlanActive, settle, clearConfirmed, pressureRequest,
                 restored, session, pressure, windowOpen>>

(* q: refused before the stage's first TICK, and the refusal is an error.  *)
KeyQ ==
  /\ StageKey
  /\ \/ /\ Unarmed
        /\ OwnerFails
        /\ UNCHANGED <<phase, coordinator>>
     \/ /\ MachineTakesQ
        /\ step' = "pump"
        /\ UNCHANGED status

(* Enter when the calibration seems to prompt for it, and y at the tare's  *)
(* prompt, shown from the moment the stage is started: refused in the turn *)
(* the verification is asked for, and before the first TICK.               *)
KeyConfirm ==
  /\ StageKey
  /\ LooksLikePrompt \/ (s_active = "TARE" /\ (Unarmed \/ phase = "confirm"))
  /\ \/ /\ Unarmed \/ RefusesConfirm
        /\ OwnerFails
        /\ UNCHANGED <<phase, coordinator>>
     \/ /\ MachineTakesConfirm
        /\ step' = "pump"
        /\ UNCHANGED status

-----------------------------------------------------------------------------
(* service_imu_plan: the pump                                              *)

PumpAdapter ==
  /\ Running
  /\ step = "pump"
  /\ step' = "tick"
  /\ \/ PumpOther /\ UNCHANGED restored
     \/ RestoreSucceeds /\ restored' = TRUE
  /\ UNCHANGED <<mode, imuPlanActive, settle, clearConfirmed, pressureRequest,
                 status, pressure, windowOpen>>

-----------------------------------------------------------------------------
(* service_imu_plan: the tick, service_settle, imu_cmd_service             *)

Tick ==
  /\ Running
  /\ step = "tick"
  /\ s_active # "SETTLE"
  /\ step' = "service"
  /\ TickArms \/ ((s_active = "NONE" \/ s_armed) /\ UNCHANGED <<phase, coordinator>>)
  /\ UNCHANGED <<mode, imuPlanActive, settle, clearConfirmed, pressureRequest,
                 status, restored, session, pressure, windowOpen>>

SettleTurn ==
  /\ Running
  /\ step = "tick"
  /\ s_active = "SETTLE"
  /\ UNCHANGED <<mode, imuPlanActive, clearConfirmed, pressureRequest, restored,
                 phase, pressure, windowOpen>>

(* The first turn of the settle configures production, unless a stage of   *)
(* the plan restored it, and sets the deadline.                            *)
BeginSettle ==
  /\ SettleTurn
  /\ ~settleStarted
  /\ \/ /\ begin_settle
        /\ reports' = IF restored THEN reports ELSE "production"
        /\ settleStarted' = TRUE
        /\ settleLeft' = SettleTurns
        /\ step' = "service"
        /\ TickArms
        /\ UNCHANGED status
     \/ /\ \/ sess = "CONFIGURING" /\ ~restored /\ Faults
           \/ sess # "CONFIGURING" /\ UNCHANGED session
        /\ OwnerFails
        /\ UNCHANGED <<settle, coordinator>>

DeadlineMoves ==
  /\ SettleTurn
  /\ settleStarted
  /\ settleLeft > 0
  /\ settleLeft' = SettleTurns
  /\ step' = "service"
  /\ UNCHANGED <<settleStarted, session, status, coordinator>>

WaitSettled ==
  /\ SettleTurn
  /\ settleStarted
  /\ settleLeft > 0
  /\ settleLeft' = settleLeft - 1
  /\ step' = "service"
  /\ UNCHANGED <<settleStarted, session, status, coordinator>>

Settled ==
  /\ SettleTurn
  /\ settleStarted
  /\ settleLeft = 0
  /\ UNCHANGED <<settleLeft, reports>>
  /\ \/ /\ mark_operational
        /\ Cmd!post_settle_done
        /\ settleStarted' = FALSE
        /\ step' = "service"
        /\ UNCHANGED status
     \/ /\ sess # "SETTLING"
        /\ OwnerFails
        /\ UNCHANGED <<settleStarted, sess, coordinator>>

(* The full clear answers the prompts of its two stages.                   *)
AutoConfirm ==
  /\ mode = "CLEAR_ALL"
  /\ clearConfirmed
  /\ phase = "confirm"

Service ==
  /\ Running
  /\ step = "service"
  /\ \/ ~AutoConfirm /\ CmdServed
     \/ AutoConfirm /\ MachineTakesConfirm
  /\ \/ /\ s_active' = "ACQUISITION"
        /\ imuPlanActive' = FALSE
        /\ mode' = "ACQUISITION"
        /\ clearConfirmed' = FALSE
        /\ step' = "requests"
        /\ UNCHANGED status
     \/ /\ s_active' # "ACQUISITION"
        /\ UNCHANGED <<imuPlanActive, mode, clearConfirmed>>
        /\ \/ s_complete' /\ OwnerFails
           \/ ~s_complete' /\ step' = "requests" /\ UNCHANGED status
  /\ UNCHANGED <<settle, pressureRequest, restored, session, pressure, windowOpen>>

-----------------------------------------------------------------------------
(* The rest of the owner's turn                                            *)

CaptureKeepsSamples ==
  /\ zeroActive' = TRUE
  /\ zeroLeft' = ZeroTurns
  /\ sampleOrigins' = IF sampleOrigins = {} THEN {} ELSE {"earlier"}
  /\ UNCHANGED zeroValidSamples

pressure_zero_begin ==
  /\ zeroActive' = TRUE
  /\ zeroLeft' = ZeroTurns
  /\ zeroValidSamples' = 0
  /\ sampleOrigins' = {}

pressure_zero_clear ==
  /\ zeroActive' = FALSE
  /\ zeroLeft' = 0
  /\ zeroValidSamples' = 0
  /\ sampleOrigins' = {}
  /\ zeroValid' = FALSE
  /\ surfaceOrigins' = {}

(* A cancelled capture stops; the reference of before stands.              *)
TakeRequests ==
  /\ Running
  /\ step = "requests"
  /\ step' = "zero"
  /\ pressureRequest' = "none"
  /\ CASE pressureRequest = "zero" -> pressure_zero_begin /\ UNCHANGED reference
       [] pressureRequest = "clear" -> pressure_zero_clear
       [] pressureRequest = "cancel" ->
            /\ zeroActive' = FALSE
            /\ UNCHANGED <<zeroLeft, zeroValidSamples, sampleOrigins, reference>>
       [] OTHER -> UNCHANGED pressure
  /\ UNCHANGED <<mode, imuPlanActive, settle, clearConfirmed, status, restored,
                 phase, session, windowOpen, coordinator>>

PressureFails ==
  /\ Running
  /\ step = "zero"
  /\ OwnerFails
  /\ UNCHANGED <<mode, imuPlanActive, settle, clearConfirmed, pressureRequest,
                 restored, phase, session, pressure, windowOpen, coordinator>>

KeepsSample(accepted) == accepted /\ zeroValidSamples < MaxSamples

pressure_zero_finish(n) ==
  /\ zeroValid' = (n >= MinSamples)
  /\ surfaceOrigins' = IF n >= MinSamples THEN sampleOrigins' ELSE {}

(* pressure_zero_service, and the mode it ends.                            *)
ZeroService(accepted) ==
  /\ Running
  /\ step = "zero"
  /\ step' = "emit"
  /\ \/ /\ ~zeroActive
        /\ ~accepted
        /\ UNCHANGED <<capture, reference, mode>>
     \/ /\ zeroActive
        /\ zeroValidSamples' = zeroValidSamples + (IF KeepsSample(accepted) THEN 1 ELSE 0)
        /\ sampleOrigins' = sampleOrigins \cup (IF KeepsSample(accepted) THEN {"this"} ELSE {})
        /\ \/ /\ zeroLeft > 0
              /\ zeroLeft' = zeroLeft - 1
              /\ UNCHANGED <<zeroActive, reference, mode>>
           \/ /\ zeroLeft = 0
              /\ zeroActive' = FALSE
              /\ pressure_zero_finish(zeroValidSamples')
              /\ mode' = IF mode = "PRESSURE_ZERO" THEN "ACQUISITION" ELSE mode
              /\ UNCHANGED zeroLeft
  /\ UNCHANGED <<imuPlanActive, settle, clearConfirmed, pressureRequest, status,
                 restored, phase, session, windowOpen, coordinator>>

(* The row, once the publication window is open: it opens at the first     *)
(* acquisition, on an operational session.  The survey ends in acquisition.*)
Emit ==
  /\ Running
  /\ step = "emit"
  /\ \/ /\ windowOpen \/ mode # "ACQUISITION"
        /\ step' = "turn"
        /\ UNCHANGED <<status, windowOpen>>
     \/ /\ ~windowOpen
        /\ mode = "ACQUISITION"
        /\ sess = "OPERATIONAL"
        /\ windowOpen' = TRUE
        /\ step' = "turn"
        /\ UNCHANGED status
     \/ /\ windowOpen
        /\ OwnerFails
        /\ UNCHANGED windowOpen
     \/ /\ mode = "ACQUISITION"
        /\ windowOpen
        /\ status' = "completed"
        /\ UNCHANGED <<step, windowOpen>>
  /\ UNCHANGED <<mode, imuPlanActive, settle, clearConfirmed, pressureRequest,
                 restored, phase, session, pressure, coordinator>>

Over == ~Running /\ UNCHANGED vars

Key ==
  \/ NoKey
  \/ \E m \in PlanModes : KeyStage(m)
  \/ KeyClearConfirmed
  \/ KeysOfModes
  \/ KeyQ
  \/ KeyConfirm

Turn == StartupSettle \/ NoKey \/ PumpAdapter \/ Tick \/ BeginSettle \/ WaitSettled
          \/ Settled \/ Service \/ TakeRequests \/ Emit
          \/ (\E accepted \in BOOLEAN : ZeroService(accepted))

Next ==
  \/ Turn
  \/ Key
  \/ ChipReset
  \/ ProcessStop
  \/ SignalEndsLoop
  \/ InputError
  \/ PressureFails
  \/ Over

Spec == Init /\ [][Next]_vars

(* The owner turns; an operator who wants out of a mode goes on pressing q *)
(* until it has an effect.                                                 *)
Fairness ==
  /\ WF_vars(Turn)
  /\ SF_vars(KeyQ /\ phase' # phase)
  /\ SF_vars(KeyZeroCancel)
  /\ SF_vars(KeyMode("CLEAR_CONFIRM", "ACQUISITION", "none"))

FairSpec == Spec /\ Fairness

-----------------------------------------------------------------------------
(* Properties                                                              *)

StageTypeOK ==
  /\ mode \in {"RESTORE", "ACQUISITION", "CALIBRATION", "TARE", "CLEAR_ALL",
               "CLEAR_CONFIRM", "PRESSURE_ZERO", "STOPPED"}
  /\ settleLeft \in 0..SettleTurns
  /\ pressureRequest \in {"none", "zero", "cancel", "clear"}
  /\ status \in {"running", "error", "stopped", "completed"}
  /\ phase \in Phases
  /\ sess \in SessionStates
  /\ reports \in ReportSets

PressureTypeOK ==
  /\ zeroLeft \in 0..ZeroTurns
  /\ zeroValidSamples \in 0..MaxSamples
  /\ sampleOrigins \subseteq {"this", "earlier"}
  /\ surfaceOrigins \subseteq {"this", "earlier"}

(* The types of the stage's and the pressure context's variables.          *)
TypeOK == StageTypeOK /\ PressureTypeOK

(* The stage, the coordinator and the session tell the same story at the   *)
(* end of a turn: in the modes that acquire, the coordinator is idle or in *)
(* ACQUISITION and the session streams the production reports, unless the  *)
(* chip was reset; in the others a plan is running and it does not.        *)
PlanMatchesMode ==
  IF mode \in PlanModes
  THEN imuPlanActive /\ ~s_complete /\ s_active # "ACQUISITION"
  ELSE /\ ~imuPlanActive
       /\ ~s_inited \/ s_active = "ACQUISITION"
       /\ (sess = "OPERATIONAL" /\ reports = "production") \/ sess = "RECOVERING"

(* So do main.c's capture and the mode, joined by requests, a cancel and a *)
(* completion that cross in a turn: a capture runs exactly while the mode  *)
(* says so, so q can always reach it and no capture outlives its mode to   *)
(* overwrite a reference later.                                            *)
ModesAgree ==
  Running /\ step = "emit" =>
    PlanMatchesMode /\ (zeroActive <=> mode = "PRESSURE_ZERO")

(* A reference is the mean of samples of one capture: none of a cancelled, *)
(* a failed or an earlier capture is left in it.                           *)
ReferenceOfOneCapture == zeroValid => surfaceOrigins = {"this"}

(* Whatever it is doing, an operator who presses q is back in acquisition, *)
(* if the program is not ended first by a signal or a failure.             *)
QGetsOut == Running ~> (mode = "ACQUISITION" \/ ~Running)
=============================================================================
