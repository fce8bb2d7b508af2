------------------------------- MODULE ImuCheck -------------------------------
(***************************************************************************)
(* The check and probe machine, bno/app/imu_check.c, and its adapter,      *)
(* imu_check_adapter.c.  A check runs until q; a probe until q or its      *)
(* deadline, which runs from the start of the stage.                       *)
(***************************************************************************)
EXTENDS ImuMachine

VARIABLES
  s_configEpoch,
  gateReached        \* s_progress.check.gateReached

check == <<s_configEpoch, gateReached>>

InitCheckVars ==
  /\ s_configEpoch = 0
  /\ gateReached = FALSE

imu_check_init(id) ==
  /\ InitBase(id)
  /\ st = "WAIT_CONFIG"
  /\ pending = "CONFIGURE"
  /\ left = IF id = "PROBE" THEN ProbeTime ELSE 0

(* enter_phase leaves the deadline and the gate alone.                     *)
enter_phase(s, request) ==
  /\ st' = s
  /\ pending' = request
  /\ UNCHANGED <<left, good, result>>

check_begin_restore(r) ==
  /\ term' = r
  /\ enter_phase("WAIT_RESTORE", "RESTORE")

(* update_gate, on the facts f: good is carried over the end of MONITOR.   *)
GatePassing(f) == f.valid /\ {"accel", "mag"} \subseteq f.at_goal
update_gate(f) ==
  /\ good' = GateClock(GatePassing(f))
  /\ gateReached' = (gateReached \/ Sustained(GatePassing(f)))

-----------------------------------------------------------------------------
check_post_q ==
  /\ UNCHANGED <<evidence, s_configEpoch>>
  /\ \/ /\ st = "WAIT_CONFIG"
        /\ finish(Result("CANCELLED", FALSE), FALSE)
        /\ UNCHANGED gateReached
     \/ /\ st = "MONITOR"
        /\ update_gate(facts)
        /\ st' = "WAIT_RESTORE"
        /\ pending' = "RESTORE"
        /\ term' = Result("CANCELLED", FALSE)
        /\ UNCHANGED <<left, result>>

CheckConfigAnswered(ok) ==
  /\ st = "WAIT_CONFIG"
  /\ \/ /\ ok
        /\ s_configEpoch' = epoch'
        /\ enter_phase("MONITOR", "NONE")
        /\ UNCHANGED term
     \/ /\ ~ok
        /\ check_begin_restore(Result("FAILED", TRUE))
        /\ UNCHANGED s_configEpoch

CheckRestoreAnswered(ok) ==
  /\ st = "WAIT_RESTORE"
  /\ \/ ok /\ finish(term, TRUE)
     \/ ~ok /\ finish(Result("RECOVERY_FAILED", TRUE), FALSE)
  /\ UNCHANGED s_configEpoch

FedFacts == IF st = "MONITOR" /\ mail.valid /\ mail.epoch = s_configEpoch THEN mail ELSE facts

(* imu_check_adapter_pump.  Facts of another epoch, or before MONITOR, are *)
(* ignored; MONITOR has no request pending.                                *)
imu_check_adapter_pump ==
  /\ facts' = FedFacts
  /\ UNCHANGED verified
  /\ \/ /\ pending = "NONE"
        /\ IF FedFacts = facts
           THEN UNCHANGED <<good, gateReached>>
           ELSE update_gate(FedFacts)
        /\ UNCHANGED <<st, pending, left, term, result, s_configEpoch, session>>
     \/ \E ok \in BOOLEAN :
          /\ pending # "NONE"
          /\ Call(pending, ok)
          /\ CheckConfigAnswered(ok) \/ CheckRestoreAnswered(ok)
          /\ UNCHANGED gateReached

-----------------------------------------------------------------------------
(* imu_check_service                                                       *)

DeadlineOfAnyStage == Due
DeadlinePassed == identity = "PROBE" /\ Due

imu_check_service ==
  /\ UNCHANGED <<evidence, s_configEpoch>>
  /\ \/ /\ st = "MONITOR"
        /\ update_gate(facts)
        /\ UNCHANGED <<left, result>>
        /\ \/ /\ DeadlinePassed
              /\ st' = "WAIT_RESTORE"
              /\ pending' = "RESTORE"
              /\ term' = Result("TIMED_OUT", FALSE)
           \/ /\ ~DeadlinePassed
              /\ UNCHANGED <<st, pending, term>>
     \/ /\ st # "MONITOR"
        /\ UNCHANGED <<control, gateReached>>
=============================================================================
