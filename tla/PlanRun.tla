------------------------------ MODULE PlanRun -------------------------------
(***************************************************************************)
(* What an IMU command plan promises (bno/app/imu_cmd.h): the requested    *)
(* stages run one at a time, in slot order, each at most once; a stage     *)
(* that leaves the session unusable ends the plan, so acquisition is never *)
(* reached past it; an ended plan starts nothing more.                     *)
(***************************************************************************)
EXTENDS Integers

CONSTANT Verdicts       \* how a stage may end

Slots == 1..5           \* calibration, tare, check, settle, acquisition

VARIABLES requested,    \* the slots of the plan that hold a stage
          state,        \* per slot: "waiting", "running", or its verdict
          ended         \* has the plan ended?

planVars == <<requested, state, ended>>

Finished(k) == state[k] \notin {"waiting", "running"}

(* A new plan replaces one that has ended or that is acquiring.            *)
Fresh ==
  /\ requested' \in SUBSET Slots
  /\ state' = [k \in Slots |-> "waiting"]
  /\ ended' = FALSE

PlanInit ==
  /\ requested = {}
  /\ state = [k \in Slots |-> "waiting"]
  /\ ended = FALSE

NewPlan ==
  /\ requested = {} \/ ended \/ state[5] = "running"
  /\ Fresh

Start(k) ==
  /\ k \in requested
  /\ ~ended
  /\ state[k] = "waiting"
  /\ \A j \in requested : j < k => Finished(j)
  /\ \A j \in Slots : j > k => state[j] = "waiting"
  /\ state' = [state EXCEPT ![k] = "running"]
  /\ UNCHANGED <<requested, ended>>

(* The plan ends with its last slot or on a failed recovery; a stop may    *)
(* end it anywhere.                                                        *)
Finish(k, v) ==
  /\ ~ended
  /\ state[k] = "running"
  /\ state' = [state EXCEPT ![k] = v]
  /\ ended' \in BOOLEAN
  /\ k = 5 \/ v = "RECOVERY_FAILED" => ended'
  /\ ended' => k = 5 \/ v \in {"RECOVERY_FAILED", "ABANDONED"}
  /\ UNCHANGED requested

(* A stop or an unusable session between two stages.                       *)
End ==
  /\ requested # {}
  /\ \A k \in Slots : state[k] # "running"
  /\ ended' = TRUE
  /\ UNCHANGED <<requested, state>>

PlanNext ==
  \/ NewPlan
  \/ \E k \in Slots : Start(k)
  \/ \E k \in Slots, v \in Verdicts : Finish(k, v)
  \/ End

PlanSpec == PlanInit /\ [][PlanNext]_planVars
=============================================================================
