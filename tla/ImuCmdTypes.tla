----------------------------- MODULE ImuCmdTypes -----------------------------
(***************************************************************************)
(* What the command coordinator and its machines share: the identities a   *)
(* stage may have, the results it may end with (bno/app/imu_cmd.h), and    *)
(* the results each machine promises the coordinator.                      *)
(***************************************************************************)

Slot1 == {"CALIBRATION", "DCD_CLEAR"}
Slot2 == {"TARE", "TARE_CLEAR", "TARE_CHECK"}
Slot3 == {"CHECK", "PROBE"}
Composed == Slot1 \cup Slot2 \cup Slot3
Identities == Composed \cup {"SETTLE", "ACQUISITION"}

Terminal == {"SUCCEEDED", "FAILED", "CANCELLED", "TIMED_OUT",
             "RECOVERY_FAILED", "ABANDONED"}
Results == [state : Terminal \cup {"NOT_REQUESTED", "RUNNING"}, warning : BOOLEAN]
Result(state, warning) == [state |-> state, warning |-> warning]

(* The results a machine ends with, by the stage it serves.  Only q        *)
(* cancels, only a probe times out, and a check never succeeds.            *)
MachineResults(id) ==
  {Result("FAILED", TRUE), Result("RECOVERY_FAILED", TRUE)}
  \cup (IF id \in Slot1 \cup {"TARE", "TARE_CLEAR"}
        THEN {Result("CANCELLED", TRUE)} ELSE {Result("CANCELLED", FALSE)})
  \cup (IF id \in Slot3 THEN {} ELSE {Result("SUCCEEDED", FALSE)})
  \cup (IF id = "PROBE" THEN {Result("TIMED_OUT", FALSE)} ELSE {})
=============================================================================
