------------------------------- MODULE ImuCmd -------------------------------
(***************************************************************************)
(* The command coordinator, bno/app/imu_cmd.c: one immutable plan of three *)
(* optional stages, then SETTLE and ACQUISITION.  A stage of the first     *)
(* three slots is run by its calibration, tare or check machine; machine   *)
(* is that machine as the coordinator sees it: whose stage it serves and   *)
(* the result it will report.                                              *)
(*                                                                         *)
(* Every post and the service call is an action; calls that the code       *)
(* answers without changing anything are stuttering steps.  s_confirmed    *)
(* and s_action only mirror the machines and are left out, and the three   *)
(* s_*_initialized flags and s_stage_start_ns are one flag: they are set   *)
(* by the first TICK of a stage and cleared between stages.                *)
(***************************************************************************)
EXTENDS Integers, ImuCmdTypes

CONSTANT Plans          \* plans handed to imu_cmd_init, legal ones or not

(* A plan: the identity of each slot, and whether its masks, axes,         *)
(* durations and confirmation flags agree with those identities.           *)
ASSUME PlansAssumption ==
  Plans \subseteq [slot : [1..3 -> Identities \cup {"NONE"}], fieldsAgree : BOOLEAN]

VARIABLES
  s_inited,
  s_plan,
  s_active,             \* identity of the running stage, or "NONE"
  s_armed,              \* has the running stage seen its first TICK?
  s_request,            \* what the owner is asked to do, and for whom
  s_do_not_acquire,
  s_process_stop,
  s_warning,
  s_complete,
  s_unrestorable,
  s_slot_done,
  s_results,
  machine               \* the composed machine of the running stage

vars == <<s_inited, s_plan, s_active, s_armed, s_request, s_do_not_acquire,
          s_process_stop, s_warning, s_complete, s_unrestorable, s_slot_done,
          s_results, machine>>

NoPlan == [slot |-> [k \in 1..3 |-> "NONE"], fieldsAgree |-> FALSE]
NoRequest == [kind |-> "NONE", id |-> "NONE"]
StopPlan == [kind |-> "STOP_PLAN", id |-> "NONE"]
RequestFor(id) ==
  [kind |-> IF id = "SETTLE" THEN "SETTLE"
            ELSE IF id = "ACQUISITION" THEN "ACQUIRE" ELSE "RUN_COMMAND",
   id |-> id]
NotRequested == [id \in Identities |-> Result("NOT_REQUESTED", FALSE)]
NoMachine == [id |-> "NONE", result |-> Result("NOT_REQUESTED", FALSE)]

StageAt(k) ==
  IF k = 4 THEN "SETTLE" ELSE IF k = 5 THEN "ACQUISITION" ELSE s_plan.slot[k]

slot_of(id) == CHOOSE k \in 1..5 : StageAt(k) = id

plan_legal(plan) ==
  /\ plan.slot[1] \in Slot1 \cup {"NONE"}
  /\ plan.slot[2] \in Slot2 \cup {"NONE"}
  /\ plan.slot[3] \in Slot3 \cup {"NONE"}
  /\ plan.fieldsAgree

MachineRunning == machine.id = s_active /\ machine.result.state = "RUNNING"

-----------------------------------------------------------------------------
Init ==
  /\ s_inited = FALSE
  /\ s_plan = NoPlan
  /\ s_active = "NONE"
  /\ s_armed = FALSE
  /\ s_request = NoRequest
  /\ s_do_not_acquire = FALSE
  /\ s_process_stop = FALSE
  /\ s_warning = FALSE
  /\ s_complete = FALSE
  /\ s_unrestorable = FALSE
  /\ s_slot_done = 0
  /\ s_results = NotRequested
  /\ machine = NoMachine

(* imu_cmd_init forgets everything; the owners call it before the first    *)
(* turn (bno_app) and from acquisition, once per command (twg).  What an   *)
(* earlier plan's machine holds is not read again.                         *)
imu_cmd_init(plan) ==
  /\ s_inited => s_complete \/ s_active = "ACQUISITION"
  /\ s_inited' = plan_legal(plan)
  /\ s_plan' = IF plan_legal(plan) THEN plan ELSE NoPlan
  /\ s_active' = "NONE"
  /\ s_armed' = FALSE
  /\ s_request' = NoRequest
  /\ s_do_not_acquire' = FALSE
  /\ s_process_stop' = FALSE
  /\ s_warning' = FALSE
  /\ s_complete' = FALSE
  /\ s_unrestorable' = FALSE
  /\ s_slot_done' = 0
  /\ s_results' = NotRequested
  /\ machine' = NoMachine

-----------------------------------------------------------------------------
(* Ending a stage: finish_active and complete_active_bookkeeping           *)

EndsPlanUnlessRecoveryFailed(result, stopped, lost) ==
  lost \/ stopped \/ s_active = "ACQUISITION"

EndsPlan(result, stopped, lost) ==
  \/ result.state = "RECOVERY_FAILED"
  \/ lost
  \/ stopped
  \/ s_active = "ACQUISITION"

LatestWarning(result) == result.warning
WarningWith(result) == s_warning \/ result.warning

AddSlot(id) == s_slot_done + slot_of(id)
SlotDoneWith(id) == IF slot_of(id) > s_slot_done THEN slot_of(id) ELSE s_slot_done

KeepRequest(vetoed, stopped) == IF vetoed \/ stopped THEN StopPlan ELSE s_request
RequestAfter(vetoed, stopped) == IF vetoed \/ stopped THEN StopPlan ELSE NoRequest

(* stopped: the result is the stop's ABANDONED; lost: the session is gone. *)
finish_active(result, stopped, lost) ==
  LET vetoed == result.state = "RECOVERY_FAILED" \/ lost
  IN  /\ s_results' = [s_results EXCEPT ![s_active] = result]
      /\ s_warning' = WarningWith(result)
      /\ s_slot_done' = SlotDoneWith(s_active)
      /\ s_do_not_acquire' = (s_do_not_acquire \/ vetoed
                                \/ (stopped /\ s_active # "ACQUISITION"))
      /\ s_complete' = EndsPlan(result, stopped, lost)
      /\ s_request' = RequestAfter(vetoed, stopped)
      /\ s_active' = "NONE"
      /\ s_armed' = FALSE

-----------------------------------------------------------------------------
(* Posted events                                                           *)

(* q reaches an initialized machine: one that has not touched the session  *)
(* yet ends at once, the others go on to restore production.               *)
post_q ==
  /\ s_inited
  /\ s_active \in Composed \ {"CALIBRATION"}
  /\ s_armed
  /\ MachineRunning
  /\ machine' = [machine EXCEPT !.result =
                   CHOOSE r \in MachineResults(s_active) : r.state = "CANCELLED"]
  /\ UNCHANGED <<s_inited, s_plan, s_active, s_armed, s_request,
                 s_do_not_acquire, s_process_stop, s_warning, s_complete,
                 s_unrestorable, s_slot_done, s_results>>

post_process_stop ==
  /\ s_inited
  /\ s_process_stop' = TRUE
  /\ \/ /\ s_active # "NONE"
        /\ finish_active(Result("ABANDONED", FALSE), TRUE, FALSE)
     \/ /\ s_active = "NONE"
        /\ s_do_not_acquire' = (s_do_not_acquire \/ s_slot_done < 5)
        /\ s_complete' = TRUE
        /\ s_request' = StopPlan
        /\ UNCHANGED <<s_active, s_armed, s_warning, s_slot_done, s_results>>
  /\ UNCHANGED <<s_inited, s_plan, s_unrestorable, machine>>

(* The first TICK of a stage arms it and initializes its machine, which a  *)
(* legal plan always satisfies; later ones only move clocks, until the     *)
(* acquisition window is due.                                              *)
post_tick(due) ==
  /\ s_inited
  /\ s_active # "NONE"
  /\ \/ /\ ~s_armed
        /\ s_armed' = TRUE
        /\ machine' = IF s_active \in Composed
                      THEN [id |-> s_active, result |-> Result("RUNNING", FALSE)]
                      ELSE machine
        /\ UNCHANGED <<s_active, s_request, s_do_not_acquire, s_warning,
                       s_complete, s_slot_done, s_results>>
     \/ /\ s_armed
        /\ s_active = "ACQUISITION"
        /\ due
        /\ finish_active(Result("SUCCEEDED", FALSE), FALSE, FALSE)
        /\ UNCHANGED machine
  /\ UNCHANGED <<s_inited, s_plan, s_process_stop, s_unrestorable>>

(* The host seam: only stages without a machine take a terminal from it.   *)
(* It may say the stage was abandoned to a stop that was never posted.     *)
post_terminal(result, stopped) ==
  /\ s_inited
  /\ s_active \in {"SETTLE", "ACQUISITION"}
  /\ stopped => result.state = "ABANDONED"
  /\ finish_active(result, stopped, FALSE)
  /\ UNCHANGED <<s_inited, s_plan, s_process_stop, s_unrestorable, machine>>

post_settle_done ==
  /\ s_inited
  /\ s_active = "SETTLE"
  /\ finish_active(Result("SUCCEEDED", FALSE), FALSE, FALSE)
  /\ UNCHANGED <<s_inited, s_plan, s_process_stop, s_unrestorable, machine>>

VetoOnly ==
  /\ s_do_not_acquire' = TRUE
  /\ UNCHANGED <<s_active, s_armed, s_request, s_warning, s_complete,
                 s_slot_done, s_results>>

VetoAndStop ==
  /\ s_do_not_acquire' = TRUE
  /\ s_complete' = TRUE
  /\ s_request' = StopPlan
  /\ UNCHANGED <<s_active, s_armed, s_warning, s_slot_done, s_results>>

SessionUnrestorable ==
  /\ s_inited
  /\ s_unrestorable' = TRUE
  /\ \/ /\ s_active # "NONE"
        /\ finish_active(Result("RECOVERY_FAILED", TRUE), FALSE, TRUE)
     \/ /\ s_active = "NONE"
        /\ VetoAndStop
  /\ UNCHANGED <<s_inited, s_plan, s_process_stop, machine>>

(* The adapter hands the machine the answer to its last session request.   *)
MachineFinishes(result) ==
  /\ s_active \in Composed
  /\ s_armed
  /\ MachineRunning
  /\ machine' = [machine EXCEPT !.result = result]
  /\ UNCHANGED <<s_inited, s_plan, s_active, s_armed, s_request,
                 s_do_not_acquire, s_process_stop, s_warning, s_complete,
                 s_unrestorable, s_slot_done, s_results>>

-----------------------------------------------------------------------------
(* imu_cmd_service                                                         *)

MachineComplete == machine.id = s_active /\ machine.result.state \in Terminal
MachineStarted == machine.id = s_active

AdoptWithoutBookkeeping ==
  /\ s_active \in Composed
  /\ s_armed
  /\ MachineComplete
  /\ s_results' = [s_results EXCEPT ![s_active] = machine.result]
  /\ UNCHANGED <<s_inited, s_plan, s_active, s_armed, s_request,
                 s_do_not_acquire, s_process_stop, s_warning, s_complete,
                 s_unrestorable, s_slot_done, machine>>

AdoptEarly ==
  /\ s_active \in Composed
  /\ s_armed
  /\ MachineStarted
  /\ finish_active(IF MachineComplete THEN machine.result
                                      ELSE Result("SUCCEEDED", FALSE), FALSE, FALSE)
  /\ UNCHANGED <<s_inited, s_plan, s_process_stop, s_unrestorable, machine>>

(* A complete machine's result is adopted as the stage's.                  *)
AdoptResult ==
  /\ s_active \in Composed
  /\ s_armed
  /\ MachineComplete
  /\ finish_active(machine.result, FALSE, FALSE)
  /\ UNCHANGED <<s_inited, s_plan, s_process_stop, s_unrestorable, machine>>

(* The next slot that holds a stage; the slots passed over are done.  A    *)
(* veto ends the plan where it is set (VetoEndsPlan), so the service's own *)
(* veto branch is never taken.                                             *)
start_stage(k) ==
  /\ s_active = "NONE"
  /\ k \in {4, 5} => ~s_do_not_acquire
  /\ k > s_slot_done
  /\ StageAt(k) # "NONE"
  /\ \A j \in 1..5 : s_slot_done < j /\ j < k => StageAt(j) = "NONE"
  /\ s_slot_done' = k - 1
  /\ s_active' = StageAt(k)
  /\ s_armed' = FALSE
  /\ s_request' = RequestFor(StageAt(k))
  /\ s_results' = [s_results EXCEPT ![StageAt(k)] = Result("RUNNING", FALSE)]
  /\ UNCHANGED <<s_inited, s_plan, s_do_not_acquire, s_process_stop,
                 s_warning, s_complete, s_unrestorable, machine>>

imu_cmd_service ==
  /\ s_inited
  /\ ~s_complete
  /\ ~s_process_stop
  /\ \/ AdoptResult
     \/ \E k \in 1..5 : start_stage(k)

-----------------------------------------------------------------------------
Post ==
  \/ post_q
  \/ post_process_stop
  \/ \E due \in BOOLEAN : post_tick(due)
  \/ \E state \in Terminal, warning, stopped \in BOOLEAN :
       post_terminal(Result(state, warning), stopped)
  \/ post_settle_done
  \/ SessionUnrestorable

Finishing == \E result \in MachineResults(s_active) : MachineFinishes(result)

Next ==
  \/ \E plan \in Plans : imu_cmd_init(plan)
  \/ Post
  \/ Finishing
  \/ imu_cmd_service

Spec == Init /\ [][Next]_vars

(* The owner loop ticks and services every turn and settles; a machine     *)
(* ends because its operator answers the prompts or presses q, and its     *)
(* adapter is pumped every turn.  Nothing makes a stop or a loss happen.   *)
Fairness ==
  /\ WF_vars(imu_cmd_service)
  /\ WF_vars(post_tick(TRUE))
  /\ WF_vars(post_settle_done)
  /\ WF_vars(Finishing)

FairSpec == Spec /\ Fairness

-----------------------------------------------------------------------------
(* Properties                                                              *)

StageTypeOK ==
  /\ s_active \in Identities \cup {"NONE"}
  /\ s_request \in [kind : {"NONE", "RUN_COMMAND", "SETTLE", "ACQUIRE", "STOP_PLAN"},
                    id : Identities \cup {"NONE"}]
  /\ s_slot_done \in 0..5

ResultTypeOK ==
  /\ s_plan \in [slot : [1..3 -> Composed \cup {"NONE"}], fieldsAgree : BOOLEAN]
  /\ s_results \in [Identities -> Results]
  /\ machine \in [id : Composed \cup {"NONE"}, result : Results]

FlagTypeOK ==
  /\ s_inited \in BOOLEAN
  /\ s_armed \in BOOLEAN
  /\ s_do_not_acquire \in BOOLEAN
  /\ s_process_stop \in BOOLEAN
  /\ s_warning \in BOOLEAN
  /\ s_complete \in BOOLEAN
  /\ s_unrestorable \in BOOLEAN

(* The types of the coordinator's variables (imu_cmd.c:8-28).              *)
TypeOK == StageTypeOK /\ ResultTypeOK /\ FlagTypeOK

(* Once acquisition is vetoed the plan is over: nothing is running, the    *)
(* owner is told to stop, and no later call can start a stage (a lost      *)
(* session or a stop is honoured whenever it is posted).                   *)
VetoEndsPlan ==
  s_do_not_acquire => s_complete /\ s_active = "NONE" /\ s_request = StopPlan

(* The owner's request is for the running stage and for nothing else, so   *)
(* the owner never pumps a session on behalf of a stage that has ended.    *)
RequestNamesActive ==
  /\ s_active # "NONE" => s_request = RequestFor(s_active)
  /\ s_active = "NONE" => s_request \in {NoRequest, StopPlan}

(* The plan's warning flag is exactly the disjunction of the warnings of   *)
(* the results: no later stage's outcome clears or invents one.            *)
WarningIsOfAResult ==
  s_inited => (s_warning <=> \E id \in Identities : s_results[id].warning)

(* A stage run by a machine ends with that machine's own result, unless a  *)
(* process stop or a lost session ended it first.                          *)
AdoptionFaithful ==
  [][\A id \in Composed :
       s_results[id].state = "RUNNING" /\ s_results'[id].state \in Terminal =>
         \/ machine.id = id /\ s_results'[id] = machine.result
         \/ s_process_stop' /\ s_results'[id].state = "ABANDONED"
         \/ s_unrestorable' /\ s_results'[id].state = "RECOVERY_FAILED"]_vars

(* The stages of the plan, as PlanRun sees them.                           *)
StageState(k) ==
  IF StageAt(k) = "NONE" \/ s_results[StageAt(k)].state = "NOT_REQUESTED" THEN "waiting"
  ELSE IF s_results[StageAt(k)].state = "RUNNING" THEN "running"
  ELSE s_results[StageAt(k)].state

Plan == INSTANCE PlanRun WITH
  Verdicts <- Terminal,
  requested <- IF s_inited THEN {k \in 1..5 : StageAt(k) # "NONE"} ELSE {},
  state <- [k \in 1..5 |-> StageState(k)],
  ended <- s_complete

(* The coordinator runs its plan as PlanRun promises: in order, once each, *)
(* and never past a failed recovery.                                       *)
RunsPlan == Plan!PlanSpec

(* A plan accepted by imu_cmd_init reaches acquisition or ends.            *)
PlanSettled == s_inited ~> (s_complete \/ s_active = "ACQUISITION")
=============================================================================
