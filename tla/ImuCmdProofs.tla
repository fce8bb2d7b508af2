---------------------------- MODULE ImuCmdProofs ----------------------------
(***************************************************************************)
(* The coordinator runs every plan as PlanRun promises, for every set of   *)
(* plans.                                                                  *)
(***************************************************************************)
EXTENDS ImuCmd, TLAPS

(* Without a legal plan the coordinator holds nothing.                     *)
Idle ==
  /\ s_plan = NoPlan
  /\ s_active = "NONE"
  /\ s_results = NotRequested
  /\ ~s_complete
  /\ ~s_do_not_acquire

(* s_slot_done splits the plan: stages up to it have ended, the running    *)
(* one is next, and those after have not been asked for.                   *)
SlotDoneSplits ==
  \A k \in 1..5 :
    StageAt(k) # "NONE" =>
      /\ k <= s_slot_done => s_results[StageAt(k)].state \in Terminal
      /\ k > s_slot_done =>
           s_results[StageAt(k)].state =
             IF StageAt(k) = s_active THEN "RUNNING" ELSE "NOT_REQUESTED"

ActiveIsNext ==
  s_active # "NONE" =>
    s_slot_done + 1 \in 1..5 /\ StageAt(s_slot_done + 1) = s_active

IInv ==
  /\ TypeOK
  /\ s_inited => plan_legal(s_plan)
  /\ ~s_inited => Idle
  /\ s_complete => s_active = "NONE"
  /\ VetoEndsPlan
  /\ RequestNamesActive
  /\ ActiveIsNext
  /\ SlotDoneSplits

-----------------------------------------------------------------------------
(* The stages of a legal plan                                              *)

(* The stage of a slot of an accepted plan is a stage identity or none.    *)
LEMMA StageAtType ==
  ASSUME TypeOK, NEW k \in 1..5
  PROVE  StageAt(k) \in Identities \cup {"NONE"}
BY DEF TypeOK, StageTypeOK, ResultTypeOK,
      FlagTypeOK, StageAt, Identities

(* No identity occurs in two slots of a legal plan.                        *)
LEMMA StagesDistinct ==
  ASSUME plan_legal(s_plan), NEW j \in 1..5, NEW k \in 1..5,
         StageAt(j) = StageAt(k), StageAt(k) # "NONE"
  PROVE  j = k
BY DEF plan_legal, StageAt, Slot1, Slot2, Slot3

(* The running stage is the one after the slots that are done.             *)
LEMMA SlotOfActive ==
  ASSUME IInv, s_inited, s_active # "NONE"
  PROVE  SlotDoneWith(s_active) = s_slot_done + 1
<1>1. s_slot_done + 1 \in 1..5 /\ StageAt(s_slot_done + 1) = s_active
  BY DEF IInv, ActiveIsNext
<1>2. \A k \in 1..5 : StageAt(k) = s_active => k = s_slot_done + 1
  BY <1>1, StagesDistinct DEF IInv
<1>3. slot_of(s_active) = s_slot_done + 1
  BY <1>1, <1>2 DEF slot_of
<1> QED
  BY <1>1, <1>3 DEF SlotDoneWith, IInv, TypeOK, StageTypeOK, ResultTypeOK, FlagTypeOK

-----------------------------------------------------------------------------
(* The inductive invariant                                                 *)

(* Ending the running stage keeps the invariant, whatever ended it.        *)
LEMMA FinishKeeps ==
  ASSUME IInv, s_inited, s_active # "NONE",
         NEW result \in Results, result.state \in Terminal,
         NEW stopped \in BOOLEAN, NEW lost \in BOOLEAN,
         finish_active(result, stopped, lost),
         UNCHANGED <<s_inited, s_plan>>,
         s_process_stop' \in BOOLEAN, s_unrestorable' \in BOOLEAN,
         machine' \in [id : Composed \cup {"NONE"}, result : Results]
  PROVE  IInv'
<1>1. /\ s_slot_done' = s_slot_done + 1
      /\ s_slot_done + 1 \in 1..5
      /\ StageAt(s_slot_done + 1) = s_active
  BY SlotOfActive DEF finish_active, IInv, ActiveIsNext
<1>2. ~s_do_not_acquire /\ ~s_complete
  BY DEF IInv, VetoEndsPlan
<1>3. s_active \in Identities
  BY DEF IInv, TypeOK, StageTypeOK, ResultTypeOK, FlagTypeOK
<1>4. /\ s_active' = "NONE"
      /\ s_results' = [s_results EXCEPT ![s_active] = result]
      /\ s_request' \in {NoRequest, StopPlan}
      /\ s_do_not_acquire' => s_complete' /\ s_request' = StopPlan
      /\ s_armed' = FALSE
      /\ s_complete' \in BOOLEAN
      /\ s_do_not_acquire' \in BOOLEAN
      /\ s_warning' \in BOOLEAN
  BY <1>2 DEF finish_active, RequestAfter, EndsPlan, IInv, TypeOK, StageTypeOK, ResultTypeOK,
      FlagTypeOK, WarningWith, Results
<1>5. TypeOK'
  <2>1. s_results' \in [Identities -> Results]
    BY <1>3, <1>4 DEF IInv, TypeOK, StageTypeOK, ResultTypeOK, FlagTypeOK
  <2>2. s_request' \in [kind : {"NONE", "RUN_COMMAND", "SETTLE", "ACQUIRE", "STOP_PLAN"},
                        id : Identities \cup {"NONE"}]
    BY <1>4 DEF NoRequest, StopPlan
  <2>3. StageTypeOK'
    BY <1>1, <1>4, <2>2 DEF StageTypeOK
  <2>4. ResultTypeOK'
    BY <2>1 DEF IInv, TypeOK, ResultTypeOK
  <2>5. FlagTypeOK'
    BY <1>4 DEF IInv, TypeOK, FlagTypeOK
  <2> QED
    BY <2>3, <2>4, <2>5 DEF TypeOK
<1>6. SlotDoneSplits'
  <2> SUFFICES ASSUME NEW k \in 1..5, StageAt(k) # "NONE"
               PROVE  /\ k <= s_slot_done + 1 => s_results'[StageAt(k)].state \in Terminal
                      /\ k > s_slot_done + 1 =>
                           s_results'[StageAt(k)].state = "NOT_REQUESTED"
    BY <1>1, <1>4 DEF SlotDoneSplits, StageAt
  <2>1. StageAt(k) \in Identities
    BY StageAtType DEF IInv
  <2>2. CASE k = s_slot_done + 1
    <3>1. s_results'[StageAt(k)] = result
      BY <1>1, <1>3, <1>4, <2>2 DEF IInv, TypeOK, StageTypeOK, ResultTypeOK, FlagTypeOK
    <3> QED
      BY <2>2, <3>1
  <2>3. CASE k # s_slot_done + 1
    <3>1. StageAt(k) # s_active
      BY <1>1, <2>3, StagesDistinct DEF IInv
    <3>2. s_results'[StageAt(k)] = s_results[StageAt(k)]
      BY <1>4, <2>1, <3>1 DEF IInv, TypeOK, StageTypeOK, ResultTypeOK, FlagTypeOK
    <3> QED
      BY <2>3, <3>1, <3>2 DEF IInv, TypeOK, StageTypeOK, ResultTypeOK,
      FlagTypeOK, SlotDoneSplits
  <2> QED
    BY <2>2, <2>3
<1> QED
  <2>1. (s_inited => plan_legal(s_plan))' /\ (~s_inited => Idle)'
    BY DEF IInv, plan_legal
  <2>2. VetoEndsPlan' /\ RequestNamesActive' /\ ActiveIsNext' /\ (s_complete => s_active = "NONE")'
    BY <1>4 DEF VetoEndsPlan, RequestNamesActive, ActiveIsNext
  <2> QED
    BY <1>5, <1>6, <2>1, <2>2 DEF IInv

(* A step that leaves the plan, its results and its position alone.        *)
LEMMA NothingEndsKeeps ==
  ASSUME IInv, TypeOK',
         UNCHANGED <<s_inited, s_plan, s_active, s_slot_done, s_results>>,
         \/ UNCHANGED <<s_request, s_complete, s_do_not_acquire>>
         \/ /\ s_inited
            /\ s_active = "NONE"
            /\ s_complete'
            /\ s_request' = StopPlan
  PROVE  IInv'
<1>1. SlotDoneSplits' /\ ActiveIsNext'
  BY DEF IInv, SlotDoneSplits, ActiveIsNext, StageAt
<1>2. (s_inited => plan_legal(s_plan))' /\ (~s_inited => Idle)'
  BY DEF IInv, plan_legal, Idle
<1>3. VetoEndsPlan' /\ RequestNamesActive' /\ (s_complete => s_active = "NONE")'
  BY DEF IInv, VetoEndsPlan, RequestNamesActive, RequestFor
<1> QED
  BY <1>1, <1>2, <1>3 DEF IInv

(* imu_cmd_init, accepting or refusing its plan, starts afresh.            *)
LEMMA InitKeeps ==
  ASSUME NEW plan \in Plans, imu_cmd_init(plan)
  PROVE  IInv'
<1>1. s_plan' \in [slot : [1..3 -> Composed \cup {"NONE"}], fieldsAgree : BOOLEAN]
  BY PlansAssumption DEF PlansAssumption, imu_cmd_init, plan_legal, NoPlan, Composed
<1>2. NotRequested \in [Identities -> Results]
  BY DEF NotRequested, Results, Result, Terminal
<1>3. NoMachine \in [id : Composed \cup {"NONE"}, result : Results]
  BY DEF NoMachine, Results, Result, Terminal
<1>4. NoRequest \in [kind : {"NONE", "RUN_COMMAND", "SETTLE", "ACQUIRE", "STOP_PLAN"},
                     id : Identities \cup {"NONE"}]
  BY DEF NoRequest
<1>5. plan_legal(plan) \in BOOLEAN
  BY DEF plan_legal
<1>6. TypeOK'
  <2>1. StageTypeOK'
    BY <1>4 DEF imu_cmd_init, StageTypeOK
  <2>2. ResultTypeOK'
    BY <1>1, <1>2, <1>3 DEF imu_cmd_init, ResultTypeOK
  <2>3. FlagTypeOK'
    BY <1>5 DEF imu_cmd_init, FlagTypeOK
  <2> QED
    BY <2>1, <2>2, <2>3 DEF TypeOK
<1>7. (s_inited => plan_legal(s_plan))' /\ (~s_inited => Idle)'
  BY DEF imu_cmd_init, Idle, plan_legal
<1>8. SlotDoneSplits'
  <2> SUFFICES ASSUME NEW k \in 1..5, StageAt(k)' # "NONE"
               PROVE  NotRequested[StageAt(k)'].state = "NOT_REQUESTED"
    BY DEF SlotDoneSplits, imu_cmd_init
  <2>1. StageAt(k)' \in Identities
    BY <1>1 DEF StageAt, Identities
  <2> QED
    BY <2>1 DEF NotRequested, Result
<1> QED
  BY <1>6, <1>7, <1>8 DEF IInv, imu_cmd_init, VetoEndsPlan, RequestNamesActive, ActiveIsNext

(* Starting the next slot's stage.                                         *)
LEMMA StartKeeps ==
  ASSUME IInv, s_inited, ~s_complete, NEW k \in 1..5, start_stage(k)
  PROVE  IInv'
<1>1. StageAt(k) \in Identities
  BY StageAtType DEF start_stage, IInv
<1>2. RequestFor(StageAt(k)) \in
        [kind : {"NONE", "RUN_COMMAND", "SETTLE", "ACQUIRE", "STOP_PLAN"},
         id : Identities \cup {"NONE"}]
  BY <1>1 DEF RequestFor
<1>3. s_results' \in [Identities -> Results]
  BY <1>1 DEF start_stage, IInv, TypeOK, StageTypeOK, ResultTypeOK,
      FlagTypeOK, Results, Result
<1>4. TypeOK'
  <2>1. StageTypeOK'
    BY <1>1, <1>2 DEF start_stage, StageTypeOK
  <2>2. ResultTypeOK'
    BY <1>3 DEF start_stage, IInv, TypeOK, ResultTypeOK
  <2>3. FlagTypeOK'
    BY DEF start_stage, IInv, TypeOK, FlagTypeOK
  <2> QED
    BY <2>1, <2>2, <2>3 DEF TypeOK
<1>5. (s_inited => plan_legal(s_plan))' /\ (~s_inited => Idle)'
  BY DEF IInv, plan_legal, start_stage
<1>6. ActiveIsNext' /\ RequestNamesActive'
  BY <1>1 DEF ActiveIsNext, RequestNamesActive, start_stage, StageAt
<1>7. VetoEndsPlan' /\ (s_complete => s_active = "NONE")'
  BY DEF VetoEndsPlan, start_stage, IInv
<1>8. SlotDoneSplits'
  <2> SUFFICES ASSUME NEW j \in 1..5, StageAt(j) # "NONE"
               PROVE  /\ j <= k - 1 => s_results'[StageAt(j)].state \in Terminal
                      /\ j > k - 1 =>
                           s_results'[StageAt(j)].state =
                             IF StageAt(j) = StageAt(k) THEN "RUNNING" ELSE "NOT_REQUESTED"
    BY DEF SlotDoneSplits, StageAt, start_stage
  <2>1. StageAt(j) \in Identities
    BY StageAtType DEF IInv
  <2>2. CASE j = k
    BY <1>1, <2>2 DEF start_stage, IInv, TypeOK, StageTypeOK, ResultTypeOK,
      FlagTypeOK, Result
  <2>3. CASE j # k
    <3>1. StageAt(j) # StageAt(k)
      BY <2>3, StagesDistinct DEF IInv
    <3>2. s_results'[StageAt(j)] = s_results[StageAt(j)]
      BY <2>1, <3>1 DEF start_stage, IInv, TypeOK, StageTypeOK, ResultTypeOK, FlagTypeOK
    <3>3. j <= k - 1 => j <= s_slot_done
      BY DEF start_stage, IInv, TypeOK, StageTypeOK, ResultTypeOK, FlagTypeOK
    <3>4. j > k - 1 => j > s_slot_done
      BY DEF start_stage, IInv, TypeOK, StageTypeOK, ResultTypeOK, FlagTypeOK
    <3> QED
      BY <2>3, <3>1, <3>2, <3>3, <3>4 DEF start_stage, IInv, SlotDoneSplits
  <2> QED
    BY <2>2, <2>3
<1> QED
  BY <1>4, <1>5, <1>6, <1>7, <1>8 DEF IInv

(* What a machine ends with is a terminal result.                          *)
LEMMA MachineResultsType ==
  ASSUME NEW id, NEW result \in MachineResults(id)
  PROVE  result \in Results /\ result.state \in Terminal
<1>1. \A state \in Terminal, warning \in BOOLEAN :
        Result(state, warning) \in Results /\ Result(state, warning).state \in Terminal
  BY DEF Result, Results
<1>2. PICK state \in Terminal, warning \in BOOLEAN : result = Result(state, warning)
  BY DEF MachineResults, Terminal
<1> QED
  BY <1>1, <1>2

-----------------------------------------------------------------------------

(* Every step keeps the invariant.                                         *)
LEMMA StepKeeps == ASSUME IInv, [Next]_vars PROVE IInv'
<1>1. ASSUME NEW plan \in Plans, imu_cmd_init(plan)
      PROVE  IInv'
  BY <1>1, InitKeeps
<1>2. ASSUME post_q \/ Finishing
      PROVE  IInv'
  <2>1. PICK result \in MachineResults(s_active) :
          /\ machine' = [machine EXCEPT !.result = result]
          /\ UNCHANGED <<s_inited, s_plan, s_active, s_armed, s_request,
                         s_do_not_acquire, s_process_stop, s_warning, s_complete,
                         s_unrestorable, s_slot_done, s_results>>
    <3>1. \E r \in MachineResults(s_active) : r.state = "CANCELLED"
      <4>1. \E warning \in BOOLEAN :
              Result("CANCELLED", warning) \in MachineResults(s_active)
        BY DEF MachineResults
      <4>2. \A warning \in BOOLEAN : Result("CANCELLED", warning).state = "CANCELLED"
        BY DEF Result
      <4> QED
        BY <4>1, <4>2
    <3> QED
      BY <1>2, <3>1 DEF post_q, Finishing, MachineFinishes
  <2>2. machine' \in [id : Composed \cup {"NONE"}, result : Results]
    BY <2>1, MachineResultsType DEF IInv, TypeOK, ResultTypeOK
  <2>3. TypeOK'
    BY <2>1, <2>2 DEF IInv, TypeOK, StageTypeOK, ResultTypeOK, FlagTypeOK
  <2> QED
    BY <2>1, <2>3, NothingEndsKeeps
<1>3. ASSUME post_process_stop
      PROVE  IInv'
  <2>1. CASE s_active # "NONE"
    <3>1. Result("ABANDONED", FALSE) \in Results /\ Result("ABANDONED", FALSE).state \in Terminal
      BY DEF Result, Results, Terminal
    <3>2. finish_active(Result("ABANDONED", FALSE), TRUE, FALSE)
      BY <1>3, <2>1 DEF post_process_stop
    <3> QED
      BY <1>3, <2>1, <3>1, <3>2, FinishKeeps
      DEF post_process_stop, IInv, TypeOK, ResultTypeOK, FlagTypeOK
  <2>2. CASE s_active = "NONE"
    <3>1. StopPlan \in [kind : {"NONE", "RUN_COMMAND", "SETTLE", "ACQUIRE", "STOP_PLAN"},
                        id : Identities \cup {"NONE"}]
      BY DEF StopPlan
    <3>2. TypeOK'
      BY <1>3, <2>2, <3>1
      DEF post_process_stop, IInv, TypeOK, StageTypeOK, ResultTypeOK, FlagTypeOK
    <3> QED
      BY <1>3, <2>2, <3>2, NothingEndsKeeps DEF post_process_stop
  <2> QED
    BY <2>1, <2>2
<1>4. ASSUME NEW due \in BOOLEAN, post_tick(due)
      PROVE  IInv'
  <2>1. CASE ~s_armed
    <3>1. Result("RUNNING", FALSE) \in Results
      BY DEF Result, Results
    <3>2. machine' \in [id : Composed \cup {"NONE"}, result : Results]
      <4>1. CASE s_active \in Composed
        <5>1. machine' = [id |-> s_active, result |-> Result("RUNNING", FALSE)]
          BY <1>4, <2>1, <4>1 DEF post_tick
        <5> QED
          BY <3>1, <4>1, <5>1
      <4>2. CASE s_active \notin Composed
        <5>1. machine' = machine
          BY <1>4, <2>1, <4>2 DEF post_tick
        <5> QED
          BY <5>1 DEF IInv, TypeOK, ResultTypeOK
      <4> QED
        BY <4>1, <4>2
    <3>3. TypeOK'
      BY <1>4, <2>1, <3>2 DEF post_tick, IInv, TypeOK, StageTypeOK, ResultTypeOK, FlagTypeOK
    <3> QED
      BY <1>4, <2>1, <3>3, NothingEndsKeeps DEF post_tick
  <2>2. CASE s_armed
    <3>1. Result("SUCCEEDED", FALSE) \in Results /\ Result("SUCCEEDED", FALSE).state \in Terminal
      BY DEF Result, Results, Terminal
    <3>2. finish_active(Result("SUCCEEDED", FALSE), FALSE, FALSE)
      BY <1>4, <2>2 DEF post_tick
    <3> QED
      BY <1>4, <2>2, <3>1, <3>2, FinishKeeps
      DEF post_tick, IInv, TypeOK, ResultTypeOK, FlagTypeOK
  <2> QED
    BY <2>1, <2>2
<1>5. ASSUME NEW state \in Terminal, NEW warning \in BOOLEAN, NEW stopped \in BOOLEAN,
             post_terminal(Result(state, warning), stopped)
      PROVE  IInv'
  <2>1. Result(state, warning) \in Results /\ Result(state, warning).state \in Terminal
    BY DEF Result, Results
  <2>2. finish_active(Result(state, warning), stopped, FALSE) /\ s_active # "NONE"
    BY <1>5 DEF post_terminal
  <2>3. /\ s_inited
        /\ UNCHANGED <<s_inited, s_plan>>
        /\ s_process_stop' \in BOOLEAN /\ s_unrestorable' \in BOOLEAN
        /\ machine' \in [id : Composed \cup {"NONE"}, result : Results]
    BY <1>5 DEF post_terminal, IInv, TypeOK, ResultTypeOK, FlagTypeOK
  <2> QED
    BY <1>5, <2>1, <2>2, <2>3, FinishKeeps
<1>6. ASSUME post_settle_done
      PROVE  IInv'
  <2>1. Result("SUCCEEDED", FALSE) \in Results /\ Result("SUCCEEDED", FALSE).state \in Terminal
    BY DEF Result, Results, Terminal
  <2> QED
    BY <1>6, <2>1, FinishKeeps DEF post_settle_done, IInv, TypeOK, ResultTypeOK, FlagTypeOK
<1>7. ASSUME SessionUnrestorable
      PROVE  IInv'
  <2>1. CASE s_active # "NONE"
    <3>1. /\ Result("RECOVERY_FAILED", TRUE) \in Results
          /\ Result("RECOVERY_FAILED", TRUE).state \in Terminal
      BY DEF Result, Results, Terminal
    <3>2. finish_active(Result("RECOVERY_FAILED", TRUE), FALSE, TRUE)
      BY <1>7, <2>1 DEF SessionUnrestorable
    <3> QED
      BY <1>7, <2>1, <3>1, <3>2, FinishKeeps
      DEF SessionUnrestorable, IInv, TypeOK, ResultTypeOK, FlagTypeOK
  <2>2. CASE s_active = "NONE"
    <3>1. StopPlan \in [kind : {"NONE", "RUN_COMMAND", "SETTLE", "ACQUIRE", "STOP_PLAN"},
                        id : Identities \cup {"NONE"}]
      BY DEF StopPlan
    <3>2. TypeOK'
      BY <1>7, <2>2, <3>1
      DEF SessionUnrestorable, VetoAndStop, IInv, TypeOK, StageTypeOK, ResultTypeOK, FlagTypeOK
    <3> QED
      BY <1>7, <2>2, <3>2, NothingEndsKeeps DEF SessionUnrestorable, VetoAndStop
  <2> QED
    BY <2>1, <2>2
<1>8. ASSUME imu_cmd_service
      PROVE  IInv'
  <2>1. CASE AdoptResult
    <3>1. machine.result \in Results /\ machine.result.state \in Terminal /\ s_active # "NONE"
      BY <2>1 DEF AdoptResult, MachineComplete, Composed, Slot1, Slot2, Slot3,
                  IInv, TypeOK, ResultTypeOK
    <3> QED
      BY <1>8, <2>1, <3>1, FinishKeeps
      DEF imu_cmd_service, AdoptResult, IInv, TypeOK, ResultTypeOK, FlagTypeOK
  <2>2. CASE \E k \in 1..5 : start_stage(k)
    BY <1>8, <2>2, StartKeeps DEF imu_cmd_service
  <2> QED
    BY <1>8, <2>1, <2>2 DEF imu_cmd_service
<1>9. ASSUME UNCHANGED vars
      PROVE  IInv'
  <2>1. TypeOK'
    BY <1>9 DEF vars, IInv, TypeOK, StageTypeOK, ResultTypeOK, FlagTypeOK
  <2> QED
    BY <1>9, <2>1, NothingEndsKeeps DEF vars
<1> QED
  BY <1>1, <1>2, <1>3, <1>4, <1>5, <1>6, <1>7, <1>8, <1>9 DEF Next, Post

(* The invariant holds before the first plan.                              *)
LEMMA InitHolds == Init => IInv
<1> SUFFICES ASSUME Init
             PROVE  IInv
  OBVIOUS
<1>1. TypeOK
  <2>1. StageTypeOK
    BY DEF Init, StageTypeOK, NoRequest
  <2>2. ResultTypeOK
    BY DEF Init, ResultTypeOK, NoPlan, NotRequested, NoMachine, Results, Result, Terminal
  <2>3. FlagTypeOK
    BY DEF Init, FlagTypeOK
  <2> QED
    BY <2>1, <2>2, <2>3 DEF TypeOK
<1>2. SlotDoneSplits
  <2> SUFFICES ASSUME NEW k \in 1..5, StageAt(k) # "NONE"
               PROVE  NotRequested[StageAt(k)].state = "NOT_REQUESTED"
    BY DEF SlotDoneSplits, Init
  <2>1. StageAt(k) \in Identities
    BY <1>1, StageAtType
  <2> QED
    BY <2>1 DEF NotRequested, Result
<1> QED
  BY <1>1, <1>2 DEF IInv, Init, Idle, VetoEndsPlan, RequestNamesActive, ActiveIsNext

(* The inductive invariant of the coordinator: types, veto, request, and   *)
(* the running stage as the next slot after those done.                    *)
THEOREM CmdInvariant == Spec => []IInv
BY InitHolds, StepKeeps, PTL DEF Spec

(* The coordinator's variables keep their types (imu_cmd.c's static state),*)
(* whatever the plan and whatever is posted.                               *)
THEOREM CmdTypes == Spec => []TypeOK
<1>1. IInv => TypeOK
  BY DEF IInv
<1> QED
  BY <1>1, CmdInvariant, PTL

(* Once acquisition is vetoed the plan is over and nothing can be started. *)
THEOREM VetoIsFinal == Spec => []VetoEndsPlan
<1>1. IInv => VetoEndsPlan
  BY DEF IInv
<1> QED
  BY <1>1, CmdInvariant, PTL

(* The owner's request is always for the running stage.                    *)
THEOREM RequestIsActive == Spec => []RequestNamesActive
<1>1. IInv => RequestNamesActive
  BY DEF IInv
<1> QED
  BY <1>1, CmdInvariant, PTL

-----------------------------------------------------------------------------
(* The coordinator implements PlanRun                                      *)

(* A slot of the abstract plan runs, waits or has ended as its position    *)
(* relative to s_slot_done says.                                           *)
LEMMA StageStates ==
  ASSUME IInv, NEW k \in 1..5
  PROVE  /\ StageState(k) \in Terminal \cup {"waiting", "running"}
         /\ StageState(k) = "running" <=> s_active # "NONE" /\ StageAt(k) = s_active
         /\ StageState(k) \in Terminal <=> StageAt(k) # "NONE" /\ k <= s_slot_done
<1>1. CASE StageAt(k) = "NONE"
  BY <1>1 DEF StageState, Terminal
<1>2. CASE StageAt(k) # "NONE"
  <2>1. ActiveIsNext /\ SlotDoneSplits /\ s_slot_done \in 0..5
    BY DEF IInv, TypeOK, StageTypeOK
  <2>2. StageAt(k) = s_active => k = s_slot_done + 1
    <3>1. SUFFICES ASSUME StageAt(k) = s_active
                   PROVE  k = s_slot_done + 1
      OBVIOUS
    <3>2. plan_legal(s_plan)
      BY <1>2, <3>1 DEF IInv, Idle
    <3> QED
      BY <1>2, <2>1, <3>1, <3>2, StagesDistinct DEF ActiveIsNext
  <2> QED
    BY <1>2, <2>1, <2>2 DEF SlotDoneSplits, StageState, Terminal
<1> QED
  BY <1>1, <1>2

(* Ending the running stage is Finish of its slot in the abstract plan.    *)
LEMMA FinishRefines ==
  ASSUME IInv, IInv', s_inited, s_active # "NONE",
         NEW result \in Results, result.state \in Terminal,
         NEW stopped \in BOOLEAN, NEW lost \in BOOLEAN,
         finish_active(result, stopped, lost),
         UNCHANGED <<s_inited, s_plan>>,
         stopped => result.state = "ABANDONED",
         lost => result.state = "RECOVERY_FAILED"
  PROVE  Plan!PlanNext
<1>0. PICK k \in 1..5 : k = s_slot_done + 1 /\ StageAt(k) = s_active
  BY DEF IInv, ActiveIsNext
<1>1. k \in 1..5 /\ StageAt(k) = s_active /\ plan_legal(s_plan)
  BY <1>0 DEF IInv
<1>2. s_active \in Identities /\ ~s_complete
  BY DEF IInv, TypeOK, StageTypeOK
<1>3. s_results' = [s_results EXCEPT ![s_active] = result]
  BY DEF finish_active
<1>4. StageState(k) = "running"
  BY <1>1, StageStates
<1>5. \A j \in 1..5 : StageAt(j)' = StageAt(j)
  BY DEF StageAt
<1>6. StageState(k)' = result.state
  <2>1. StageAt(k)' = s_active /\ s_active # "NONE"
    BY <1>1, <1>2, <1>5 DEF Identities, Composed, Slot1, Slot2, Slot3
  <2>2. s_results'[s_active] = result
    BY <1>2, <1>3 DEF IInv, TypeOK, ResultTypeOK
  <2>3. result.state \notin {"NOT_REQUESTED", "RUNNING"}
    BY DEF Terminal
  <2> QED
    BY <2>1, <2>2, <2>3 DEF StageState
<1>7. ASSUME NEW j \in 1..5, j # k
      PROVE  StageState(j)' = StageState(j)
  <2>1. StageAt(j) = "NONE" \/ StageAt(j) \in Identities
    BY StageAtType DEF IInv
  <2>2. CASE StageAt(j) = "NONE"
    BY <1>5, <2>2 DEF StageState
  <2>3. CASE StageAt(j) \in Identities /\ StageAt(j) # "NONE"
    <3>1. StageAt(j) # s_active
      BY <1>1, <1>7, <2>3, StagesDistinct
    <3>2. s_results'[StageAt(j)] = s_results[StageAt(j)]
      BY <1>3, <2>3, <3>1 DEF IInv, TypeOK, ResultTypeOK
    <3>3. StageAt(j)' = StageAt(j)
      BY <1>5
    <3>4. s_results'[StageAt(j)'] = s_results[StageAt(j)]
      BY <3>2, <3>3
    <3> QED
      BY <3>3, <3>4 DEF StageState
  <2> QED
    BY <2>1, <2>2, <2>3
<1>8. [j \in 1..5 |-> StageState(j)]' =
        [[j \in 1..5 |-> StageState(j)] EXCEPT ![k] = result.state]
  BY <1>1, <1>6, <1>7
<1>9. s_active = "ACQUISITION" <=> k = 5
  BY <1>1 DEF StageAt, plan_legal, Slot1, Slot2, Slot3
<1>10. s_complete' = (result.state = "RECOVERY_FAILED" \/ lost \/ stopped \/ k = 5)
  BY <1>9 DEF finish_active, EndsPlan
<1>11. Plan!Finish(k, result.state)
  <2>1. (IF s_inited THEN {j \in 1..5 : StageAt(j) # "NONE"} ELSE {})' =
          IF s_inited THEN {j \in 1..5 : StageAt(j) # "NONE"} ELSE {}
    BY <1>5
  <2>2. s_complete' \in BOOLEAN
    BY DEF IInv, TypeOK, FlagTypeOK
  <2>3. [j \in 1..5 |-> StageState(j)][k] = "running"
    BY <1>1, <1>4
  <2> QED
    BY <1>2, <1>8, <1>10, <2>1, <2>2, <2>3 DEF Plan!Finish
<1> QED
  BY <1>1, <1>11 DEF Plan!PlanNext, Plan!Slots

(* Starting a stage is Start of its slot: everything before it has         *)
(* finished.                                                               *)
LEMMA StartRefines ==
  ASSUME IInv, IInv', s_inited, ~s_complete, NEW k \in 1..5, start_stage(k)
  PROVE  Plan!PlanNext
<1>1. StageAt(k) \in Identities /\ s_slot_done \in 0..5 /\ plan_legal(s_plan)
  BY StageAtType DEF start_stage, IInv, TypeOK, StageTypeOK
<1>2. \A j \in 1..5 : StageAt(j)' = StageAt(j)
  BY DEF StageAt, start_stage
<1>3. StageState(k) = "waiting" /\ StageState(k)' = "running"
  BY <1>1, <1>2 DEF start_stage, StageState, Result, IInv, SlotDoneSplits, TypeOK, ResultTypeOK
<1>4. ASSUME NEW j \in 1..5, j # k
      PROVE  StageState(j)' = StageState(j)
  <2>1. StageAt(j) = "NONE" \/ StageAt(j) \in Identities
    BY StageAtType DEF IInv
  <2>2. CASE StageAt(j) = "NONE"
    BY <1>2, <2>2 DEF StageState
  <2>3. CASE StageAt(j) \in Identities /\ StageAt(j) # "NONE"
    <3>1. StageAt(j) # StageAt(k)
      BY <1>1, <1>4, <2>3, StagesDistinct
    <3>2. s_results'[StageAt(j)] = s_results[StageAt(j)]
      BY <2>3, <3>1 DEF start_stage, IInv, TypeOK, ResultTypeOK
    <3> QED
      BY <1>2, <3>2 DEF StageState
  <2> QED
    BY <2>1, <2>2, <2>3
<1>5. [j \in 1..5 |-> StageState(j)]' =
        [[j \in 1..5 |-> StageState(j)] EXCEPT ![k] = "running"]
  BY <1>3, <1>4
<1>6. \A j \in 1..5 : j < k /\ StageAt(j) # "NONE" => StageState(j) \in Terminal
  BY <1>1, StageStates DEF start_stage
<1>7. \A j \in 1..5 : j > k => StageState(j) = "waiting"
  <2> SUFFICES ASSUME NEW j \in 1..5, j > k
               PROVE  StageState(j) = "waiting"
    OBVIOUS
  <2>1. s_active = "NONE" /\ ~(j <= s_slot_done)
    BY <1>1 DEF start_stage
  <2> QED
    BY <2>1, StageStates
<1>8. Plan!Start(k)
  <2>1. (IF s_inited THEN {j \in 1..5 : StageAt(j) # "NONE"} ELSE {})' =
          IF s_inited THEN {j \in 1..5 : StageAt(j) # "NONE"} ELSE {}
    BY <1>2 DEF start_stage
  <2>2. k \in IF s_inited THEN {j \in 1..5 : StageAt(j) # "NONE"} ELSE {}
    BY DEF start_stage
  <2>3. s_complete' = s_complete
    BY DEF start_stage
  <2>4. \A j \in 1..5 : j < k /\ StageAt(j) # "NONE" =>
          [i \in 1..5 |-> StageState(i)][j] \notin {"waiting", "running"}
    BY <1>6 DEF Terminal
  <2> QED
    BY <1>3, <1>5, <1>7, <2>1, <2>2, <2>3, <2>4 DEF Plan!Start, Plan!Finished, Plan!Slots
<1> QED
  BY <1>8 DEF Plan!PlanNext, Plan!Slots

(* A call of imu_cmd_init, accepting or refusing, is a new abstract plan.  *)
LEMMA InitCallRefines ==
  ASSUME IInv, IInv', NEW plan \in Plans, imu_cmd_init(plan)
  PROVE  Plan!PlanNext
<1>1. ASSUME NEW k \in 1..5
      PROVE  StageState(k)' = "waiting"
  <2>1. StageAt(k)' \in Identities \cup {"NONE"}
    BY StageAtType DEF IInv, TypeOK, ResultTypeOK, StageAt, Identities
  <2> QED
    BY <2>1 DEF imu_cmd_init, StageState, NotRequested, Result
<1>2. [k \in 1..5 |-> StageState(k)]' = [k \in 1..5 |-> "waiting"]
  BY <1>1
<1>3. CASE ~s_inited
  BY <1>2, <1>3 DEF imu_cmd_init, Plan!PlanNext, Plan!NewPlan, Plan!Fresh, Plan!Slots
<1>4. CASE s_inited /\ s_complete
  BY <1>2, <1>4 DEF imu_cmd_init, Plan!PlanNext, Plan!NewPlan, Plan!Fresh, Plan!Slots
<1>5. CASE s_inited /\ s_active = "ACQUISITION"
  <2>1. StageAt(5) = "ACQUISITION"
    BY DEF StageAt
  <2>2. StageState(5) = "running"
    BY <1>5, <2>1, StageStates
  <2> QED
    BY <1>2, <2>2 DEF imu_cmd_init, Plan!PlanNext, Plan!NewPlan, Plan!Fresh, Plan!Slots
<1> QED
  BY <1>3, <1>4, <1>5 DEF imu_cmd_init

(* Steps that touch neither the plan's results nor its end stutter.        *)
LEMMA QuietRefines ==
  ASSUME UNCHANGED <<s_inited, s_plan, s_results, s_complete>>
  PROVE  UNCHANGED Plan!planVars
<1>1. \A k \in 1..5 : StageAt(k)' = StageAt(k)
  BY DEF StageAt
<1>2. \A k \in 1..5 : StageState(k)' = StageState(k)
  BY <1>1 DEF StageState
<1> QED
  BY <1>1, <1>2 DEF Plan!planVars

(* A stop or a lost session between two stages is End.                     *)
LEMMA EndRefines ==
  ASSUME IInv, s_inited, s_active = "NONE", s_complete',
         UNCHANGED <<s_inited, s_plan, s_results>>
  PROVE  Plan!PlanNext
<1>1. \A k \in 1..5 : StageAt(k)' = StageAt(k)
  BY DEF StageAt
<1>2. \A k \in 1..5 : StageState(k)' = StageState(k)
  BY <1>1 DEF StageState
<1>3. \A k \in 1..5 : StageState(k) # "running"
  BY StageStates
<1>4. StageAt(4) # "NONE"
  BY DEF StageAt
<1> QED
  BY <1>1, <1>2, <1>3, <1>4 DEF Plan!PlanNext, Plan!End, Plan!Slots

(* Every step of the coordinator is a step of the abstract plan or a       *)
(* stutter.                                                                *)
LEMMA StepRefines ==
  ASSUME IInv, IInv', [Next]_vars
  PROVE  [Plan!PlanNext]_(Plan!planVars)
<1>1. ASSUME NEW plan \in Plans, imu_cmd_init(plan)
      PROVE  Plan!PlanNext
  BY <1>1, InitCallRefines
<1>2. ASSUME post_q \/ Finishing \/ UNCHANGED vars
      PROVE  UNCHANGED Plan!planVars
  BY <1>2, QuietRefines DEF post_q, Finishing, MachineFinishes, vars
<1>3. ASSUME post_process_stop
      PROVE  Plan!PlanNext
  <2>1. CASE s_active # "NONE"
    <3>1. Result("ABANDONED", FALSE) \in Results /\ Result("ABANDONED", FALSE).state \in Terminal
      BY DEF Result, Results, Terminal
    <3>2. finish_active(Result("ABANDONED", FALSE), TRUE, FALSE)
      BY <1>3, <2>1 DEF post_process_stop
    <3>3. Result("ABANDONED", FALSE).state = "ABANDONED"
      BY DEF Result
    <3> QED
      BY <1>3, <2>1, <3>1, <3>2, <3>3, FinishRefines DEF post_process_stop
  <2>2. CASE s_active = "NONE"
    BY <1>3, <2>2, EndRefines DEF post_process_stop
  <2> QED
    BY <2>1, <2>2
<1>4. ASSUME NEW due \in BOOLEAN, post_tick(due)
      PROVE  [Plan!PlanNext]_(Plan!planVars)
  <2>1. CASE ~s_armed
    BY <1>4, <2>1, QuietRefines DEF post_tick
  <2>2. CASE s_armed
    <3>1. Result("SUCCEEDED", FALSE) \in Results /\ Result("SUCCEEDED", FALSE).state \in Terminal
      BY DEF Result, Results, Terminal
    <3>2. finish_active(Result("SUCCEEDED", FALSE), FALSE, FALSE)
      BY <1>4, <2>2 DEF post_tick
    <3> QED
      BY <1>4, <2>2, <3>1, <3>2, FinishRefines DEF post_tick
  <2> QED
    BY <2>1, <2>2
<1>5. ASSUME NEW state \in Terminal, NEW warning \in BOOLEAN, NEW stopped \in BOOLEAN,
             post_terminal(Result(state, warning), stopped)
      PROVE  Plan!PlanNext
  <2>1. Result(state, warning) \in Results /\ Result(state, warning).state \in Terminal
    BY DEF Result, Results
  <2> QED
    BY <1>5, <2>1, FinishRefines DEF post_terminal
<1>6. ASSUME post_settle_done
      PROVE  Plan!PlanNext
  <2>1. Result("SUCCEEDED", FALSE) \in Results /\ Result("SUCCEEDED", FALSE).state \in Terminal
    BY DEF Result, Results, Terminal
  <2> QED
    BY <1>6, <2>1, FinishRefines DEF post_settle_done
<1>7. ASSUME SessionUnrestorable
      PROVE  Plan!PlanNext
  <2>1. CASE s_active # "NONE"
    <3>1. /\ Result("RECOVERY_FAILED", TRUE) \in Results
          /\ Result("RECOVERY_FAILED", TRUE).state \in Terminal
          /\ Result("RECOVERY_FAILED", TRUE).state = "RECOVERY_FAILED"
      BY DEF Result, Results, Terminal
    <3>2. finish_active(Result("RECOVERY_FAILED", TRUE), FALSE, TRUE)
      BY <1>7, <2>1 DEF SessionUnrestorable
    <3> QED
      BY <1>7, <2>1, <3>1, <3>2, FinishRefines DEF SessionUnrestorable
  <2>2. CASE s_active = "NONE"
    BY <1>7, <2>2, EndRefines DEF SessionUnrestorable, VetoAndStop
  <2> QED
    BY <2>1, <2>2
<1>8. ASSUME imu_cmd_service
      PROVE  Plan!PlanNext
  <2>1. CASE AdoptResult
    <3>1. machine.result \in Results /\ machine.result.state \in Terminal /\ s_active # "NONE"
      BY <2>1 DEF AdoptResult, MachineComplete, Composed, Slot1, Slot2, Slot3,
                  IInv, TypeOK, ResultTypeOK
    <3> QED
      BY <1>8, <2>1, <3>1, FinishRefines DEF imu_cmd_service, AdoptResult
  <2>2. CASE \E k \in 1..5 : start_stage(k)
    BY <1>8, <2>2, StartRefines DEF imu_cmd_service
  <2> QED
    BY <1>8, <2>1, <2>2 DEF imu_cmd_service
<1> QED
  BY <1>1, <1>2, <1>3, <1>4, <1>5, <1>6, <1>7, <1>8 DEF Next, Post

(* The initial states are those of the abstract plan.                      *)
LEMMA InitRefines == Init => Plan!PlanInit
<1> SUFFICES ASSUME Init
             PROVE  Plan!PlanInit
  OBVIOUS
<1>1. IInv
  BY InitHolds
<1>2. ASSUME NEW k \in 1..5
      PROVE  StageState(k) = "waiting"
  <2>1. s_active = "NONE" /\ s_slot_done = 0
    BY DEF Init
  <2> QED
    BY <1>1, <2>1, StageStates
<1> QED
  BY <1>2 DEF Init, Plan!PlanInit, Plan!Slots

(* The coordinator implements the abstract plan: its stages run in slot    *)
(* order, once each, and none starts after one that ended the plan.        *)
THEOREM CmdRunsPlan == Spec => RunsPlan
BY CmdInvariant, InitRefines, StepRefines, PTL DEF Spec, RunsPlan, Plan!PlanSpec

-----------------------------------------------------------------------------
(* Results and warnings                                                    *)

(* A stage ends with a result of its own machine, of a stop, of a lost     *)
(* session, or of the host if no machine serves it.                        *)
EndsActive(result) ==
  /\ s_inited
  /\ s_active \in Identities
  /\ result \in Results
  /\ result.state \in Terminal
  /\ s_results' = [s_results EXCEPT ![s_active] = result]
  /\ s_warning' = (s_warning \/ result.warning)
  /\ UNCHANGED s_inited
  /\ \/ machine.id = s_active /\ result = machine.result
     \/ s_process_stop' /\ result.state = "ABANDONED"
     \/ s_unrestorable' /\ result.state = "RECOVERY_FAILED"
     \/ s_active \notin Composed

(* A stage that has not been asked for starts without a warning.           *)
StartsAt(id) ==
  /\ id \in Identities
  /\ s_results[id].state = "NOT_REQUESTED"
  /\ s_results' = [s_results EXCEPT ![id] = Result("RUNNING", FALSE)]
  /\ UNCHANGED <<s_inited, s_warning>>

ResultStep ==
  \/ UNCHANGED <<s_inited, s_results, s_warning>>
  \/ s_results' = NotRequested /\ ~s_warning'
  \/ \E result \in Results : EndsActive(result)
  \/ \E id \in Identities : StartsAt(id)

(* Results and the warning flag change in no other way.                    *)
LEMMA StepIsResultStep == ASSUME IInv, [Next]_vars PROVE ResultStep
<1> USE DEF ResultStep
<1>1. ASSUME NEW plan \in Plans, imu_cmd_init(plan)
      PROVE  ResultStep
  BY <1>1 DEF imu_cmd_init
<1>2. ASSUME NEW result \in Results, result.state \in Terminal,
             NEW stopped, NEW lost, finish_active(result, stopped, lost),
             s_inited, s_active # "NONE", s_inited' = s_inited,
             \/ machine.id = s_active /\ result = machine.result
             \/ s_process_stop' /\ result.state = "ABANDONED"
             \/ s_unrestorable' /\ result.state = "RECOVERY_FAILED"
             \/ s_active \notin Composed
      PROVE  ResultStep
  <2>1. s_active \in Identities
    BY <1>2 DEF IInv, TypeOK, StageTypeOK
  <2> QED
    BY <1>2, <2>1 DEF finish_active, WarningWith, EndsActive
<1>3. ASSUME NEW state \in Terminal, NEW warning \in BOOLEAN
      PROVE  /\ Result(state, warning) \in Results
             /\ Result(state, warning).state = state
  BY DEF Result, Results
<1>4. "SETTLE" \notin Composed /\ "ACQUISITION" \notin Composed /\ "NONE" \notin Composed
  BY DEF Composed, Slot1, Slot2, Slot3
<1>5. {"SUCCEEDED", "ABANDONED", "RECOVERY_FAILED"} \subseteq Terminal
  BY DEF Terminal
<1>6. CASE post_q \/ Finishing \/ UNCHANGED vars
  BY <1>6 DEF post_q, Finishing, MachineFinishes, vars
<1>7. CASE post_process_stop
  <2>1. CASE s_active # "NONE"
    BY <1>2, <1>3, <1>5, <1>7, <2>1 DEF post_process_stop
  <2>2. CASE s_active = "NONE"
    BY <1>7, <2>2 DEF post_process_stop
  <2> QED
    BY <2>1, <2>2
<1>8. ASSUME NEW due \in BOOLEAN, post_tick(due)
      PROVE  ResultStep
  BY <1>2, <1>3, <1>4, <1>5, <1>8 DEF post_tick
<1>9. ASSUME NEW state \in Terminal, NEW warning \in BOOLEAN, NEW stopped \in BOOLEAN,
             post_terminal(Result(state, warning), stopped)
      PROVE  ResultStep
  BY <1>2, <1>3, <1>4, <1>9 DEF post_terminal
<1>10. CASE post_settle_done
  BY <1>2, <1>3, <1>4, <1>5, <1>10 DEF post_settle_done
<1>11. CASE SessionUnrestorable
  <2>1. CASE s_active # "NONE"
    BY <1>2, <1>3, <1>5, <1>11, <2>1 DEF SessionUnrestorable
  <2>2. CASE s_active = "NONE"
    BY <1>11, <2>2 DEF SessionUnrestorable, VetoAndStop
  <2> QED
    BY <2>1, <2>2
<1>12. CASE imu_cmd_service
  <2>1. CASE AdoptResult
    <3>1. machine.result \in Results
      BY DEF IInv, TypeOK, ResultTypeOK
    <3> QED
      BY <1>2, <1>4, <1>12, <2>1, <3>1 DEF imu_cmd_service, AdoptResult, MachineComplete
  <2>2. ASSUME NEW k \in 1..5, start_stage(k)
        PROVE  ResultStep
    <3>1. StageAt(k) \in Identities
      BY <2>2, StageAtType DEF start_stage, IInv
    <3>2. s_results[StageAt(k)].state = "NOT_REQUESTED"
      BY <2>2, <3>1 DEF start_stage, IInv, SlotDoneSplits, Identities, Composed,
                        Slot1, Slot2, Slot3
    <3> QED
      BY <2>2, <3>1, <3>2 DEF start_stage, StartsAt
  <2> QED
    BY <1>12, <2>1, <2>2 DEF imu_cmd_service
<1> QED
  BY <1>1, <1>6, <1>7, <1>8, <1>9, <1>10, <1>11, <1>12 DEF Next, Post

(* A stage that has not ended carries no warning.                          *)
OnlyEndedWarn ==
  \A id \in Identities :
    s_results[id].state \in {"NOT_REQUESTED", "RUNNING"} => ~s_results[id].warning

WarningInv == OnlyEndedWarn /\ WarningIsOfAResult

(* Each way the results change keeps the warning flag their disjunction.   *)
LEMMA StepKeepsWarning ==
  ASSUME IInv, WarningInv, [Next]_vars
  PROVE  WarningInv'
<1>1. /\ s_results \in [Identities -> Results]
      /\ s_warning \in BOOLEAN /\ s_inited \in BOOLEAN
  BY DEF IInv, TypeOK, ResultTypeOK, FlagTypeOK
<1>2. \A id \in Identities : s_results[id].warning \in BOOLEAN
  BY <1>1 DEF Results
<1>3. CASE UNCHANGED <<s_inited, s_results, s_warning>>
  BY <1>3 DEF WarningInv, OnlyEndedWarn, WarningIsOfAResult
<1>4. CASE s_results' = NotRequested /\ ~s_warning'
  <2>1. \A id \in Identities : ~NotRequested[id].warning
    BY DEF NotRequested, Result
  <2> QED
    BY <1>4, <2>1 DEF WarningInv, OnlyEndedWarn, WarningIsOfAResult
<1>5. ASSUME NEW result \in Results, EndsActive(result)
      PROVE  WarningInv'
  <2>1. s_results[s_active].state \in {"NOT_REQUESTED", "RUNNING"}
    BY <1>5 DEF EndsActive, IInv, ActiveIsNext, SlotDoneSplits, TypeOK, StageTypeOK,
                Identities, Composed, Slot1, Slot2, Slot3
  <2>2. ~s_results[s_active].warning
    BY <1>5, <2>1 DEF EndsActive, WarningInv, OnlyEndedWarn
  <2>3. /\ s_results'[s_active] = result
        /\ \A id \in Identities \ {s_active} : s_results'[id] = s_results[id]
    BY <1>1, <1>5 DEF EndsActive
  <2>4. OnlyEndedWarn'
    BY <1>5, <2>3 DEF EndsActive, WarningInv, OnlyEndedWarn, Terminal
  <2>5. (\E id \in Identities : s_results'[id].warning) <=>
          (\E id \in Identities : s_results[id].warning) \/ result.warning
    BY <1>5, <2>2, <2>3 DEF EndsActive
  <2>6. s_warning' <=> s_warning \/ result.warning
    BY <1>5 DEF EndsActive
  <2>7. s_inited /\ (s_warning <=> \E id \in Identities : s_results[id].warning)
    BY <1>5 DEF EndsActive, WarningInv, WarningIsOfAResult
  <2> QED
    BY <2>4, <2>5, <2>6, <2>7 DEF WarningInv, WarningIsOfAResult
<1>6. ASSUME NEW id \in Identities, StartsAt(id)
      PROVE  WarningInv'
  <2>1. ~s_results[id].warning
    BY <1>6 DEF StartsAt, WarningInv, OnlyEndedWarn
  <2>2. /\ s_results'[id] = Result("RUNNING", FALSE)
        /\ \A other \in Identities \ {id} : s_results'[other] = s_results[other]
    BY <1>1, <1>6 DEF StartsAt
  <2>3. ~s_results'[id].warning
    BY <2>2 DEF Result
  <2>4. \A other \in Identities : s_results'[other].warning <=> s_results[other].warning
    BY <2>1, <2>2, <2>3
  <2>5. OnlyEndedWarn'
    BY <2>2, <2>3 DEF WarningInv, OnlyEndedWarn
  <2> QED
    BY <1>6, <2>4, <2>5 DEF StartsAt, WarningInv, WarningIsOfAResult
<1> QED
  BY <1>3, <1>4, <1>5, <1>6, StepIsResultStep DEF ResultStep

(* The plan's warning flag is the disjunction of its results' warnings.    *)
THEOREM WarningIsFaithful == Spec => []WarningIsOfAResult
<1>1. Init => WarningInv
  <2>1. \A id \in Identities : ~NotRequested[id].warning
    BY DEF NotRequested, Result
  <2> QED
    BY <2>1 DEF Init, WarningInv, OnlyEndedWarn, WarningIsOfAResult
<1>2. IInv /\ WarningInv /\ [Next]_vars => WarningInv'
  BY StepKeepsWarning
<1>3. WarningInv => WarningIsOfAResult
  BY DEF WarningInv
<1> QED
  BY <1>1, <1>2, <1>3, CmdInvariant, PTL DEF Spec

(* A stage run by a machine ends with that machine's own result, unless a  *)
(* stop or a lost session ended it.                                        *)
THEOREM ResultsAreAdopted == Spec => AdoptionFaithful
<1>1. ASSUME IInv, [Next]_vars, NEW id \in Composed,
             s_results[id].state = "RUNNING", s_results'[id].state \in Terminal
      PROVE  \/ machine.id = id /\ s_results'[id] = machine.result
             \/ s_process_stop' /\ s_results'[id].state = "ABANDONED"
             \/ s_unrestorable' /\ s_results'[id].state = "RECOVERY_FAILED"
  <2>0. id \in Identities
    BY DEF Identities
  <2>1. s_results \in [Identities -> Results] /\ id \in Identities
    BY <1>1, <2>0 DEF IInv, TypeOK, ResultTypeOK
  <2>2. "RUNNING" \notin Terminal /\ "NOT_REQUESTED" \notin Terminal
    BY DEF Terminal
  <2>3. s_results'[id] # s_results[id]
    BY <1>1, <2>2
  <2>4. CASE s_results' = NotRequested
    BY <1>1, <2>1, <2>2, <2>4 DEF NotRequested, Result
  <2>5. ASSUME NEW result \in Results, EndsActive(result)
        PROVE  \/ machine.id = id /\ s_results'[id] = machine.result
               \/ s_process_stop' /\ s_results'[id].state = "ABANDONED"
               \/ s_unrestorable' /\ s_results'[id].state = "RECOVERY_FAILED"
    <3>1. s_active = id /\ s_results'[id] = result
      BY <2>1, <2>3, <2>5 DEF EndsActive
    <3> QED
      BY <2>5, <3>1 DEF EndsActive
  <2>6. ASSUME NEW other \in Identities, StartsAt(other)
        PROVE  FALSE
    <3>1. other = id /\ s_results'[id] = Result("RUNNING", FALSE)
      BY <2>1, <2>3, <2>6 DEF StartsAt
    <3> QED
      BY <1>1, <2>2, <3>1 DEF Result
  <2> QED
    BY <1>1, <2>3, <2>4, <2>5, <2>6, StepIsResultStep DEF ResultStep
<1>2. IInv /\ [Next]_vars =>
        \A id \in Composed :
          s_results[id].state = "RUNNING" /\ s_results'[id].state \in Terminal =>
            \/ machine.id = id /\ s_results'[id] = machine.result
            \/ s_process_stop' /\ s_results'[id].state = "ABANDONED"
            \/ s_unrestorable' /\ s_results'[id].state = "RECOVERY_FAILED"
  BY <1>1
<1> QED
  BY <1>2, CmdInvariant, PTL DEF Spec, AdoptionFaithful
=============================================================================
