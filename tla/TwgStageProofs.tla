--------------------------- MODULE TwgStageProofs ---------------------------
(***************************************************************************)
(* What the stage controller keeps for every settle time, capture length   *)
(* and number of samples: the mode, the coordinator, the session and the   *)
(* capture agree at the end of every turn, and a reference is of one       *)
(* capture.                                                                *)
(***************************************************************************)
EXTENDS TwgStage, TLAPS

-----------------------------------------------------------------------------
(* The inductive invariant, of a program that runs                         *)

(* A plan is running exactly in the modes that have one, and the parts of  *)
(* a turn that serve it are entered with one.                              *)
PlanInv ==
  /\ imuPlanActive <=> mode \in PlanModes
  /\ mode \notin PlanModes => ~s_inited \/ s_active = "ACQUISITION"
  /\ mode \in PlanModes => ~s_complete /\ s_active # "ACQUISITION"
  /\ step \in {"pump", "tick", "service"} => mode \in PlanModes
  /\ mode = "RESTORE" => step = "turn"
  /\ mode # "STOPPED"
  /\ step \in {"turn", "pump", "tick", "service", "requests", "zero", "emit"}

(* The coordinator's position, for the plans this program makes.           *)
SlotInv ==
  /\ \A k \in 1..3 : s_plan.slot[k] \in Composed \cup {"NONE"}
  /\ s_slot_done \in 0..5
  /\ s_active \in Identities \cup {"NONE"}
  /\ s_active # "NONE" =>
       s_slot_done + 1 \in 1..5 /\ Cmd!StageAt(s_slot_done + 1) = s_active

(* The machine of a running stage has ended exactly when its phase says    *)
(* so; a stage without a machine, or before its first TICK, has no phase.  *)
PhaseInv ==
  /\ phase \in Phases
  /\ machine \in [id : Composed \cup {"NONE"}, result : Results]
  /\ s_active \in Composed /\ s_armed =>
       /\ phase # "none"
       /\ machine.id = s_active
       /\ machine.result.state = "RUNNING" <=> phase # "done"
  /\ ~(s_active \in Composed /\ s_armed) => phase = "none"

(* Production is streaming whenever the settle may take it for granted.    *)
Held == restored /\ sess = "CONFIGURING" => reports = "production"
MachineLeftIt ==
  \/ phase \in {"none", "confirm", "config"}
  \/ phase = "done" /\ machine.result.state # "RECOVERY_FAILED"

SessionInv ==
  /\ sess \in SessionStates
  /\ reports \in ReportSets
  /\ sess \in {"SETTLING", "OPERATIONAL"} => reports = "production"
  /\ mode \in PlanModes /\ MachineLeftIt => Held
  /\ mode \in PlanModes /\ s_active = "NONE" /\ s_slot_done >= 4 =>
       sess \in {"OPERATIONAL", "RECOVERING"}
  /\ mode \notin PlanModes \cup {"RESTORE"} => sess \in {"OPERATIONAL", "RECOVERING"}

(* Between a key and the requests it made, capture and mode are apart.     *)
CaptureInv ==
  IF step = "requests"
  THEN CASE pressureRequest = "none" -> zeroActive <=> mode = "PRESSURE_ZERO"
         [] pressureRequest = "zero" -> mode = "PRESSURE_ZERO" /\ ~zeroActive
         [] pressureRequest = "cancel" -> mode = "ACQUISITION" /\ zeroActive
         [] pressureRequest = "clear" -> mode # "PRESSURE_ZERO" /\ ~zeroActive
         [] OTHER -> FALSE
  ELSE /\ zeroActive <=> mode = "PRESSURE_ZERO"
       /\ pressureRequest = "none"
          \/ (pressureRequest = "clear" /\ step \in {"pump", "tick", "service"})

RunningInv == PlanInv /\ SlotInv /\ PhaseInv /\ SessionInv /\ CaptureInv

(* The samples kept are of this capture, and of nothing when there is none. *)
SamplesInv ==
  /\ zeroValidSamples \in Nat
  /\ sampleOrigins = IF zeroValidSamples = 0 THEN {} ELSE {"this"}
  /\ ReferenceOfOneCapture

StageInv == SamplesInv /\ (Running => RunningInv)

-----------------------------------------------------------------------------
(* The samples                                                             *)

(* Every sample kept is of the capture that counts it.                     *)
LEMMA SamplesKept == ASSUME SamplesInv, [Next]_vars PROVE SamplesInv'
<1>1. CASE UNCHANGED pressure
  BY <1>1 DEF pressure, capture, reference, SamplesInv, ReferenceOfOneCapture
<1>2. CASE TakeRequests
  <2>1. \/ pressure_zero_begin /\ UNCHANGED reference
        \/ pressure_zero_clear
        \/ UNCHANGED <<zeroValidSamples, sampleOrigins, reference>>
        \/ UNCHANGED pressure
    BY <1>2 DEF TakeRequests
  <2> QED
    BY <1>1, <2>1 DEF pressure_zero_begin, pressure_zero_clear, reference, SamplesInv,
                      ReferenceOfOneCapture
<1>3. ASSUME NEW accepted \in BOOLEAN, ZeroService(accepted)
      PROVE  SamplesInv'
  <2>1. CASE UNCHANGED <<capture, reference>>
    BY <1>1, <2>1 DEF pressure
  <2>2. CASE ~UNCHANGED <<capture, reference>>
    <3>1. /\ \/ UNCHANGED <<zeroValidSamples, sampleOrigins>>
             \/ /\ zeroValidSamples' = zeroValidSamples + 1
                /\ sampleOrigins' = sampleOrigins \cup {"this"}
          /\ UNCHANGED reference \/ pressure_zero_finish(zeroValidSamples')
      BY <1>3, <2>2 DEF ZeroService, SamplesInv
    <3>2. /\ zeroValidSamples' \in Nat
          /\ sampleOrigins' = IF zeroValidSamples' = 0 THEN {} ELSE {"this"}
      BY <3>1 DEF SamplesInv
    <3>3. CASE UNCHANGED reference
      BY <3>2, <3>3 DEF reference, SamplesInv, ReferenceOfOneCapture
    <3>4. CASE pressure_zero_finish(zeroValidSamples')
      <4>1. zeroValidSamples' >= MinSamples => zeroValidSamples' # 0
        BY <3>2, StageAssumption DEF StageAssumption
      <4> QED
        BY <3>2, <3>4, <4>1 DEF pressure_zero_finish, SamplesInv, ReferenceOfOneCapture
    <3> QED
      BY <3>1, <3>3, <3>4
  <2> QED
    BY <2>1, <2>2
<1>4. CASE ~TakeRequests /\ ~(\E accepted \in BOOLEAN : ZeroService(accepted))
  <2>1. UNCHANGED pressure
    BY <1>4 DEF Next, Turn, Key, StartupSettle, NoKey, PumpAdapter, Tick, BeginSettle,
         WaitSettled, Settled, SettleTurn, Service, Emit, KeyStage, KeyClearConfirmed,
         start_imu_plan, KeysOfModes, KeyZeroCancel, KeyMode, KeyQ, KeyConfirm, StageKey,
         ChipReset, ProcessStop, SignalEndsLoop, InputError, PressureFails, Over, vars
  <2> QED
    BY <1>1, <2>1
<1> QED
  BY <1>2, <1>3, <1>4

-----------------------------------------------------------------------------
(* The coordinator                                                         *)

(* A stage that a machine runs is one of the first three slots.            *)
LEMMA SlotOfStage ==
  ASSUME SlotInv, s_active # "NONE"
  PROVE  /\ Cmd!SlotDoneWith(s_active) \in 0..5
         /\ s_active \in Composed => Cmd!SlotDoneWith(s_active) \in 0..3
<1>1. s_slot_done + 1 \in 1..5 /\ Cmd!StageAt(s_slot_done + 1) = s_active
  BY DEF SlotInv
<1>2. Cmd!slot_of(s_active) \in 1..5 /\ Cmd!StageAt(Cmd!slot_of(s_active)) = s_active
  BY <1>1 DEF Cmd!slot_of
<1>3. \A k \in 1..5 : Cmd!StageAt(k) \in Composed => k \in 1..3
  BY DEF Cmd!StageAt, Composed, Slot1, Slot2, Slot3
<1> QED
  BY <1>1, <1>2, <1>3 DEF Cmd!SlotDoneWith, SlotInv

(* The end of a stage leaves none running and its slot done.               *)
LEMMA FinishKeepsSlots ==
  ASSUME SlotInv, s_active # "NONE", UNCHANGED s_plan,
         NEW result, NEW stopped, NEW lost, Cmd!finish_active(result, stopped, lost)
  PROVE  /\ SlotInv'
         /\ s_active' = "NONE"
         /\ s_active \in Composed => s_slot_done' <= 3
<1>1. s_active' = "NONE" /\ s_slot_done' = Cmd!SlotDoneWith(s_active)
  BY DEF Cmd!finish_active
<1> QED
  BY <1>1, SlotOfStage DEF SlotInv

(* The next stage is started in its slot.                                  *)
LEMMA StartKeepsSlots ==
  ASSUME SlotInv, NEW k \in 1..5, Cmd!start_stage(k)
  PROVE  /\ SlotInv'
         /\ s_active' # "NONE" /\ ~s_armed'
         /\ s_active = "NONE"
         /\ s_active' = "ACQUISITION" => s_slot_done >= 4
         /\ UNCHANGED <<s_complete, s_inited>>
<1>1. /\ s_active = "NONE" /\ s_active' = Cmd!StageAt(k) /\ Cmd!StageAt(k) # "NONE"
      /\ s_slot_done' = k - 1 /\ s_armed' = FALSE
      /\ UNCHANGED <<s_plan, s_complete, s_inited>>
      /\ k > s_slot_done
      /\ \A j \in 1..5 : s_slot_done < j /\ j < k => Cmd!StageAt(j) = "NONE"
  BY DEF Cmd!start_stage
<1>2. Cmd!StageAt(k) \in Identities
  BY <1>1 DEF Cmd!StageAt, SlotInv, Identities
<1>3. SlotInv'
  <2>1. k - 1 \in 0..5 /\ (k - 1) + 1 = k
    OBVIOUS
  <2>2. Cmd!StageAt(k)' = Cmd!StageAt(k)
    BY <1>1 DEF Cmd!StageAt
  <2> QED
    BY <1>1, <1>2, <2>1, <2>2 DEF SlotInv
<1>4. s_active' = "ACQUISITION" => s_slot_done >= 4
  <2> SUFFICES ASSUME Cmd!StageAt(k) = "ACQUISITION", s_slot_done < 4
               PROVE  FALSE
    BY <1>1 DEF SlotInv
  <2>1. k = 5
    BY DEF Cmd!StageAt, SlotInv, Composed, Slot1, Slot2, Slot3
  <2>2. Cmd!StageAt(4) = "SETTLE"
    BY DEF Cmd!StageAt
  <2> QED
    BY <1>1, <2>1, <2>2
<1> QED
  BY <1>1, <1>3, <1>4

(* Steps that leave the coordinator alone leave its position.              *)
LEMMA SlotsStay ==
  ASSUME SlotInv, UNCHANGED <<s_plan, s_slot_done, s_active>>
  PROVE  SlotInv'
BY DEF SlotInv, Cmd!StageAt

(* The first TICK of a stage gives it a machine that runs.                 *)
LEMMA ArmKeeps ==
  ASSUME SlotInv, PhaseInv, TickArms
  PROVE  /\ SlotInv' /\ PhaseInv'
         /\ UNCHANGED <<s_active, s_slot_done, s_complete, s_inited>>
         /\ phase = "none"
         /\ phase' \in {"none", "confirm", "config"}
<1>1. /\ s_active # "NONE" /\ ~s_armed /\ s_armed' = TRUE
      /\ UNCHANGED <<s_active, s_slot_done, s_complete, s_inited, s_plan>>
      /\ machine' = IF s_active \in Composed
                    THEN [id |-> s_active, result |-> Result("RUNNING", FALSE)]
                    ELSE machine
      /\ phase' = FirstPhase
  <2>1. /\ s_active # "NONE" /\ ~s_armed /\ Cmd!post_tick(FALSE)
        /\ phase' = FirstPhase
    BY DEF TickArms
  <2>2. /\ s_armed' = TRUE
        /\ UNCHANGED <<s_active, s_slot_done, s_complete, s_inited, s_plan>>
        /\ machine' = IF s_active \in Composed
                      THEN [id |-> s_active, result |-> Result("RUNNING", FALSE)]
                      ELSE machine
    BY <2>1 DEF Cmd!post_tick, Cmd!Composed, Cmd!Result, Composed, Result, Cmd!Slot1, Cmd!Slot2,
                Cmd!Slot3, Slot1, Slot2, Slot3
  <2> QED
    BY <2>1, <2>2
<1>2. SlotInv'
  BY <1>1, SlotsStay
<1>3. /\ s_active \in Composed => phase' \in {"confirm", "config"}
      /\ s_active \notin Composed => phase' = "none"
  BY <1>1 DEF FirstPhase, Composed, Slot1, Slot2, Slot3
<1>4. PhaseInv'
  <2>1. Result("RUNNING", FALSE) \in Results /\ Result("RUNNING", FALSE).state = "RUNNING"
    BY DEF Result, Results
  <2>2. machine' \in [id : Composed \cup {"NONE"}, result : Results]
    BY <1>1, <2>1 DEF PhaseInv
  <2> QED
    BY <1>1, <1>3, <2>1, <2>2 DEF PhaseInv, Phases
<1> QED
  BY <1>1, <1>2, <1>3, <1>4 DEF PhaseInv

-----------------------------------------------------------------------------
(* The steps of a turn, of a program that runs before and after            *)

(* Nothing but the mode, the capture and the place in the turn changes.    *)
LEMMA StillKeeps ==
  ASSUME SlotInv, PhaseInv, SessionInv, UNCHANGED <<phase, session, coordinator, restored>>,
         \/ mode' = mode
         \/ mode \notin PlanModes \cup {"RESTORE"} /\ mode' \notin PlanModes
  PROVE  SlotInv' /\ PhaseInv' /\ SessionInv'
<1>1. UNCHANGED <<phase, sess, reports, restored, s_plan, s_slot_done, s_active, s_armed,
                  machine>>
  BY DEF session, coordinator
<1>2. SlotInv'
  BY <1>1, SlotsStay
<1>3. PhaseInv'
  BY <1>1 DEF PhaseInv
<1>4. SessionInv'
  BY <1>1 DEF SessionInv, MachineLeftIt, Held
<1> QED
  BY <1>2, <1>3, <1>4

(* Turns without a key and keys that only change the mode.                 *)
LEMMA ModeKeys ==
  ASSUME RunningInv, NoKey \/ KeysOfModes
  PROVE  RunningInv'
<1>1. CASE NoKey
  <2>1. /\ UNCHANGED <<mode, imuPlanActive, pressureRequest, zeroActive, phase, session, coordinator, restored>>
        /\ step = "turn"
        /\ step' = IF imuPlanActive THEN "pump" ELSE "requests"
        /\ mode # "RESTORE"
    BY <1>1 DEF NoKey, TakesKey, AfterKey, pressure, capture
  <2>2. SlotInv' /\ PhaseInv' /\ SessionInv'
    BY <2>1, StillKeeps DEF RunningInv
  <2>3. PlanInv'
    BY <2>1 DEF RunningInv, PlanInv, coordinator
  <2>4. CaptureInv'
    BY <2>1 DEF RunningInv, CaptureInv, PlanInv
  <2> QED
    BY <2>2, <2>3, <2>4 DEF RunningInv
<1>2. ASSUME NEW from, NEW to, NEW request, KeyMode(from, to, request),
             <<from, to, request>> \in {<<"ACQUISITION", "PRESSURE_ZERO", "zero">>,
                                        <<"ACQUISITION", "CLEAR_CONFIRM", "none">>,
                                        <<"CLEAR_CONFIRM", "ACQUISITION", "none">>,
                                        <<"PRESSURE_ZERO", "ACQUISITION", "cancel">>}
      PROVE  RunningInv'
  <2>1. /\ UNCHANGED <<imuPlanActive, zeroActive, phase, session, coordinator, restored>>
        /\ mode = from /\ mode' = to /\ pressureRequest' = request
        /\ step = "turn" /\ step' = "requests"
    BY <1>2 DEF KeyMode, TakesKey, pressure, capture
  <2>2. mode \notin PlanModes \cup {"RESTORE"} /\ mode' \notin PlanModes \cup {"RESTORE", "STOPPED"}
    BY <1>2, <2>1 DEF PlanModes
  <2>3. SlotInv' /\ PhaseInv' /\ SessionInv'
    BY <2>1, <2>2, StillKeeps DEF RunningInv
  <2>4. PlanInv'
    BY <2>1, <2>2 DEF RunningInv, PlanInv, coordinator
  <2>5. CaptureInv'
    BY <1>2, <2>1 DEF RunningInv, CaptureInv
  <2> QED
    BY <2>3, <2>4, <2>5 DEF RunningInv
<1> QED
  BY <1>1, <1>2 DEF KeysOfModes, KeyZeroCancel

(* The requests of a key take effect; a capture ends its mode.             *)
LEMMA CaptureSteps ==
  ASSUME RunningInv, TakeRequests \/ (\E accepted \in BOOLEAN : ZeroService(accepted))
  PROVE  RunningInv'
<1>1. CASE TakeRequests
  <2>1. /\ UNCHANGED <<mode, imuPlanActive, phase, session, coordinator, restored>>
        /\ step = "requests" /\ step' = "zero" /\ pressureRequest' = "none"
    BY <1>1 DEF TakeRequests
  <2>2. SlotInv' /\ PhaseInv' /\ SessionInv'
    BY <2>1, StillKeeps DEF RunningInv
  <2>3. PlanInv'
    BY <2>1 DEF RunningInv, PlanInv, coordinator
  <2>4. zeroActive' <=> mode = "PRESSURE_ZERO"
    <3>1. CASE pressureRequest = "none"
      BY <1>1, <2>1, <3>1 DEF TakeRequests, pressure, capture, RunningInv, CaptureInv
    <3>2. CASE pressureRequest = "zero"
      BY <1>1, <2>1, <3>2 DEF TakeRequests, pressure_zero_begin, RunningInv, CaptureInv
    <3>3. CASE pressureRequest = "cancel"
      BY <1>1, <2>1, <3>3 DEF TakeRequests, RunningInv, CaptureInv
    <3>4. CASE pressureRequest = "clear"
      BY <1>1, <2>1, <3>4 DEF TakeRequests, pressure_zero_clear, RunningInv, CaptureInv
    <3> QED
      BY <2>1, <3>1, <3>2, <3>3, <3>4 DEF RunningInv, CaptureInv
  <2>5. CaptureInv'
    BY <2>1, <2>4 DEF CaptureInv
  <2> QED
    BY <2>2, <2>3, <2>5 DEF RunningInv
<1>2. ASSUME NEW accepted \in BOOLEAN, ZeroService(accepted)
      PROVE  RunningInv'
  <2>1. /\ UNCHANGED <<imuPlanActive, phase, session, coordinator, restored, pressureRequest>>
        /\ step = "zero" /\ step' = "emit"
        /\ \/ UNCHANGED <<zeroActive, mode>>
           \/ /\ zeroActive /\ zeroActive' = FALSE
              /\ mode' = IF mode = "PRESSURE_ZERO" THEN "ACQUISITION" ELSE mode
    BY <1>2 DEF ZeroService, capture
  <2>2. zeroActive <=> mode = "PRESSURE_ZERO"
    BY <2>1 DEF RunningInv, CaptureInv
  <2>3. /\ mode' \in {mode, "ACQUISITION"}
        /\ mode' # mode => mode = "PRESSURE_ZERO"
        /\ zeroActive' <=> mode' = "PRESSURE_ZERO"
    BY <2>1, <2>2
  <2>4. SlotInv' /\ PhaseInv' /\ SessionInv'
    BY <2>1, <2>3, StillKeeps DEF RunningInv, PlanModes
  <2>5. PlanInv'
    BY <2>1, <2>3 DEF RunningInv, PlanInv, coordinator, PlanModes
  <2>6. CaptureInv'
    BY <2>1, <2>3 DEF RunningInv, CaptureInv
  <2> QED
    BY <2>4, <2>5, <2>6 DEF RunningInv
<1> QED
  BY <1>1, <1>2

(* The row, the wait for the settle, and the startup's settle.             *)
LEMMA PlainSteps ==
  ASSUME RunningInv, Emit \/ WaitSettled \/ StartupSettle, Running'
  PROVE  RunningInv'
<1>1. CASE Emit
  <2>1. /\ UNCHANGED <<mode, imuPlanActive, pressureRequest, zeroActive, phase, session, coordinator, restored>>
        /\ step = "emit" /\ step' = "turn"
    BY <1>1 DEF Emit, OwnerFails, Running, pressure, capture
  <2>2. SlotInv' /\ PhaseInv' /\ SessionInv'
    BY <2>1, StillKeeps DEF RunningInv
  <2>3. PlanInv'
    BY <2>1 DEF RunningInv, PlanInv, coordinator
  <2>4. CaptureInv'
    BY <2>1 DEF RunningInv, CaptureInv
  <2> QED
    BY <2>2, <2>3, <2>4 DEF RunningInv
<1>2. CASE WaitSettled
  <2>1. /\ UNCHANGED <<mode, imuPlanActive, pressureRequest, zeroActive, phase, session, coordinator, restored>>
        /\ step = "tick" /\ step' = "service"
    BY <1>2 DEF WaitSettled, SettleTurn, pressure, capture
  <2>2. SlotInv' /\ PhaseInv' /\ SessionInv'
    BY <2>1, StillKeeps DEF RunningInv
  <2>3. PlanInv'
    BY <2>1 DEF RunningInv, PlanInv, coordinator
  <2>4. CaptureInv'
    BY <2>1 DEF RunningInv, CaptureInv
  <2> QED
    BY <2>2, <2>3, <2>4 DEF RunningInv
<1>3. CASE StartupSettle
  <2>1. /\ UNCHANGED <<imuPlanActive, pressureRequest, zeroActive, phase, reports, coordinator, restored>>
        /\ mode = "RESTORE" /\ mode' = "ACQUISITION"
        /\ sess = "SETTLING" /\ sess' = "OPERATIONAL"
        /\ step = "turn" /\ step' = "requests"
    BY <1>3 DEF StartupSettle, mark_operational, OwnerFails, Running, pressure, capture
  <2>2. SlotInv' /\ PhaseInv'
    BY <2>1, SlotsStay DEF RunningInv, PhaseInv, coordinator
  <2>3. SessionInv'
    BY <2>1 DEF RunningInv, SessionInv, SessionStates, PlanModes
  <2>4. PlanInv'
    BY <2>1 DEF RunningInv, PlanInv, coordinator, PlanModes
  <2>5. CaptureInv'
    BY <2>1 DEF RunningInv, CaptureInv
  <2> QED
    BY <2>2, <2>3, <2>4, <2>5 DEF RunningInv
<1> QED
  BY <1>1, <1>2, <1>3

(* A reset seen by the session: nothing is restored any more.              *)
LEMMA ResetStep ==
  ASSUME RunningInv, ChipReset
  PROVE  RunningInv'
<1>1. /\ UNCHANGED <<mode, imuPlanActive, pressureRequest, zeroActive, phase, coordinator, restored, step>>
      /\ sess' = "RECOVERING" /\ reports' = "none"
  BY DEF ChipReset, ResetNoticed, pressure, capture
<1>2. SlotInv' /\ PhaseInv'
  BY <1>1, SlotsStay DEF RunningInv, PhaseInv, coordinator
<1>3. SessionInv'
  BY <1>1 DEF RunningInv, SessionInv, SessionStates, ReportSets, Held
<1>4. PlanInv'
  BY <1>1 DEF RunningInv, PlanInv, coordinator
<1>5. CaptureInv'
  BY <1>1 DEF RunningInv, CaptureInv
<1> QED
  BY <1>2, <1>3, <1>4, <1>5 DEF RunningInv

(* A plan starts from acquisition, with the session being configured.      *)
LEMMA PlanStarts ==
  ASSUME RunningInv, (\E m \in PlanModes : KeyStage(m)) \/ KeyClearConfirmed, Running'
  PROVE  RunningInv'
<1>1. PICK m \in PlanModes :
        /\ start_imu_plan(m)
        /\ step = "turn"
        /\ mode \in {"ACQUISITION", "CLEAR_CONFIRM"}
        /\ pressureRequest' = pressureRequest \/ pressureRequest' = "clear"
  BY DEF KeyStage, KeyClearConfirmed, TakesKey, PlanModes
<1>2. /\ sess' = "CONFIGURING" /\ Cmd!imu_cmd_init(build_plan(m))
      /\ mode' = m /\ imuPlanActive' = TRUE /\ restored' = FALSE
      /\ phase' = "none" /\ step' = "pump"
      /\ UNCHANGED <<reports, zeroActive>>
  BY <1>1 DEF start_imu_plan, OwnerFails, Running, pressure, capture
<1>3. /\ \A k \in 1..3 : build_plan(m).slot[k] \in Composed \cup {"NONE"}
  BY DEF build_plan, PlanOf, PlanModes, Composed, Slot1, Slot2, Slot3
<1>4. /\ s_plan' = build_plan(m) \/ s_plan' = Cmd!NoPlan
      /\ s_active' = "NONE" /\ s_armed' = FALSE /\ s_complete' = FALSE /\ s_slot_done' = 0
  BY <1>2 DEF Cmd!imu_cmd_init
<1>5. SlotInv'
  BY <1>3, <1>4 DEF SlotInv, Cmd!NoPlan
<1>6. PhaseInv'
  <2>1. Cmd!NoMachine \in [id : Composed \cup {"NONE"}, result : Results]
    BY DEF Cmd!NoMachine, Cmd!Result, Results
  <2>2. machine' = Cmd!NoMachine
    BY <1>2 DEF Cmd!imu_cmd_init
  <2> QED
    BY <1>2, <1>4, <2>1, <2>2 DEF PhaseInv, Phases, Composed, Slot1, Slot2, Slot3
<1>7. SessionInv'
  BY <1>2, <1>4 DEF RunningInv, SessionInv, SessionStates, Held
<1>8. PlanInv'
  BY <1>2, <1>4 DEF PlanInv, PlanModes
<1>9. CaptureInv'
  <2>1. ~zeroActive /\ m # "PRESSURE_ZERO" /\ pressureRequest' \in {"none", "clear"}
    BY <1>1 DEF RunningInv, CaptureInv, PlanModes
  <2> QED
    BY <1>2, <2>1 DEF CaptureInv
<1> QED
  BY <1>5, <1>6, <1>7, <1>8, <1>9 DEF RunningInv

(* A machine's result is a result of the coordinator.                      *)
LEMMA ResultTypes ==
  ASSUME NEW id \in Composed
  PROVE  /\ MachineResults(id) \subseteq Results
         /\ Result("RECOVERY_FAILED", TRUE) \in Results
         /\ \A r \in MachineResults(id) : r.state # "RUNNING"
         /\ \A r \in MachineResults(id) :
              r.state = "RECOVERY_FAILED" => r = Result("RECOVERY_FAILED", TRUE)
         /\ \E r \in MachineResults(id) : r.state = "CANCELLED"
<1>1. \A state \in Terminal, warning \in BOOLEAN :
        /\ Result(state, warning) \in Results
        /\ Result(state, warning).state = state
  BY DEF Result, Results
<1>2. \A r \in MachineResults(id) :
        \/ r = Result("RECOVERY_FAILED", TRUE)
        \/ \E state \in Terminal \ {"RECOVERY_FAILED"}, warning \in BOOLEAN :
             r = Result(state, warning)
  BY DEF MachineResults, Terminal
<1>3. "RUNNING" \notin Terminal /\ {"CANCELLED", "RECOVERY_FAILED"} \subseteq Terminal
  BY DEF Terminal
<1>4. Result("CANCELLED", TRUE) \in MachineResults(id)
        \/ Result("CANCELLED", FALSE) \in MachineResults(id)
  BY DEF MachineResults
<1>5. MachineResults(id) \subseteq Results /\ Result("RECOVERY_FAILED", TRUE) \in Results
  BY <1>1, <1>2, <1>3
<1>6. \A r \in MachineResults(id) :
        /\ r.state # "RUNNING"
        /\ r.state = "RECOVERY_FAILED" => r = Result("RECOVERY_FAILED", TRUE)
  <2> SUFFICES ASSUME NEW r \in MachineResults(id)
               PROVE  /\ r.state # "RUNNING"
                      /\ r.state = "RECOVERY_FAILED" => r = Result("RECOVERY_FAILED", TRUE)
    OBVIOUS
  <2>1. CASE r = Result("RECOVERY_FAILED", TRUE)
    <3>1. r.state = "RECOVERY_FAILED"
      BY <2>1 DEF Result
    <3> QED
      BY <2>1, <3>1
  <2>2. CASE r # Result("RECOVERY_FAILED", TRUE)
    <3>1. PICK state \in Terminal \ {"RECOVERY_FAILED"}, warning \in BOOLEAN :
            r = Result(state, warning)
      BY <1>2, <2>2
    <3>2. r.state = state
      BY <3>1 DEF Result
    <3> QED
      BY <1>3, <3>2
  <2> QED
    BY <2>1, <2>2
<1>7. \E r \in MachineResults(id) : r.state = "CANCELLED"
  BY <1>1, <1>3, <1>4
<1> QED
  BY <1>5, <1>6, <1>7

(* The coordinator's machine is given a result.                            *)
LEMMA EndKeeps ==
  ASSUME SlotInv, PhaseInv, NEW r \in Results, r.state # "RUNNING",
         s_active \in Composed, s_armed,
         machine' = [machine EXCEPT !.result = r], phase' = "done",
         UNCHANGED <<s_plan, s_active, s_armed, s_slot_done>>
  PROVE  SlotInv' /\ PhaseInv' /\ machine'.result = r
<1>1. /\ machine' \in [id : Composed \cup {"NONE"}, result : Results]
      /\ machine'.id = machine.id /\ machine'.result = r
  BY DEF PhaseInv
<1> QED
  BY <1>1, SlotsStay DEF PhaseInv, Phases

(* q ends an untouched stage at once, and any other by its restore; a      *)
(* confirmation goes on from a prompt.                                     *)
LEMMA MachineKeys ==
  ASSUME SlotInv, PhaseInv, SessionInv, UNCHANGED <<session, restored, mode>>,
         MachineTakesQ \/ MachineTakesConfirm
  PROVE  /\ SlotInv' /\ PhaseInv' /\ SessionInv'
         /\ UNCHANGED <<s_active, s_complete, s_inited>>
<1>1. CASE MachineTakesQ /\ Untouched
  <2>1. /\ s_active \in Composed /\ s_armed
        /\ machine' = [machine EXCEPT !.result =
             CHOOSE r \in MachineResults(s_active) : r.state = "CANCELLED"]
        /\ phase' = "done"
        /\ UNCHANGED <<s_inited, s_plan, s_active, s_armed, s_complete, s_slot_done>>
    BY <1>1 DEF MachineTakesQ, Cmd!post_q, Cmd!MachineRunning, Cmd!Composed, Cmd!Slot1, Cmd!Slot2,
                Cmd!Slot3, Composed, Slot1, Slot2, Slot3, Cmd!MachineResults, MachineResults,
                Cmd!Result, Result
  <2>2. PICK r \in Results : /\ r.state = "CANCELLED"
                             /\ machine' = [machine EXCEPT !.result = r]
    BY <2>1, ResultTypes
  <2>3. SlotInv' /\ PhaseInv' /\ machine'.result.state = "CANCELLED"
    BY <2>1, <2>2, EndKeeps
  <2>4. MachineLeftIt
    BY <1>1 DEF Untouched, MachineLeftIt
  <2>5. SessionInv'
    BY <2>1, <2>4 DEF SessionInv, session, Held
  <2> QED
    BY <2>1, <2>3, <2>5
<1>2. CASE ~(MachineTakesQ /\ Untouched)
  <2>1. /\ UNCHANGED coordinator
        /\ \/ phase' = phase
           \/ /\ phase # "done" /\ s_active \in Composed /\ ~Unarmed
              /\ phase' = "restore"
           \/ phase = "confirm" /\ phase' = "config"
           \/ phase = "prompt" /\ phase' = "work"
    BY <1>2 DEF MachineTakesQ, MachineTakesConfirm
  <2>2. UNCHANGED <<s_inited, s_plan, s_active, s_armed, s_complete, s_slot_done, machine, sess,
                    reports>>
    BY <2>1 DEF coordinator, session
  <2>3. SlotInv'
    BY <2>2, SlotsStay
  <2>4. PhaseInv'
    BY <2>1, <2>2 DEF PhaseInv, Phases, Unarmed
  <2>5. MachineLeftIt' => MachineLeftIt
    BY <2>1, <2>2 DEF MachineLeftIt
  <2>6. SessionInv'
    BY <2>2, <2>5 DEF SessionInv, Held
  <2> QED
    BY <2>2, <2>3, <2>4, <2>6
<1> QED
  BY <1>1, <1>2

(* The operator's keys to a running stage.                                 *)
LEMMA StageKeys ==
  ASSUME RunningInv, KeyQ \/ KeyConfirm, Running'
  PROVE  RunningInv'
<1>1. /\ MachineTakesQ \/ MachineTakesConfirm
      /\ step = "turn" /\ step' = "pump" /\ imuPlanActive
      /\ UNCHANGED <<mode, imuPlanActive, pressureRequest, zeroActive, session, restored>>
  BY DEF KeyQ, KeyConfirm, StageKey, TakesKey, OwnerFails, Running, pressure, capture
<1>2. /\ SlotInv' /\ PhaseInv' /\ SessionInv'
      /\ UNCHANGED <<s_active, s_complete, s_inited>>
  BY <1>1, MachineKeys DEF RunningInv
<1>3. PlanInv'
  BY <1>1, <1>2 DEF RunningInv, PlanInv, PlanModes
<1>4. CaptureInv'
  BY <1>1 DEF RunningInv, CaptureInv
<1> QED
  BY <1>2, <1>3, <1>4 DEF RunningInv

-----------------------------------------------------------------------------
(* The adapter's pump                                                      *)

(* What a pump leaves for the settle: a machine that ends without having   *)
(* lost the session has the production reports back.                       *)
LEMMA PumpKeeps ==
  ASSUME SlotInv, PhaseInv, SessionInv, mode \in PlanModes, UNCHANGED mode,
         \/ PumpOther /\ UNCHANGED restored
         \/ RestoreSucceeds /\ restored' = TRUE
  PROVE  /\ SlotInv' /\ PhaseInv' /\ SessionInv'
         /\ UNCHANGED <<s_active, s_complete, s_inited>>
<1>1. ASSUME UNCHANGED coordinator,
             phase \in Phases \ {"none", "confirm", "prompt", "done"},
             phase' \in Phases \ {"none", "confirm", "config", "done"},
             sess' \in {sess, "COMMAND", "FAULTED", "CONFIGURING"},
             sess' \in {"SETTLING", "OPERATIONAL"} => reports' = reports,
             reports' \in ReportSets
      PROVE  /\ SlotInv' /\ PhaseInv' /\ SessionInv'
             /\ UNCHANGED <<s_active, s_complete, s_inited>>
  <2>1. UNCHANGED <<s_inited, s_plan, s_active, s_armed, s_complete, s_slot_done, machine>>
    BY <1>1 DEF coordinator
  <2>2. SlotInv'
    BY <2>1, SlotsStay
  <2>3. PhaseInv' /\ s_active \in Composed
    BY <1>1, <2>1 DEF PhaseInv, Phases
  <2>4. s_active # "NONE"
    BY <2>3 DEF Composed, Slot1, Slot2, Slot3
  <2>5. ~MachineLeftIt'
    BY <1>1 DEF MachineLeftIt
  <2>6. SessionInv'
    BY <1>1, <2>1, <2>4, <2>5 DEF SessionInv, SessionStates
  <2> QED
    BY <2>1, <2>2, <2>3, <2>6
<1>2. ASSUME NEW r \in MachineResults(s_active) \cup {Result("RECOVERY_FAILED", TRUE)},
             MachineEnds(r),
             sess' \in {sess, "FAULTED", "RECOVERING", "CONFIGURING"},
             sess' \in {"SETTLING", "OPERATIONAL"} => reports' = reports,
             reports' \in ReportSets,
             r = Result("RECOVERY_FAILED", TRUE) \/ reports' = "production"
      PROVE  /\ SlotInv' /\ PhaseInv' /\ SessionInv'
             /\ UNCHANGED <<s_active, s_complete, s_inited>>
  <2>1. /\ s_active \in Composed /\ s_armed
        /\ machine' = [machine EXCEPT !.result = r] /\ phase' = "done"
        /\ UNCHANGED <<s_inited, s_plan, s_active, s_armed, s_complete, s_slot_done>>
    BY <1>2 DEF MachineEnds, Cmd!MachineFinishes, Cmd!Composed, Cmd!Slot1, Cmd!Slot2, Cmd!Slot3,
                Composed, Slot1, Slot2, Slot3
  <2>2. /\ r \in Results /\ r.state # "RUNNING"
        /\ r = Result("RECOVERY_FAILED", TRUE) => r.state = "RECOVERY_FAILED"
    <3>1. Result("RECOVERY_FAILED", TRUE).state = "RECOVERY_FAILED"
      BY DEF Result
    <3>2. CASE r = Result("RECOVERY_FAILED", TRUE)
      BY <2>1, <3>1, <3>2, ResultTypes
    <3>3. CASE r \in MachineResults(s_active)
      BY <2>1, <3>1, <3>3, ResultTypes
    <3> QED
      BY <1>2, <3>2, <3>3
  <2>3. SlotInv' /\ PhaseInv' /\ machine'.result = r
    BY <2>1, <2>2, EndKeeps
  <2>4. s_active # "NONE"
    BY <2>1 DEF Composed, Slot1, Slot2, Slot3
  <2>5. MachineLeftIt' => reports' = "production"
    BY <1>2, <2>1, <2>2, <2>3 DEF MachineLeftIt
  <2>6. SessionInv'
    BY <1>2, <2>1, <2>4, <2>5 DEF SessionInv, SessionStates, Held
  <2> QED
    BY <2>1, <2>3, <2>6
<1>3. {"production", "command", "none", "unknown"} = ReportSets /\ reports \in ReportSets
  BY DEF ReportSets, SessionInv
<1>4. CASE PumpConfigure
  <2>1. /\ UNCHANGED coordinator
        /\ phase \in {"config", "verify"} /\ phase' \in {"prompt", "commit", "work", "restore"}
        /\ \/ sess' = "COMMAND" /\ reports' = "command"
           \/ sess' = "FAULTED" /\ reports' = "unknown"
           \/ UNCHANGED <<sess, reports>>
    BY <1>4 DEF PumpConfigure, AfterConfigure, NewReports, Faults, session
  <2> QED
    BY <1>1, <1>3, <2>1 DEF Phases
<1>5. CASE PumpClearDcd
  <2>1. CASE /\ UNCHANGED coordinator
             /\ phase = "config" /\ phase' = "restore"
             /\ \/ sess' = "CONFIGURING" /\ reports' = "none"
                \/ UNCHANGED <<sess, reports>>
    BY <1>1, <1>3, <2>1 DEF Phases
  <2>2. CASE /\ MachineEnds(Result("RECOVERY_FAILED", TRUE))
             /\ \/ sess' \in {"FAULTED", "RECOVERING"} /\ reports' = "none"
                \/ UNCHANGED <<sess, reports>>
    BY <1>2, <1>3, <2>2
  <2> QED
    BY <1>5, <2>1, <2>2 DEF PumpClearDcd, NewReports, session
<1>6. CASE PumpCommit
  <2>1. /\ UNCHANGED <<sess, reports, coordinator>>
        /\ phase = "commit" /\ phase' \in {"verify", "work", "prompt", "commit", "restore"}
    BY <1>6 DEF PumpCommit, AfterCommit, session
  <2> QED
    BY <1>1, <1>3, <2>1 DEF Phases
<1>7. CASE RestoreFails
  <2>1. /\ MachineEnds(Result("RECOVERY_FAILED", TRUE))
        /\ \/ sess' = "FAULTED" /\ reports' = "unknown"
           \/ UNCHANGED <<sess, reports>>
    BY <1>7 DEF RestoreFails, Faults, NewReports, session
  <2> QED
    BY <1>2, <1>3, <2>1
<1>8. CASE RestoreSucceeds
  <2>1. /\ sess' = "CONFIGURING" /\ reports' = "production"
        /\ \E r \in MachineResults(s_active) : MachineEnds(r)
    BY <1>8 DEF RestoreSucceeds, NewReports, Verdicts
  <2> QED
    BY <1>2, <1>3, <2>1
<1>9. CASE PumpNothing /\ UNCHANGED restored
  <2>1. UNCHANGED <<phase, session, coordinator, restored>>
    BY <1>9 DEF PumpNothing
  <2> QED
    BY <2>1, StillKeeps DEF coordinator
<1> QED
  BY <1>4, <1>5, <1>6, <1>7, <1>8, <1>9 DEF PumpOther

(* The pump, in its turn.                                                  *)
LEMMA PumpStep ==
  ASSUME RunningInv, PumpAdapter
  PROVE  RunningInv'
<1>1. /\ \/ PumpOther /\ UNCHANGED restored
         \/ RestoreSucceeds /\ restored' = TRUE
      /\ step = "pump" /\ step' = "tick"
      /\ UNCHANGED <<mode, imuPlanActive, pressureRequest, zeroActive>>
  BY DEF PumpAdapter, pressure, capture
<1>2. mode \in PlanModes
  BY <1>1 DEF RunningInv, PlanInv
<1>3. /\ SlotInv' /\ PhaseInv' /\ SessionInv'
      /\ UNCHANGED <<s_active, s_complete, s_inited>>
  BY <1>1, <1>2, PumpKeeps DEF RunningInv
<1>4. PlanInv'
  BY <1>1, <1>3 DEF RunningInv, PlanInv, PlanModes
<1>5. CaptureInv'
  BY <1>1 DEF RunningInv, CaptureInv
<1> QED
  BY <1>3, <1>4, <1>5 DEF RunningInv

-----------------------------------------------------------------------------
(* The tick, the settle and the service                                    *)

(* The TICK of a stage with a machine.                                     *)
LEMMA TickStep ==
  ASSUME RunningInv, Tick
  PROVE  RunningInv'
<1>1. /\ TickArms \/ UNCHANGED <<phase, coordinator>>
      /\ step = "tick" /\ step' = "service"
      /\ UNCHANGED <<mode, imuPlanActive, pressureRequest, zeroActive, sess, reports, session,
                     restored>>
  BY DEF Tick, pressure, capture, session
<1>2. CASE TickArms
  <2>1. /\ SlotInv' /\ PhaseInv'
        /\ UNCHANGED <<s_active, s_slot_done, s_complete, s_inited>>
        /\ phase = "none"
    BY <1>2, ArmKeeps DEF RunningInv
  <2>2. MachineLeftIt
    BY <2>1 DEF MachineLeftIt
  <2>3. SessionInv'
    BY <1>1, <2>1, <2>2 DEF RunningInv, SessionInv, Held
  <2>4. PlanInv'
    BY <1>1, <2>1 DEF RunningInv, PlanInv
  <2>5. CaptureInv'
    BY <1>1 DEF RunningInv, CaptureInv
  <2> QED
    BY <2>1, <2>3, <2>4, <2>5 DEF RunningInv
<1>3. CASE UNCHANGED <<phase, coordinator>>
  <2>1. SlotInv' /\ PhaseInv' /\ SessionInv'
    BY <1>1, <1>3, StillKeeps DEF RunningInv
  <2>2. PlanInv'
    BY <1>1, <1>3 DEF RunningInv, PlanInv, coordinator
  <2>3. CaptureInv'
    BY <1>1 DEF RunningInv, CaptureInv
  <2> QED
    BY <2>1, <2>2, <2>3 DEF RunningInv
<1> QED
  BY <1>1, <1>2, <1>3

(* The settle begins with the production reports streaming: the ones it    *)
(* configures, or the ones a stage of the plan put back.                   *)
LEMMA BeginSettleStep ==
  ASSUME RunningInv, BeginSettle, Running'
  PROVE  RunningInv'
<1>1. /\ sess = "CONFIGURING" /\ sess' = "SETTLING"
      /\ reports' = IF restored THEN reports ELSE "production"
      /\ TickArms
      /\ s_active = "SETTLE"
      /\ step = "tick" /\ step' = "service"
      /\ UNCHANGED <<mode, imuPlanActive, pressureRequest, zeroActive, restored>>
  BY DEF BeginSettle, SettleTurn, begin_settle, OwnerFails, Running, pressure, capture
<1>2. /\ SlotInv' /\ PhaseInv'
      /\ UNCHANGED <<s_active, s_slot_done, s_complete, s_inited>>
      /\ phase = "none"
  BY <1>1, ArmKeeps DEF RunningInv
<1>3. MachineLeftIt /\ mode \in PlanModes
  BY <1>1, <1>2 DEF MachineLeftIt, RunningInv, PlanInv
<1>4. Held
  BY <1>3 DEF RunningInv, SessionInv
<1>5. reports' = "production"
  BY <1>1, <1>4 DEF Held
<1>6. SessionInv'
  BY <1>1, <1>2, <1>3, <1>5 DEF SessionInv, SessionStates, ReportSets, Held
<1>7. PlanInv'
  BY <1>1, <1>2 DEF RunningInv, PlanInv
<1>8. CaptureInv'
  BY <1>1 DEF RunningInv, CaptureInv
<1> QED
  BY <1>2, <1>6, <1>7, <1>8 DEF RunningInv

(* The settle is over: the session is operational, and streams production. *)
LEMMA SettledStep ==
  ASSUME RunningInv, Settled, Running'
  PROVE  RunningInv'
<1>1. /\ sess = "SETTLING" /\ sess' = "OPERATIONAL"
      /\ Cmd!post_settle_done
      /\ s_active = "SETTLE"
      /\ step = "tick" /\ step' = "service"
      /\ UNCHANGED <<mode, imuPlanActive, pressureRequest, zeroActive, phase, reports, restored>>
  BY DEF Settled, SettleTurn, mark_operational, OwnerFails, Running, pressure, capture
<1>2. /\ Cmd!finish_active(Cmd!Result("SUCCEEDED", FALSE), FALSE, FALSE)
      /\ UNCHANGED <<s_inited, s_plan, machine>>
  BY <1>1 DEF Cmd!post_settle_done
<1>3. SlotInv' /\ s_active' = "NONE"
  BY <1>1, <1>2, FinishKeepsSlots DEF RunningInv
<1>4. s_complete' = FALSE
  BY <1>1, <1>2 DEF Cmd!finish_active, Cmd!EndsPlan, Cmd!Result
<1>5. phase = "none" /\ PhaseInv'
  <2>1. "SETTLE" \notin Composed /\ "NONE" \notin Composed
    BY DEF Composed, Slot1, Slot2, Slot3
  <2> QED
    BY <1>1, <1>2, <1>3, <2>1 DEF RunningInv, PhaseInv
<1>6. SessionInv'
  BY <1>1 DEF RunningInv, SessionInv, SessionStates, Held, PlanInv
<1>7. PlanInv'
  BY <1>1, <1>2, <1>3, <1>4 DEF RunningInv, PlanInv
<1>8. CaptureInv'
  BY <1>1 DEF RunningInv, CaptureInv
<1> QED
  BY <1>3, <1>5, <1>6, <1>7, <1>8 DEF RunningInv

(* What the coordinator's service leaves: the adoption of a result that    *)
(* does not end the plan, the start of the next stage, or the machine's    *)
(* own service.                                                            *)
LEMMA ServedKeeps ==
  ASSUME RunningInv, mode \in PlanModes, CmdServed, ~s_complete' \/ s_active' = "ACQUISITION",
         UNCHANGED <<sess, reports, restored>>
  PROVE  /\ SlotInv' /\ PhaseInv'
         /\ UNCHANGED s_inited
         /\ s_active' # "ACQUISITION" => ~s_complete'
         /\ MachineLeftIt' => Held
         /\ s_active' = "NONE" => s_slot_done' <= 3 \/ (s_active = "NONE" /\ UNCHANGED s_slot_done)
         /\ s_active' = "ACQUISITION" => sess \in {"OPERATIONAL", "RECOVERING"}
<1>1. ~s_complete /\ s_active # "ACQUISITION" /\ SlotInv /\ PhaseInv
  BY DEF RunningInv, PlanInv
<1>2. "NONE" \notin Composed /\ "ACQUISITION" # "NONE"
  BY DEF Composed, Slot1, Slot2, Slot3
<1>3. MachineLeftIt => Held
  BY DEF RunningInv, SessionInv
<1>4. CASE Cmd!AdoptResult /\ phase' = "none"
  <2>1. /\ s_active \in Composed /\ s_armed
        /\ machine.result.state \in Terminal
        /\ Cmd!finish_active(machine.result, FALSE, FALSE)
        /\ UNCHANGED <<s_inited, s_plan, machine>>
    BY <1>4 DEF Cmd!AdoptResult, Cmd!MachineComplete, Cmd!Terminal, Terminal, Cmd!Composed, Cmd!Slot1,
                Cmd!Slot2, Cmd!Slot3, Composed, Slot1, Slot2, Slot3
  <2>2. SlotInv' /\ s_active' = "NONE" /\ s_slot_done' <= 3
    BY <1>1, <1>2, <2>1, FinishKeepsSlots
  <2>3. ~s_complete'
    BY <1>2, <2>2
  <2>4. machine.result.state # "RECOVERY_FAILED"
    BY <2>1, <2>3 DEF Cmd!finish_active, Cmd!EndsPlan
  <2>5. phase = "done"
    BY <1>1, <2>1 DEF PhaseInv, Terminal
  <2>6. Held
    BY <1>3, <2>4, <2>5 DEF MachineLeftIt
  <2>7. PhaseInv'
    BY <1>1, <1>2, <1>4, <2>1, <2>2 DEF PhaseInv, Phases
  <2> QED
    BY <1>2, <2>1, <2>2, <2>3, <2>6, <2>7
<1>5. ASSUME NEW k \in 1..5, Cmd!start_stage(k), phase' = "none"
      PROVE  /\ SlotInv' /\ PhaseInv'
             /\ UNCHANGED <<s_inited, s_complete>>
             /\ Held
             /\ s_active' # "NONE"
             /\ s_active' = "ACQUISITION" => sess \in {"OPERATIONAL", "RECOVERING"}
  <2>1. /\ SlotInv' /\ s_active' # "NONE" /\ ~s_armed' /\ s_active = "NONE"
        /\ s_active' = "ACQUISITION" => s_slot_done >= 4
        /\ UNCHANGED <<s_complete, s_inited>>
    BY <1>1, <1>5, StartKeepsSlots
  <2>2. UNCHANGED machine
    BY <1>5 DEF Cmd!start_stage
  <2>3. phase = "none"
    BY <1>1, <1>2, <2>1 DEF PhaseInv
  <2>4. Held
    BY <1>3, <2>3 DEF MachineLeftIt
  <2>5. PhaseInv'
    BY <1>1, <1>5, <2>1, <2>2 DEF PhaseInv, Phases
  <2>6. s_active' = "ACQUISITION" => sess \in {"OPERATIONAL", "RECOVERING"}
    BY <2>1 DEF RunningInv, SessionInv
  <2> QED
    BY <2>1, <2>4, <2>5, <2>6
<1>6. CASE MachineServed /\ UNCHANGED coordinator
  <2>1. UNCHANGED <<s_inited, s_plan, s_active, s_armed, s_complete, s_slot_done, machine>>
    BY <1>6 DEF coordinator
  <2>2. SlotInv'
    BY <1>1, <2>1, SlotsStay
  <2>3. \/ phase' = phase
        \/ phase = "work" /\ phase' \in {"work", "prompt", "commit", "restore"}
    BY <1>6 DEF MachineServed, MayFind
  <2>4. PhaseInv'
    BY <1>1, <2>1, <2>3 DEF PhaseInv, Phases
  <2>5. MachineLeftIt' => MachineLeftIt
    BY <2>1, <2>3 DEF MachineLeftIt
  <2> QED
    BY <1>1, <1>3, <2>1, <2>2, <2>4, <2>5
<1>7. \/ Cmd!AdoptResult /\ phase' = "none"
      \/ \E k \in 1..5 : Cmd!start_stage(k) /\ phase' = "none"
      \/ MachineServed /\ UNCHANGED coordinator
  BY DEF CmdServed, Cmd!imu_cmd_service
<1> QED
  BY <1>1, <1>4, <1>5, <1>6, <1>7

(* The service, which ends the plan's mode when acquisition is reached.    *)
LEMMA ServiceStep ==
  ASSUME RunningInv, Service, Running'
  PROVE  RunningInv'
<1>1. /\ step = "service" /\ step' = "requests"
      /\ UNCHANGED <<pressureRequest, zeroActive, sess, reports, session, restored>>
      /\ \/ /\ s_active' = "ACQUISITION"
            /\ imuPlanActive' = FALSE /\ mode' = "ACQUISITION"
         \/ /\ s_active' # "ACQUISITION" /\ ~s_complete'
            /\ UNCHANGED <<imuPlanActive, mode>>
      /\ CmdServed \/ MachineTakesConfirm
  BY DEF Service, OwnerFails, Running, pressure, capture, session
<1>2. /\ mode \in PlanModes /\ imuPlanActive
      /\ pressureRequest \in {"none", "clear"} /\ ~zeroActive
      /\ s_active # "ACQUISITION" /\ ~s_complete
  BY <1>1 DEF RunningInv, PlanInv, CaptureInv, PlanModes
<1>3. /\ SlotInv' /\ PhaseInv' /\ SessionInv'
      /\ s_active' = "ACQUISITION" \/ ~s_complete'
  <2>1. CASE MachineTakesConfirm
    <3>1. s_active' # "ACQUISITION"
      BY <2>1, <1>2 DEF MachineTakesConfirm, coordinator
    <3> QED
      BY <1>1, <2>1, <3>1, MachineKeys DEF RunningInv
  <2>2. CASE CmdServed
    <3>1. /\ SlotInv' /\ PhaseInv'
          /\ s_active' # "ACQUISITION" => ~s_complete'
          /\ MachineLeftIt' => Held
          /\ s_active' = "NONE" =>
               s_slot_done' <= 3 \/ (s_active = "NONE" /\ UNCHANGED s_slot_done)
          /\ s_active' = "ACQUISITION" => sess \in {"OPERATIONAL", "RECOVERING"}
      BY <1>1, <1>2, <2>2, ServedKeeps
    <3>2. s_slot_done' \in Int
      BY <3>1 DEF SlotInv
    <3>3. SessionInv'
      <4>1. CASE s_active' = "ACQUISITION"
        BY <1>1, <3>1, <4>1 DEF RunningInv, SessionInv, PlanModes
      <4>2. CASE s_active' # "ACQUISITION"
        <5>1. UNCHANGED mode
          BY <1>1, <4>2
        <5>2. Held => Held'
          BY <1>1 DEF Held
        <5>3. s_active' = "NONE" /\ s_slot_done' >= 4 => sess \in {"OPERATIONAL", "RECOVERING"}
          BY <1>2, <3>1, <3>2 DEF RunningInv, SessionInv
        <5> QED
          BY <1>1, <1>2, <3>1, <5>1, <5>2, <5>3 DEF RunningInv, SessionInv
      <4> QED
        BY <4>1, <4>2
    <3> QED
      BY <3>1, <3>3
  <2> QED
    BY <1>1, <2>1, <2>2
<1>4. PlanInv'
  BY <1>1, <1>2, <1>3 DEF PlanInv, PlanModes
<1>5. CaptureInv'
  BY <1>1, <1>2 DEF CaptureInv, PlanModes
<1> QED
  BY <1>3, <1>4, <1>5 DEF RunningInv

-----------------------------------------------------------------------------
(* The invariant                                                           *)

(* The invariant holds at the start.                                       *)
LEMMA StartHolds == Init => StageInv
<1> SUFFICES ASSUME Init PROVE StageInv
  OBVIOUS
<1>1. /\ s_inited = FALSE /\ s_active = "NONE" /\ s_armed = FALSE /\ s_slot_done = 0
      /\ s_plan = Cmd!NoPlan /\ machine = Cmd!NoMachine
  BY DEF Init, Cmd!Init
<1>2. PlanInv
  BY <1>1 DEF Init, PlanInv, PlanModes
<1>3. SlotInv
  BY <1>1 DEF SlotInv, Cmd!NoPlan
<1>4. PhaseInv
  <2>1. Cmd!NoMachine \in [id : Composed \cup {"NONE"}, result : Results]
    BY DEF Cmd!NoMachine, Cmd!Result, Results
  <2> QED
    BY <1>1, <2>1 DEF Init, PhaseInv, Phases, Composed, Slot1, Slot2, Slot3
<1>5. SessionInv
  BY <1>1 DEF Init, SessionInv, SessionStates, ReportSets, Held, PlanModes
<1>6. CaptureInv
  BY DEF Init, CaptureInv
<1>7. SamplesInv
  BY DEF Init, SamplesInv, ReferenceOfOneCapture
<1> QED
  BY <1>2, <1>3, <1>4, <1>5, <1>6, <1>7 DEF StageInv, RunningInv

(* Every step keeps it; a program that has ended owes nothing more.        *)
LEMMA StepKeeps == ASSUME StageInv, [Next]_vars PROVE StageInv'
<1>1. SamplesInv'
  BY SamplesKept DEF StageInv
<1>2. ASSUME Running'
      PROVE  RunningInv'
  <2>1. CASE UNCHANGED vars
    <3>1. UNCHANGED <<mode, imuPlanActive, pressureRequest, zeroActive, phase, session,
                      coordinator, restored, step, status>>
      BY <2>1 DEF vars, pressure, capture
    <3>2. RunningInv
      BY <1>2, <3>1 DEF StageInv, Running
    <3>3. SlotInv' /\ PhaseInv' /\ SessionInv'
      BY <3>1, <3>2, StillKeeps DEF RunningInv
    <3>4. PlanInv' /\ CaptureInv'
      BY <3>1, <3>2 DEF RunningInv, PlanInv, CaptureInv, coordinator
    <3> QED
      BY <3>3, <3>4 DEF RunningInv
  <2>2. CASE Next /\ ~UNCHANGED vars
    <3>1. ~ProcessStop /\ ~SignalEndsLoop /\ ~InputError /\ ~PressureFails /\ ~Over
      BY <1>2, <2>2 DEF ProcessStop, SignalEndsLoop, InputError, PressureFails, OwnerFails, Over,
                        Running
    <3>2. Turn \/ Key \/ ChipReset
      BY <2>2, <3>1 DEF Next
    <3>3. Running
      BY <3>2 DEF Turn, Key, ChipReset, StartupSettle, NoKey, PumpAdapter, Tick, BeginSettle,
                  WaitSettled, Settled, SettleTurn, Service, TakeRequests, Emit, ZeroService,
                  KeyStage, KeyClearConfirmed, KeysOfModes, KeyZeroCancel, KeyMode, KeyQ,
                  KeyConfirm, StageKey, TakesKey
    <3>4. RunningInv
      BY <3>3 DEF StageInv
    <3>5. CASE Turn
      BY <1>2, <3>4, <3>5, PlainSteps, ModeKeys, PumpStep, TickStep, BeginSettleStep,
         SettledStep, ServiceStep, CaptureSteps DEF Turn
    <3>6. CASE Key
      BY <1>2, <3>4, <3>6, ModeKeys, PlanStarts, StageKeys DEF Key
    <3>7. CASE ChipReset
      BY <3>4, <3>7, ResetStep
    <3> QED
      BY <3>2, <3>5, <3>6, <3>7
  <2> QED
    BY <2>1, <2>2
<1> QED
  BY <1>1, <1>2 DEF StageInv

(* The invariant of the stage controller.                                  *)
THEOREM StageInvariant == Spec => []StageInv
<1>1. Init => StageInv
  BY StartHolds
<1>2. StageInv /\ [Next]_vars => StageInv'
  BY StepKeeps
<1> QED
  BY <1>1, <1>2, PTL DEF Spec

(* At the end of every turn the mode, the coordinator, the session and the *)
(* capture tell the same story (twg_stage_turn, main.c's row), whatever    *)
(* keys, resets, results and requests crossed in it.                       *)
THEOREM ModesStayTogether == Spec => []ModesAgree
<1>1. StageInv => ModesAgree
  <2> SUFFICES ASSUME StageInv, Running, step = "emit"
               PROVE  PlanMatchesMode /\ (zeroActive <=> mode = "PRESSURE_ZERO")
    BY DEF ModesAgree
  <2>1. RunningInv
    BY DEF StageInv
  <2>2. zeroActive <=> mode = "PRESSURE_ZERO"
    BY <2>1 DEF RunningInv, CaptureInv
  <2>3. PlanMatchesMode
    BY <2>1 DEF RunningInv, PlanInv, SessionInv, PlanMatchesMode
  <2> QED
    BY <2>2, <2>3
<1> QED
  BY <1>1, StageInvariant, PTL

(* A reference is the mean of samples of one capture, for every capture    *)
(* length and sample count (pressure_zero_begin, pressure_zero_service,    *)
(* pressure_zero_clear).                                                   *)
THEOREM ReferenceIsOfOneCapture == Spec => []ReferenceOfOneCapture
<1>1. StageInv => ReferenceOfOneCapture
  BY DEF StageInv, SamplesInv
<1> QED
  BY <1>1, StageInvariant, PTL

-----------------------------------------------------------------------------
(* Types                                                                   *)

(* What the stage does with the phase and the session.                     *)
LEMMA PumpTypes ==
  ASSUME TypeOK, PumpOther \/ RestoreSucceeds
  PROVE  phase' \in Phases /\ sess' \in SessionStates /\ reports' \in ReportSets
<1> USE DEF TypeOK, StageTypeOK, Phases, SessionStates, ReportSets, NewReports, Faults, MachineEnds
<1>1. CASE PumpConfigure
  BY <1>1 DEF PumpConfigure, AfterConfigure, session
<1>2. CASE PumpClearDcd
  BY <1>2 DEF PumpClearDcd, session
<1>3. CASE PumpCommit
  BY <1>3 DEF PumpCommit, AfterCommit, session
<1>4. CASE RestoreSucceeds
  BY <1>4 DEF RestoreSucceeds
<1>5. CASE RestoreFails
  BY <1>5 DEF RestoreFails, session
<1>6. CASE PumpNothing
  BY <1>6 DEF PumpNothing, session
<1> QED
  BY <1>1, <1>2, <1>3, <1>4, <1>5, <1>6 DEF PumpOther

LEMMA PhaseTypes ==
  ASSUME TypeOK, [Next]_vars
  PROVE  phase' \in Phases
<1>0. phase \in Phases
  BY DEF TypeOK, StageTypeOK
<1>1. CASE PumpAdapter
  BY <1>1, PumpTypes DEF PumpAdapter
<1>2. CASE Tick \/ BeginSettle \/ Settled \/ WaitSettled
  <2>1. phase' = phase \/ phase' = FirstPhase
    BY <1>2 DEF Tick, BeginSettle, Settled, WaitSettled, SettleTurn, TickArms
  <2> QED
    BY <1>0, <2>1 DEF FirstPhase, Phases
<1>3. CASE KeyQ \/ KeyConfirm
  BY <1>0, <1>3 DEF KeyQ, KeyConfirm, MachineTakesQ, MachineTakesConfirm, Phases
<1>4. CASE Service
  <2>1. CASE MachineTakesConfirm
    BY <1>0, <2>1 DEF MachineTakesConfirm, Phases
  <2>2. CASE CmdServed
    BY <1>0, <2>2 DEF CmdServed, MachineServed, MayFind, Phases
  <2> QED
    BY <1>4, <2>1, <2>2 DEF Service
<1>5. CASE \/ (\E m \in PlanModes : KeyStage(m)) \/ KeyClearConfirmed
  BY <1>0, <1>5 DEF KeyStage, KeyClearConfirmed, start_imu_plan, Phases
<1>6. CASE \/ StartupSettle \/ NoKey \/ KeysOfModes \/ TakeRequests \/ Emit \/ ChipReset
           \/ (\E accepted \in BOOLEAN : ZeroService(accepted)) \/ ProcessStop
           \/ SignalEndsLoop \/ InputError \/ PressureFails \/ Over \/ UNCHANGED vars
  <2>1. phase' = phase
    BY <1>6 DEF StartupSettle, NoKey, KeysOfModes, KeyZeroCancel, KeyMode, TakeRequests, Emit,
         ChipReset, ZeroService, ProcessStop, SignalEndsLoop, InputError, PressureFails, Over, vars
  <2> QED
    BY <1>0, <2>1
<1> QED
  BY <1>1, <1>2, <1>3, <1>4, <1>5, <1>6 DEF Next, Turn, Key

LEMMA SessionTypes ==
  ASSUME TypeOK, [Next]_vars
  PROVE  sess' \in SessionStates /\ reports' \in ReportSets
<1> USE DEF TypeOK, StageTypeOK
<1>1. CASE PumpAdapter
  BY <1>1, PumpTypes DEF PumpAdapter
<1>2. CASE Tick \/ BeginSettle \/ Settled \/ WaitSettled
  BY <1>2 DEF Tick, BeginSettle, Settled, WaitSettled, SettleTurn, session, begin_settle, Faults,
              NewReports, mark_operational, SessionStates, ReportSets
<1>3. CASE ChipReset \/ StartupSettle
  BY <1>3 DEF ChipReset, ResetNoticed, StartupSettle, mark_operational, SessionStates, ReportSets
<1>4. CASE (\E m \in PlanModes : KeyStage(m)) \/ KeyClearConfirmed
  BY <1>4 DEF KeyStage, KeyClearConfirmed, start_imu_plan, SessionStates
<1>5. CASE \/ NoKey \/ KeysOfModes \/ KeyQ \/ KeyConfirm \/ Service \/ TakeRequests \/ Emit
           \/ (\E accepted \in BOOLEAN : ZeroService(accepted)) \/ ProcessStop
           \/ SignalEndsLoop \/ InputError \/ PressureFails \/ Over \/ UNCHANGED vars
  <2>1. UNCHANGED session
    BY <1>5 DEF NoKey, KeysOfModes, KeyZeroCancel, KeyMode, KeyQ, KeyConfirm, StageKey, Service,
         TakeRequests, Emit, ZeroService, ProcessStop, SignalEndsLoop, InputError, PressureFails,
         Over, vars
  <2> QED
    BY <2>1 DEF session
<1> QED
  BY <1>1, <1>2, <1>3, <1>4, <1>5 DEF Next, Turn, Key

LEMMA ModeTypes ==
  ASSUME TypeOK, [Next]_vars
  PROVE  /\ mode' \in {"RESTORE", "ACQUISITION", "CALIBRATION", "TARE", "CLEAR_ALL",
                       "CLEAR_CONFIRM", "PRESSURE_ZERO", "STOPPED"}
         /\ pressureRequest' \in {"none", "zero", "cancel", "clear"}
         /\ status' \in {"running", "error", "stopped", "completed"}
         /\ settleLeft' \in 0..SettleTurns
<1> USE DEF TypeOK, StageTypeOK
<1>1. \A n \in 0..SettleTurns : n > 0 => n - 1 \in 0..SettleTurns
  BY StageAssumption DEF StageAssumption
<1>2. SettleTurns \in 0..SettleTurns
  BY StageAssumption DEF StageAssumption
<1>3. CASE Tick \/ BeginSettle \/ Settled \/ WaitSettled
  <2>1. settleLeft' \in 0..SettleTurns
    BY <1>1, <1>2, <1>3 DEF Tick, BeginSettle, Settled, WaitSettled, SettleTurn, settle
  <2>2. UNCHANGED <<mode, pressureRequest>> /\ status' \in {status, "error"}
    BY <1>3 DEF Tick, BeginSettle, Settled, WaitSettled, SettleTurn, OwnerFails
  <2> QED
    BY <2>1, <2>2
<1>4. CASE (\E m \in PlanModes : KeyStage(m)) \/ KeyClearConfirmed
  BY <1>4 DEF KeyStage, KeyClearConfirmed, start_imu_plan, OwnerFails, PlanModes
<1>5. CASE NoKey \/ KeysOfModes \/ KeyQ \/ KeyConfirm
  BY <1>5 DEF NoKey, KeysOfModes, KeyZeroCancel, KeyMode, KeyQ, KeyConfirm, StageKey, OwnerFails,
              settle
<1>6. CASE StartupSettle \/ PumpAdapter \/ Service \/ TakeRequests \/ Emit
  BY <1>6 DEF StartupSettle, PumpAdapter, Service, TakeRequests, Emit, OwnerFails, settle
<1>7. CASE \/ (\E accepted \in BOOLEAN : ZeroService(accepted)) \/ ChipReset \/ ProcessStop
           \/ SignalEndsLoop \/ InputError \/ PressureFails \/ Over \/ UNCHANGED vars
  BY <1>7 DEF ZeroService, ChipReset, ProcessStop, SignalEndsLoop, InputError, PressureFails,
              Over, vars, OwnerFails, settle
<1> QED
  BY <1>3, <1>4, <1>5, <1>6, <1>7 DEF Next, Turn, Key

LEMMA PressureTypes ==
  ASSUME TypeOK, SamplesInv, SamplesInv', [Next]_vars
  PROVE  PressureTypeOK'
<1>1. sampleOrigins' \subseteq {"this", "earlier"}
  BY DEF SamplesInv
<1>2. surfaceOrigins' \subseteq {"this", "earlier"}
  <2>1. UNCHANGED surfaceOrigins \/ surfaceOrigins' = {} \/ surfaceOrigins' = sampleOrigins'
    <3>1. CASE UNCHANGED pressure
      BY <3>1 DEF pressure, reference
    <3>2. CASE TakeRequests
      BY <3>2 DEF TakeRequests, pressure_zero_clear, pressure, reference
    <3>3. CASE \E accepted \in BOOLEAN : ZeroService(accepted)
      BY <3>3 DEF ZeroService, pressure_zero_finish, reference
    <3> QED
      BY <3>1, <3>2, <3>3
      DEF Next, Turn, Key, StartupSettle, NoKey, PumpAdapter, Tick, BeginSettle,
          WaitSettled, Settled, SettleTurn, Service, Emit, KeyStage, KeyClearConfirmed,
          start_imu_plan, KeysOfModes, KeyZeroCancel, KeyMode, KeyQ, KeyConfirm, StageKey,
          ChipReset, ProcessStop, SignalEndsLoop, InputError, PressureFails, Over, vars
  <2> QED
    BY <1>1, <2>1 DEF TypeOK, PressureTypeOK
<1>3. zeroLeft' \in 0..ZeroTurns /\ zeroValidSamples' \in 0..MaxSamples
  <2>0. /\ 0 \in 0..ZeroTurns /\ ZeroTurns \in 0..ZeroTurns /\ 0 \in 0..MaxSamples
        /\ \A n \in 0..ZeroTurns : n > 0 => n - 1 \in 0..ZeroTurns
        /\ \A n \in 0..MaxSamples : n < MaxSamples => n + 1 \in 0..MaxSamples
        /\ \A n \in 0..MaxSamples : n + 0 = n
    BY StageAssumption DEF StageAssumption
  <2>1. zeroLeft \in 0..ZeroTurns /\ zeroValidSamples \in 0..MaxSamples
    BY DEF TypeOK, PressureTypeOK
  <2>2. CASE UNCHANGED pressure
    BY <2>1, <2>2 DEF pressure, capture
  <2>3. CASE TakeRequests
    BY <2>0, <2>1, <2>3
    DEF TakeRequests, pressure_zero_begin, pressure_zero_clear, pressure, capture
  <2>4. ASSUME NEW accepted \in BOOLEAN, ZeroService(accepted)
        PROVE  zeroLeft' \in 0..ZeroTurns /\ zeroValidSamples' \in 0..MaxSamples
    BY <2>0, <2>1, <2>4 DEF ZeroService, KeepsSample, capture
  <2> QED
    BY <2>2, <2>3, <2>4
    DEF Next, Turn, Key, StartupSettle, NoKey, PumpAdapter, Tick, BeginSettle,
        WaitSettled, Settled, SettleTurn, Service, Emit, KeyStage, KeyClearConfirmed,
        start_imu_plan, KeysOfModes, KeyZeroCancel, KeyMode, KeyQ, KeyConfirm, StageKey,
        ChipReset, ProcessStop, SignalEndsLoop, InputError, PressureFails, Over, vars
<1> QED
  BY <1>1, <1>2, <1>3 DEF PressureTypeOK

(* The stage's and the capture's variables keep their types, the capture   *)
(* its length and its number of samples, when the program has ended too.   *)
THEOREM StageTypes == Spec => []TypeOK
<1>1. Init => TypeOK
  BY StageAssumption
  DEF StageAssumption, Init, TypeOK, StageTypeOK, PressureTypeOK, Phases, SessionStates, ReportSets
<1>2. StageInv /\ StageInv' /\ TypeOK /\ [Next]_vars => TypeOK'
  BY PhaseTypes, SessionTypes, ModeTypes, PressureTypes DEF TypeOK, StageTypeOK, StageInv
<1> QED
  BY <1>1, <1>2, StageInvariant, PTL DEF Spec
=============================================================================
