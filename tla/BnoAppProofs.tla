----------------------------- MODULE BnoAppProofs -----------------------------
(***************************************************************************)
(* What bno_app keeps for every plan, every queue capacity and any number  *)
(* of lines typed: a line reaches only the stage it was typed in, and the  *)
(* session settles and acquires on the production reports.                 *)
(***************************************************************************)
EXTENDS BnoApp, SequenceTheorems, TLAPS

-----------------------------------------------------------------------------
(* The inductive invariant                                                 *)

(* The types, with what the worker carries and what the plan can start.    *)
PlanTyped ==
  /\ s_active \in Identities \cup {"NONE"}
  /\ \A k \in 1..3 : s_plan.slot[k] \in Composed \cup {"NONE"}

WorkerCarries ==
  /\ worker.pc = "flush" => worker.requested \in 0..flushRequested
  /\ worker.pc = "offer" => worker.line \in Lines

TypeInv == TypeOK /\ PlanTyped /\ WorkerCarries

OfStage(lines, stage) == \A k \in 1..Len(lines) : lines[k].at = stage

(* The gate's ticket is the last flush asked for, and it is armed for the  *)
(* stage that runs, but for the turn in which acquisition ends.            *)
GateInv ==
  /\ gate.flushTicket = flushRequested
  /\ worker.pc = "flush" => worker.requested > flushAcknowledged
  /\ Running => gate.stage = s_active \/ (step = "input" /\ s_active = "NONE")
  /\ step = "start" => s_active = "NONE" /\ ~s_complete

(* Once the flush of the gate's ticket is done, no line of an earlier      *)
(* stage is left in the queue, in the worker's hand or in the terminal;    *)
(* while it is being done, none is left in the terminal.                   *)
FlushDone == flushAcknowledged = flushRequested
FlushUnderWay == worker.pc = "flush" /\ worker.requested = flushRequested

LinesInv ==
  Running /\ gate.stage = s_active =>
    /\ FlushDone => /\ OfStage(queue, s_active)
                    /\ worker.pc = "offer" => worker.line.at = s_active
    /\ FlushDone \/ FlushUnderWay => OfStage(tty, s_active)

BoundaryInv == GateInv /\ LinesInv

(* The machine of a running stage has ended exactly when its phase says    *)
(* so; a stage without a machine, or before its first TICK, has no phase.  *)
PhaseInv ==
  /\ s_complete => s_active = "NONE"
  /\ machine \in [id : Composed \cup {"NONE"}, result : Results]
  /\ s_active \in Composed /\ s_armed =>
       /\ phase # "none"
       /\ machine.id = s_active
       /\ machine.result.state = "RUNNING" <=> phase # "done"
  /\ ~(s_active \in Composed /\ s_armed) => phase = "none"

(* Production is streaming whenever the settle may take it for granted: a  *)
(* stage has restored it, and none since has left the session otherwise.   *)
Held == (productionConfigured \/ restoredBy # {}) /\ sess = "CONFIGURING" => reports = "production"
MachineLeftIt ==
  \/ phase \in {"none", "confirm", "config"}
  \/ phase = "done" /\ machine.result.state # "RECOVERY_FAILED"

SessionInv == ~s_complete /\ MachineLeftIt => Held

ProductionInv == SettledInProduction /\ (Running => PhaseInv /\ SessionInv)

AppInv == TypeInv /\ BoundaryInv /\ ProductionInv

-----------------------------------------------------------------------------
(* The types                                                               *)

(* How the coordinator's stage may change in a step.                       *)
LEMMA CoordinatorMoves ==
  ASSUME [Next]_vars
  PROVE  \/ UNCHANGED <<s_active, s_plan>>
         \/ s_active' = "NONE" /\ UNCHANGED s_plan
         \/ \E plan \in Plans : Cmd!imu_cmd_init(plan)
         \/ \E k \in 1..5 : Cmd!start_stage(k)
<1>1. CASE UNCHANGED coordinator
  BY <1>1 DEF coordinator
<1>2. CASE Start
  BY <1>1, <1>2 DEF Start
<1>3. CASE Stop
  BY <1>3 DEF Stop, Cmd!post_process_stop, Cmd!finish_active
<1>4. CASE SessionFailed
  BY <1>4 DEF SessionFailed, Cmd!SessionUnrestorable, Cmd!finish_active, Cmd!VetoAndStop
<1>5. CASE PumpAdapter
  BY <1>1, <1>5 DEF PumpAdapter, TickArms, Cmd!post_tick, PumpOther, PumpConfigure, PumpClearDcd,
     PumpCommit, RestoreFails, PumpNothing, RestoreSucceeds, MachineEnds, Cmd!MachineFinishes
<1>6. CASE BeginSettle
  BY <1>1, <1>6 DEF BeginSettle, TickArms, Cmd!post_tick, Cmd!SessionUnrestorable,
     Cmd!finish_active, Cmd!VetoAndStop
<1>7. CASE Acquire
  BY <1>1, <1>7 DEF Acquire, TickArms, Cmd!post_tick, Cmd!finish_active
<1>8. CASE InputFails
  BY <1>1, <1>8 DEF InputFails, Inputs, Cmd!post_settle_done, Cmd!finish_active
<1>9. CASE Settled
  BY <1>9 DEF Settled, Inputs, Cmd!post_settle_done, Cmd!finish_active
<1>10. CASE TakeLine
  BY <1>1, <1>10 DEF TakeLine, TakesLine, Inputs, MachineTakesQ, Cmd!post_q, MachineTakesConfirm
<1>11. CASE Service
  BY <1>1, <1>11 DEF Service, CmdServed, Cmd!imu_cmd_service, Cmd!AdoptResult, Cmd!finish_active
<1>12. CASE \/ UNCHANGED vars
            \/ PlanComplete \/ WaitSettle \/ SettleFails \/ NoLine \/ LineRefused \/ Cleanup
            \/ ChipReset \/ InputWorker \/ (\E failed \in BOOLEAN : WorkerEnds(failed))
            \/ (\E key \in Keys : Type(key)) \/ Signal \/ Over
  <2>1. UNCHANGED coordinator
    BY <1>12 DEF vars, stageVars, PlanComplete, WaitSettle, SettleFails, NoLine, LineRefused,
       TakesLine, Inputs, Cleanup, ChipReset, InputWorker, WorkerTop, WorkerFlush, WorkerPoll,
       WorkerOffer, WorkerStep, WorkerEnds, Type, Signal, Over
  <2> QED
    BY <1>1, <2>1
<1> QED
  BY <1>2, <1>3, <1>4, <1>5, <1>6, <1>7, <1>8, <1>9, <1>10, <1>11, <1>12
  DEF Next, Owner, Act, Input

(* A stage that can run is of the plan, or settles, or acquires.           *)
LEMMA PlanKept == ASSUME PlanTyped, [Next]_vars PROVE PlanTyped'
<1>1. CASE UNCHANGED s_plan /\ s_active' \in {s_active, "NONE"}
  BY <1>1 DEF PlanTyped
<1>2. ASSUME NEW plan \in Plans, Cmd!imu_cmd_init(plan)
      PROVE  PlanTyped'
  <2>1. s_active' = "NONE"
    BY <1>2 DEF Cmd!imu_cmd_init
  <2>2. CASE Cmd!plan_legal(plan)
    <3>1. s_plan' = plan
      BY <1>2, <2>2 DEF Cmd!imu_cmd_init
    <3>2. \A k \in 1..3 : plan.slot[k] \in Composed \cup {"NONE"}
      BY <2>2 DEF Cmd!plan_legal, Cmd!Slot1, Cmd!Slot2, Cmd!Slot3, Composed, Slot1, Slot2, Slot3
    <3> QED
      BY <2>1, <3>1, <3>2 DEF PlanTyped
  <2>3. CASE ~Cmd!plan_legal(plan)
    <3>1. s_plan' = Cmd!NoPlan
      BY <1>2, <2>3 DEF Cmd!imu_cmd_init
    <3> QED
      BY <2>1, <3>1 DEF PlanTyped, Cmd!NoPlan
  <2> QED
    BY <2>2, <2>3
<1>3. ASSUME NEW k \in 1..5, Cmd!start_stage(k)
      PROVE  PlanTyped'
  <2>1. s_active' = Cmd!StageAt(k) /\ UNCHANGED s_plan
    BY <1>3 DEF Cmd!start_stage
  <2>2. Cmd!StageAt(k) \in Identities \cup {"NONE"}
    BY DEF Cmd!StageAt, PlanTyped, Identities
  <2> QED
    BY <2>1, <2>2 DEF PlanTyped
<1> QED
  BY <1>1, <1>2, <1>3, CoordinatorMoves

(* The gate armed for a stage, and the flush it may ask for.               *)
LEMMA GateArms ==
  ASSUME NEW stage \in Identities \cup {"NONE"}, ArmGate(stage),
         gate \in [stage : Identities \cup {"NONE"}, flushTicket : Nat],
         gate.flushTicket = flushRequested, flushRequested \in Nat
  PROVE  /\ gate' \in [stage : Identities \cup {"NONE"}, flushTicket : Nat]
         /\ gate'.stage = stage
         /\ gate'.flushTicket = flushRequested'
         /\ flushRequested' \in Nat
         /\ \/ UNCHANGED <<gate, flushRequested>>
            \/ flushRequested' = flushRequested + 1
<1>1. CASE gate.stage = stage
  BY <1>1 DEF ArmGate
<1>2. CASE gate.stage # stage
  <2>1. /\ flushRequested' = flushRequested + 1
        /\ gate' = [stage |-> stage, flushTicket |-> flushRequested']
    BY <1>2 DEF ArmGate
  <2> QED
    BY <2>1
<1> QED
  BY <1>1, <1>2

(* The pump, the first TICK, a line and the service stay in the phases and *)
(* in the session's states.                                                *)
LEMMA PhasesStay ==
  ASSUME phase \in Phases
  PROVE  /\ TickArms => phase' \in Phases
         /\ MachineTakesQ \/ MachineTakesConfirm => phase' \in Phases
         /\ CmdServed => phase' \in Phases
         /\ PumpOther \/ RestoreSucceeds => phase' \in Phases
<1>1. TickArms => phase' \in Phases
  BY DEF TickArms, FirstPhase, Phases
<1>2. MachineTakesQ \/ MachineTakesConfirm => phase' \in Phases
  BY DEF MachineTakesQ, MachineTakesConfirm, Phases
<1>3. CmdServed => phase' \in Phases
  BY DEF CmdServed, MachineServed, MayFind, Phases
<1>4. PumpOther \/ RestoreSucceeds => phase' \in Phases
  BY DEF PumpOther, RestoreSucceeds, PumpConfigure, AfterConfigure, PumpClearDcd, PumpCommit,
         AfterCommit, RestoreFails, PumpNothing, MachineEnds, Phases
<1> QED
  BY <1>1, <1>2, <1>3, <1>4

LEMMA SessionStays ==
  ASSUME sess \in SessionStates, reports \in ReportSets, PumpOther \/ RestoreSucceeds
  PROVE  sess' \in SessionStates /\ reports' \in ReportSets
BY DEF PumpOther, RestoreSucceeds, PumpConfigure, PumpClearDcd, PumpCommit, RestoreFails,
       PumpNothing, NewReports, Faults, session, SessionStates, ReportSets

(* The owner's variables keep their types.                                 *)
LEMMA OwnerKept == ASSUME TypeInv, GateInv, [Next]_vars PROVE OwnerTypeOK'
<1> USE DEF TypeInv, TypeOK
<1>1. PlanTyped'
  BY PlanKept
<1>2. /\ status' \in {"running", "stopped", "completed", "error"}
      /\ step' \in {"start", "turn", "input", "service", "cleanup", "join", "exited"}
  BY DEF OwnerTypeOK, Next, Owner, Act, Input, InputWorker, vars, Start, PlanComplete, Stop,
     SessionFailed, PumpAdapter, BeginSettle, WaitSettle, Acquire, Acts, SettleFails, InputFails,
     Settled, NoLine, TakeLine, LineRefused, TakesLine, Inputs, Service, Cleanup,
     imu_console_request_stop, imu_console_join, OwnerFails, LoopEnds, ChipReset, WorkerTop,
     WorkerFlush, WorkerPoll, WorkerOffer, WorkerStep, WorkerEnds, Type, Signal, Over
<1>3. /\ gate' \in [stage : Identities \cup {"NONE"}, flushTicket : Nat]
  <2>1. CASE UNCHANGED gate
    BY <2>1 DEF OwnerTypeOK
  <2>2. CASE \E stage \in Identities \cup {"NONE"} : ArmGate(stage)
    BY <2>2, GateArms DEF OwnerTypeOK, WorkerTypeOK, GateInv
  <2>3. UNCHANGED gate \/ ArmGate("NONE") \/ ArmGate(s_active) \/ ArmGate(s_active')
    BY DEF Next, Owner, Act, Input, InputWorker, vars, ownerOnly, Start, PlanComplete, Stop,
       SessionFailed, PumpAdapter, BeginSettle, WaitSettle, Acquire, Acts, SettleFails,
       InputFails, Settled, NoLine, TakeLine, LineRefused, TakesLine, Inputs, Service, Cleanup,
       ChipReset, WorkerTop, WorkerFlush, WorkerPoll, WorkerOffer, WorkerStep, WorkerEnds, Type,
       Signal, Over
  <2> QED
    BY <1>1, <2>1, <2>2, <2>3 DEF PlanTyped
<1>4. restoredBy' \subseteq Composed
  <2>1. \/ UNCHANGED restoredBy
        \/ s_active \in Composed /\ restoredBy' = restoredBy \cup {s_active}
    BY DEF Next, Owner, Act, Input, InputWorker, vars, stageVars, Start, PlanComplete, Stop,
       SessionFailed, PumpAdapter, BeginSettle, WaitSettle, Acquire, SettleFails,
       InputFails, Settled, NoLine, TakeLine, LineRefused, TakesLine, Inputs, Service, Cleanup,
       ChipReset, WorkerTop, WorkerFlush, WorkerPoll, WorkerOffer, WorkerStep, WorkerEnds, Type,
       Signal, Over
  <2> QED
    BY <2>1 DEF OwnerTypeOK
<1>5. printed' \subseteq Identities
  <2>1. UNCHANGED printed \/ printed' = Ended'
    BY DEF Next, Owner, Act, Input, InputWorker, vars, ownerOnly, Start, PlanComplete, Stop,
       SessionFailed, PumpAdapter, BeginSettle, WaitSettle, Acquire, Acts, SettleFails,
       InputFails, Settled, NoLine, TakeLine, LineRefused, TakesLine, Inputs, Service, Cleanup,
       ChipReset, WorkerTop, WorkerFlush, WorkerPoll, WorkerOffer, WorkerStep, WorkerEnds, Type,
       Signal, Over
  <2> QED
    BY <2>1 DEF OwnerTypeOK, Ended
<1>6. phase' \in Phases
  <2>1. \/ UNCHANGED phase \/ TickArms \/ MachineTakesQ \/ MachineTakesConfirm \/ CmdServed
        \/ PumpOther \/ RestoreSucceeds
    BY DEF Next, Owner, Act, Input, InputWorker, vars, stageVars, Start, PlanComplete, Stop,
       SessionFailed, PumpAdapter, BeginSettle, WaitSettle, Acquire, SettleFails,
       InputFails, Settled, NoLine, TakeLine, LineRefused, TakesLine, Inputs, Service, Cleanup,
       ChipReset, WorkerTop, WorkerFlush, WorkerPoll, WorkerOffer, WorkerStep, WorkerEnds, Type,
       Signal, Over
  <2> QED
    BY <2>1, PhasesStay DEF OwnerTypeOK
<1>7. sess' \in SessionStates /\ reports' \in ReportSets
  <2>1. \/ UNCHANGED <<sess, reports>>
        \/ PumpOther \/ RestoreSucceeds
        \/ sess' \in {"SETTLING", "OPERATIONAL", "RECOVERING", "FAULTED"}
           /\ reports' \in {reports, "production", "none", "unknown"}
    BY DEF Next, Owner, Act, Input, InputWorker, vars, stageVars, session, Start, PlanComplete,
       Stop, SessionFailed, PumpAdapter, BeginSettle, WaitSettle, Acquire, SettleFails,
       InputFails, Settled, NoLine, TakeLine, LineRefused, TakesLine, Inputs, Service, Cleanup,
       ChipReset, ResetNoticed, begin_settle, mark_operational, Faults, NewReports, WorkerTop,
       WorkerFlush, WorkerPoll, WorkerOffer, WorkerStep, WorkerEnds, Type, Signal, Over
  <2> QED
    BY <2>1, SessionStays DEF OwnerTypeOK, SessionStates, ReportSets
<1> QED
  BY <1>2, <1>3, <1>4, <1>5, <1>6, <1>7 DEF OwnerTypeOK

(* The owner takes lines from the head of the queue, asks for flushes and  *)
(* for the stop, and leaves the rest of the console to the worker.         *)
OwnerTakes ==
  /\ queue' = queue \/ (queue # <<>> /\ queue' = Tail(queue))
  /\ \/ UNCHANGED <<gate, flushRequested>>
     \/ \E stage \in Identities \cup {"NONE"} : ArmGate(stage)
  /\ UNCHANGED <<tty, typed, flushAcknowledged, worker>>

LEMMA OwnerOrWorker ==
  ASSUME PlanTyped, [Next]_vars
  PROVE  OwnerTakes \/ InputWorker \/ (\E failed \in BOOLEAN : WorkerEnds(failed))
           \/ (\E key \in Keys : Type(key))
<1>1. PlanTyped'
  BY PlanKept
<1>2. CASE \/ UNCHANGED vars \/ Start \/ PlanComplete \/ Stop \/ Act \/ Cleanup \/ ChipReset
           \/ Signal \/ Over \/ SettleFails \/ InputFails
  BY <1>2 DEF vars, ownerOnly, console, flush, Start, PlanComplete, Stop, Act, SessionFailed,
     PumpAdapter, BeginSettle, WaitSettle, Acquire, Acts, Cleanup, ChipReset, Signal, Over,
     SettleFails, InputFails, Inputs, OwnerTakes
<1>3. CASE Settled \/ NoLine \/ TakeLine \/ LineRefused \/ Service
  <2>1. /\ queue' = queue \/ (queue # <<>> /\ queue' = Tail(queue))
        /\ \/ UNCHANGED <<gate, flushRequested>>
           \/ ArmGate("NONE") \/ ArmGate(s_active) \/ ArmGate(s_active')
        /\ UNCHANGED <<tty, typed, flushAcknowledged, worker>>
    BY <1>3 DEF Settled, NoLine, TakeLine, LineRefused, TakesLine, Inputs, Service
  <2> QED
    BY <1>1, <2>1 DEF OwnerTakes, PlanTyped
<1> QED
  BY <1>2, <1>3 DEF Next, Owner, Input

(* The console's variables keep their types.                               *)
LEMMA WorkerKept ==
  ASSUME TypeInv, GateInv, [Next]_vars
  PROVE  WorkerTypeOK' /\ WorkerCarries'
<1>1. /\ tty \in Seq(Lines) /\ typed \in 0..MaxLines
      /\ queue \in Seq(Lines) /\ Len(queue) <= QueueCapacity
      /\ flushRequested \in Nat /\ flushAcknowledged \in 0..flushRequested
      /\ worker.pc \in {"top", "flush", "poll", "offer", "done"}
      /\ WorkerCarries
      /\ gate \in [stage : Identities \cup {"NONE"}, flushTicket : Nat]
      /\ gate.flushTicket = flushRequested
      /\ PlanTyped
  BY DEF TypeInv, TypeOK, WorkerTypeOK, OwnerTypeOK, GateInv
<1>2. MaxLines \in Nat /\ QueueCapacity \in Nat \ {0}
  BY AppAssumption DEF AppAssumption
<1>3. CASE OwnerTakes
  <2>1. flushRequested' \in Nat /\ flushRequested <= flushRequested'
    BY <1>1, <1>3, GateArms DEF OwnerTakes
  <2>2. queue' \in Seq(Lines) /\ Len(queue') <= QueueCapacity
    <3>1. CASE queue' = queue
      BY <1>1, <3>1
    <3>2. CASE queue # <<>> /\ queue' = Tail(queue)
      BY <1>1, <1>2, <3>2
    <3> QED
      BY <1>3, <3>1, <3>2 DEF OwnerTakes
  <2>3. UNCHANGED <<tty, typed, flushAcknowledged, worker>>
    BY <1>3 DEF OwnerTakes
  <2>4. flushAcknowledged' \in 0..flushRequested'
    BY <1>1, <2>1, <2>3
  <2>5. WorkerCarries'
    BY <1>1, <2>1, <2>3 DEF WorkerCarries
  <2>6. /\ tty' \in Seq(Lines) /\ typed' \in 0..MaxLines
        /\ worker'.pc \in {"top", "flush", "poll", "offer", "done"}
    BY <1>1, <2>3
  <2> QED
    BY <2>1, <2>2, <2>4, <2>5, <2>6 DEF WorkerTypeOK
<1>4. CASE WorkerTop
  <2>1. /\ UNCHANGED <<typed, queue, flushRequested, flushAcknowledged>>
        /\ tty' = tty \/ tty' = <<>>
        /\ worker' \in {[pc |-> "done"], [pc |-> "poll"],
                        [pc |-> "flush", requested |-> flushRequested]}
    BY <1>4 DEF WorkerTop, WorkerStep
  <2>2. /\ worker'.pc \in {"done", "poll", "flush"}
        /\ worker'.pc = "flush" => worker'.requested = flushRequested
    BY <2>1
  <2>3. flushRequested \in 0..flushRequested /\ tty' \in Seq(Lines)
    <3>1. flushRequested \in 0..flushRequested
      BY <1>1
    <3>2. <<>> \in Seq(Lines)
      OBVIOUS
    <3> QED
      BY <1>1, <2>1, <3>1, <3>2
  <2>4. WorkerCarries'
    BY <2>1, <2>2, <2>3 DEF WorkerCarries
  <2> QED
    BY <1>1, <2>1, <2>2, <2>3, <2>4 DEF WorkerTypeOK
<1>5. CASE WorkerFlush
  <2>1. /\ UNCHANGED <<typed, tty, flushRequested>>
        /\ queue' = <<>>
        /\ flushAcknowledged' = worker.requested /\ worker.pc = "flush"
        /\ worker' = [pc |-> "top"]
    BY <1>5 DEF WorkerFlush, WorkerStep
  <2>2. worker.requested \in 0..flushRequested
    BY <1>1, <2>1 DEF WorkerCarries
  <2>3. queue' \in Seq(Lines) /\ Len(queue') <= QueueCapacity
    BY <1>2, <2>1
  <2>4. WorkerCarries' /\ worker'.pc = "top"
    BY <2>1 DEF WorkerCarries
  <2>5. /\ tty' \in Seq(Lines) /\ typed' \in 0..MaxLines
        /\ flushRequested' \in Nat /\ flushAcknowledged' \in 0..flushRequested'
    BY <1>1, <2>1, <2>2
  <2> QED
    BY <2>3, <2>4, <2>5 DEF WorkerTypeOK
<1>6. CASE WorkerPoll
  <2>1. /\ UNCHANGED <<typed, queue, flushRequested, flushAcknowledged>>
        /\ \/ worker' = [pc |-> "top"] /\ UNCHANGED tty
           \/ /\ tty # <<>> /\ tty' = Tail(tty)
              /\ worker' = [pc |-> "offer", line |-> Head(tty)]
    BY <1>6 DEF WorkerPoll, WorkerStep
  <2>2. tty # <<>> => Head(tty) \in Lines /\ Tail(tty) \in Seq(Lines)
    BY <1>1
  <2>3. tty' \in Seq(Lines)
    BY <1>1, <2>1, <2>2
  <2>4. /\ worker'.pc \in {"top", "offer"}
        /\ worker'.pc = "offer" => worker'.line \in Lines
    BY <2>1, <2>2
  <2>5. WorkerCarries'
    BY <2>4 DEF WorkerCarries
  <2> QED
    BY <1>1, <2>1, <2>3, <2>4, <2>5 DEF WorkerTypeOK
<1>7. CASE WorkerOffer
  <2>1. /\ UNCHANGED <<typed, tty, flushRequested, flushAcknowledged>>
        /\ \/ UNCHANGED queue
           \/ Len(queue) < QueueCapacity /\ queue' = Append(queue, worker.line)
        /\ worker' = [pc |-> "top"] /\ worker.pc = "offer"
    BY <1>7 DEF WorkerOffer, WorkerStep
  <2>2. worker.line \in Lines
    BY <1>1, <2>1 DEF WorkerCarries
  <2>3. queue' \in Seq(Lines) /\ Len(queue') <= QueueCapacity
    BY <1>1, <1>2, <2>1, <2>2
  <2> QED
    BY <1>1, <2>1, <2>3 DEF WorkerTypeOK, WorkerCarries
<1>8. CASE \E failed \in BOOLEAN : WorkerEnds(failed)
  <2>1. /\ UNCHANGED <<typed, tty, queue, flushRequested, flushAcknowledged>>
        /\ worker' = [pc |-> "done"]
    BY <1>8 DEF WorkerEnds, WorkerStep
  <2> QED
    BY <1>1, <2>1 DEF WorkerTypeOK, WorkerCarries
<1>9. ASSUME NEW key \in Keys, Type(key)
      PROVE  WorkerTypeOK' /\ WorkerCarries'
  <2>1. /\ UNCHANGED <<queue, flush, worker>>
        /\ typed < MaxLines /\ typed' = typed + 1
        /\ tty' = Append(tty, [key |-> key, at |-> s_active])
    BY <1>9 DEF Type
  <2>2. [key |-> key, at |-> s_active] \in Lines
    BY <1>1 DEF PlanTyped, Lines
  <2>3. tty' \in Seq(Lines) /\ typed' \in 0..MaxLines
    BY <1>1, <1>2, <2>1, <2>2
  <2> QED
    BY <1>1, <2>1, <2>3 DEF WorkerTypeOK, WorkerCarries, flush
<1> QED
  BY <1>1, <1>3, <1>4, <1>5, <1>6, <1>7, <1>8, <1>9, OwnerOrWorker DEF InputWorker

LEMMA TypeKept == ASSUME TypeInv, GateInv, [Next]_vars PROVE TypeInv'
<1>1. OwnerTypeOK'
  BY OwnerKept
<1>2. WorkerTypeOK' /\ WorkerCarries'
  BY WorkerKept
<1>3. PlanTyped'
  BY PlanKept DEF TypeInv
<1> QED
  BY <1>1, <1>2, <1>3 DEF TypeInv, TypeOK

-----------------------------------------------------------------------------
(* The boundary between two stages                                         *)

(* The owner's steps: a flush asked for leaves nothing claimed, and a line *)
(* taken leaves the rest of the queue.                                     *)
LEMMA OwnerKeepsLines ==
  ASSUME TypeInv, GateInv, LinesInv, OwnerTakes,
         UNCHANGED gate /\ Running' /\ gate.stage = s_active' => Running /\ gate.stage = s_active
  PROVE  /\ LinesInv'
         /\ gate'.flushTicket = flushRequested'
         /\ worker'.pc = "flush" => worker'.requested > flushAcknowledged'
<1>1. /\ queue \in Seq(Lines) /\ flushRequested \in Nat /\ flushAcknowledged \in 0..flushRequested
      /\ gate \in [stage : Identities \cup {"NONE"}, flushTicket : Nat]
      /\ gate.flushTicket = flushRequested
      /\ worker.pc = "flush" => worker.requested \in 0..flushRequested
      /\ worker.pc = "flush" => worker.requested > flushAcknowledged
  BY DEF TypeInv, TypeOK, OwnerTypeOK, WorkerTypeOK, WorkerCarries, GateInv
<1>2. UNCHANGED <<tty, flushAcknowledged, worker>>
  BY DEF OwnerTakes
<1>3. CASE UNCHANGED <<gate, flushRequested>>
  <2>1. SUFFICES ASSUME Running' /\ gate'.stage = s_active'
                 PROVE  LinesInv'
    BY <1>1, <1>2, <1>3 DEF LinesInv
  <2>2. Running /\ gate.stage = s_active /\ UNCHANGED s_active
    BY <1>3, <2>1
  <2>3. OfStage(queue, s_active) => OfStage(queue', s_active)
    <3>1. CASE queue' = queue
      BY <3>1
    <3>2. CASE queue # <<>> /\ queue' = Tail(queue)
      <4>1. /\ Len(queue') = Len(queue) - 1 /\ Len(queue) \in Nat
            /\ \A k \in 1..Len(queue') : queue'[k] = queue[k + 1]
        BY <1>1, <3>2, HeadTailProperties
      <4> QED
        BY <4>1 DEF OfStage
    <3> QED
      BY <3>1, <3>2 DEF OwnerTakes
  <2> QED
    BY <1>2, <1>3, <2>2, <2>3 DEF LinesInv, FlushDone, FlushUnderWay, OfStage
<1>4. CASE ~UNCHANGED <<gate, flushRequested>>
  <2>1. flushRequested' = flushRequested + 1 /\ gate'.flushTicket = flushRequested'
    BY <1>1, <1>4, GateArms DEF OwnerTakes
  <2>2. ~FlushDone' /\ ~FlushUnderWay'
    BY <1>1, <1>2, <2>1 DEF FlushDone, FlushUnderWay
  <2> QED
    BY <1>1, <1>2, <2>1, <2>2 DEF LinesInv
<1> QED
  BY <1>3, <1>4

(* The worker's steps, and the operator's.                                 *)
LEMMA WorkerKeepsLines ==
  ASSUME TypeInv, BoundaryInv,
         InputWorker \/ (\E failed \in BOOLEAN : WorkerEnds(failed)) \/ (\E key \in Keys : Type(key))
  PROVE  BoundaryInv'
<1>1. /\ queue \in Seq(Lines) /\ tty \in Seq(Lines)
      /\ flushRequested \in Nat /\ flushAcknowledged \in 0..flushRequested
      /\ worker.pc = "flush" => worker.requested \in 0..flushRequested
      /\ worker.pc = "flush" => worker.requested > flushAcknowledged
  BY DEF TypeInv, TypeOK, WorkerTypeOK, WorkerCarries, BoundaryInv, GateInv
<1>2. UNCHANGED <<status, step, gate, s_active, s_complete, flushRequested>>
  BY DEF InputWorker, WorkerTop, WorkerFlush, WorkerPoll, WorkerOffer, WorkerEnds, WorkerStep, Type,
         ownerOnly, stageVars, coordinator, flush
<1>3. Running' = Running
  BY <1>2 DEF Running
<1>4. CASE WorkerTop
  <2>1. /\ UNCHANGED <<queue, flushAcknowledged>>
        /\ \/ worker' = [pc |-> "done"] /\ UNCHANGED tty
           \/ worker' = [pc |-> "poll"] /\ UNCHANGED tty
           \/ /\ worker' = [pc |-> "flush", requested |-> flushRequested]
              /\ tty' = <<>> /\ flushRequested # flushAcknowledged
        /\ worker.pc = "top"
    BY <1>4 DEF WorkerTop, WorkerStep
  <2>2. /\ worker'.pc \in {"done", "poll", "flush"}
        /\ worker'.pc = "flush" => /\ worker'.requested = flushRequested
                                   /\ flushRequested # flushAcknowledged
                                   /\ tty' = <<>>
        /\ worker'.pc # "flush" => UNCHANGED tty
    BY <2>1
  <2>3. GateInv'
    BY <1>1, <1>2, <1>3, <2>1, <2>2 DEF BoundaryInv, GateInv
  <2>4. OfStage(<<>>, s_active)
    BY DEF OfStage
  <2>5. LinesInv'
    BY <1>1, <1>2, <1>3, <2>1, <2>2, <2>4 DEF BoundaryInv, LinesInv, FlushDone, FlushUnderWay
  <2> QED
    BY <2>3, <2>5 DEF BoundaryInv
<1>5. CASE WorkerFlush
  <2>1. /\ UNCHANGED tty /\ queue' = <<>>
        /\ flushAcknowledged' = worker.requested /\ worker.pc = "flush"
        /\ worker' = [pc |-> "top"]
    BY <1>5 DEF WorkerFlush, WorkerStep
  <2>2. worker'.pc = "top" /\ OfStage(<<>>, s_active)
    BY <2>1 DEF OfStage
  <2>3. GateInv'
    BY <1>2, <1>3, <2>2 DEF BoundaryInv, GateInv
  <2>4. LinesInv'
    BY <1>1, <1>2, <1>3, <2>1, <2>2 DEF BoundaryInv, LinesInv, FlushDone, FlushUnderWay
  <2> QED
    BY <2>3, <2>4 DEF BoundaryInv
<1>6. CASE WorkerPoll
  <2>1. /\ UNCHANGED <<queue, flushAcknowledged>>
        /\ \/ worker' = [pc |-> "top"] /\ UNCHANGED tty
           \/ /\ tty # <<>> /\ tty' = Tail(tty)
              /\ worker' = [pc |-> "offer", line |-> Head(tty)]
        /\ worker.pc = "poll"
    BY <1>6 DEF WorkerPoll, WorkerStep
  <2>2. worker'.pc \in {"top", "offer"}
    BY <2>1
  <2>3. OfStage(tty, s_active) =>
          /\ OfStage(tty', s_active)
          /\ worker'.pc = "offer" => worker'.line.at = s_active
    <3>1. CASE UNCHANGED tty /\ worker' = [pc |-> "top"]
      BY <3>1
    <3>2. CASE tty # <<>> /\ tty' = Tail(tty) /\ worker' = [pc |-> "offer", line |-> Head(tty)]
      <4>1. /\ Len(tty') = Len(tty) - 1 /\ Len(tty) \in Nat \ {0}
            /\ \A k \in 1..Len(tty') : tty'[k] = tty[k + 1]
            /\ Head(tty) = tty[1]
        BY <1>1, <3>2, HeadTailProperties, EmptySeq
      <4> QED
        BY <3>2, <4>1 DEF OfStage
    <3> QED
      BY <2>1, <3>1, <3>2
  <2>4. GateInv'
    BY <1>2, <1>3, <2>1, <2>2 DEF BoundaryInv, GateInv
  <2>5. LinesInv'
    BY <1>2, <1>3, <2>1, <2>2, <2>3 DEF BoundaryInv, LinesInv, FlushDone, FlushUnderWay
  <2> QED
    BY <2>4, <2>5 DEF BoundaryInv
<1>7. CASE WorkerOffer
  <2>1. /\ UNCHANGED <<tty, flushAcknowledged>>
        /\ UNCHANGED queue \/ queue' = Append(queue, worker.line)
        /\ worker' = [pc |-> "top"] /\ worker.pc = "offer"
    BY <1>7 DEF WorkerOffer, WorkerStep
  <2>2. worker.line \in Lines /\ worker'.pc = "top"
    BY <2>1 DEF TypeInv, WorkerCarries
  <2>3. OfStage(queue, s_active) /\ worker.line.at = s_active => OfStage(queue', s_active)
    <3>1. CASE queue' = Append(queue, worker.line)
      <4>1. /\ Len(queue') = Len(queue) + 1 /\ Len(queue) \in Nat
            /\ \A k \in 1..Len(queue) : queue'[k] = queue[k]
            /\ queue'[Len(queue) + 1] = worker.line
        BY <1>1, <2>2, <3>1, AppendProperties
      <4> QED
        BY <4>1 DEF OfStage
    <3> QED
      BY <2>1, <3>1
  <2>4. GateInv'
    BY <1>2, <1>3, <2>1, <2>2 DEF BoundaryInv, GateInv
  <2>5. LinesInv'
    BY <1>2, <1>3, <2>1, <2>2, <2>3 DEF BoundaryInv, LinesInv, FlushDone, FlushUnderWay
  <2> QED
    BY <2>4, <2>5 DEF BoundaryInv
<1>8. CASE \E failed \in BOOLEAN : WorkerEnds(failed)
  <2>1. UNCHANGED <<tty, queue, flushAcknowledged>> /\ worker' = [pc |-> "done"]
    BY <1>8 DEF WorkerEnds, WorkerStep
  <2>2. worker'.pc = "done"
    BY <2>1
  <2> QED
    BY <1>2, <1>3, <2>1, <2>2 DEF BoundaryInv, GateInv, LinesInv, FlushDone, FlushUnderWay
<1>9. ASSUME NEW key \in Keys, Type(key)
      PROVE  BoundaryInv'
  <2>1. /\ UNCHANGED <<queue, flushAcknowledged, worker>>
        /\ tty' = Append(tty, [key |-> key, at |-> s_active])
    BY <1>9 DEF Type, flush
  <2>2. [key |-> key, at |-> s_active] \in Lines
    BY DEF TypeInv, PlanTyped, Lines
  <2>3. OfStage(tty, s_active) => OfStage(tty', s_active)
    <3>1. /\ Len(tty') = Len(tty) + 1 /\ Len(tty) \in Nat
          /\ \A k \in 1..Len(tty) : tty'[k] = tty[k]
          /\ tty'[Len(tty) + 1] = [key |-> key, at |-> s_active]
      BY <1>1, <2>1, <2>2, AppendProperties
    <3> QED
      BY <3>1 DEF OfStage
  <2> QED
    BY <1>2, <1>3, <2>1, <2>3 DEF BoundaryInv, GateInv, LinesInv, FlushDone, FlushUnderWay
<1> QED
  BY <1>4, <1>5, <1>6, <1>7, <1>8, <1>9 DEF InputWorker

(* The owner's steps that leave gate and stage alone, or end the loop.     *)
LEMMA OwnerStays ==
  ASSUME TypeInv, BoundaryInv, OwnerTakes, UNCHANGED gate,
         Running' => /\ Running
                     /\ UNCHANGED s_active
                     /\ gate.stage = s_active \/ step' = "input",
         step' = "start" => step = "start" /\ UNCHANGED <<s_active, s_complete>>
  PROVE  BoundaryInv'
<1>1. /\ LinesInv'
      /\ gate'.flushTicket = flushRequested'
      /\ worker'.pc = "flush" => worker'.requested > flushAcknowledged'
  BY OwnerKeepsLines DEF BoundaryInv
<1> QED
  BY <1>1 DEF BoundaryInv, GateInv

(* A line reaches the owner only in the stage it was typed in, whatever    *)
(* the owner does.                                                         *)
LEMMA OwnerKeepsBoundary ==
  ASSUME TypeInv, BoundaryInv, OwnerTakes,
         Owner \/ ChipReset \/ Signal \/ Over \/ UNCHANGED vars
  PROVE  BoundaryInv'
<1>1. CASE \/ UNCHANGED vars \/ PlanComplete \/ Stop \/ SessionFailed \/ PumpAdapter
           \/ WaitSettle \/ BeginSettle \/ Cleanup \/ ChipReset \/ Signal \/ Over
           \/ SettleFails \/ InputFails
  <2>1. UNCHANGED gate
    BY <1>1 DEF vars, ownerOnly, PlanComplete, Stop, SessionFailed, PumpAdapter, WaitSettle,
       BeginSettle, Acts, Cleanup, ChipReset, Signal, Over, SettleFails, InputFails, Inputs
  <2>2. \/ UNCHANGED <<status, step>>
        \/ Running /\ status' # "running" /\ step' # "start"
        \/ Running /\ step = "turn" /\ step' = "input" /\ UNCHANGED status
        \/ step \in {"cleanup", "join"} /\ UNCHANGED status /\ step' \in {"join", "exited"}
    BY <1>1 DEF vars, PlanComplete, Stop, SessionFailed, PumpAdapter, WaitSettle, BeginSettle,
       Acts, At, Running, LoopEnds, OwnerFails, Cleanup, imu_console_request_stop,
       imu_console_join, ChipReset, Signal, Over, SettleFails, InputFails, Inputs
  <2>3. Running' => UNCHANGED s_active
    <3>1. CASE \/ UNCHANGED vars \/ PlanComplete \/ WaitSettle \/ Cleanup \/ ChipReset \/ Signal
               \/ Over
      BY <3>1 DEF vars, stageVars, coordinator, PlanComplete, WaitSettle, Cleanup, ChipReset,
         Signal, Over
    <3>2. CASE PumpAdapter
      BY <3>2 DEF PumpAdapter, TickArms, Cmd!post_tick, PumpOther, PumpConfigure, PumpClearDcd,
         PumpCommit, RestoreFails, PumpNothing, RestoreSucceeds, MachineEnds,
         Cmd!MachineFinishes, coordinator
    <3>3. CASE BeginSettle
      BY <3>3 DEF BeginSettle, TickArms, Cmd!post_tick, OwnerFails, Running
    <3>4. CASE Stop \/ SessionFailed \/ SettleFails \/ InputFails
      BY <3>4 DEF Stop, SessionFailed, SettleFails, InputFails, Inputs, LoopEnds, OwnerFails,
         Running
    <3> QED
      BY <1>1, <3>1, <3>2, <3>3, <3>4
  <2>4. step = "start" /\ step' = "start" => UNCHANGED <<s_active, s_complete>>
    BY <1>1 DEF vars, stageVars, coordinator, PlanComplete, Stop, SessionFailed, PumpAdapter,
       WaitSettle, BeginSettle, Acts, At, LoopEnds, OwnerFails, Cleanup,
       imu_console_request_stop, imu_console_join, ChipReset, Signal, Over, SettleFails,
       InputFails, Inputs
  <2>5. CASE UNCHANGED <<status, step>>
    <3>1. CASE Running'
      BY <2>1, <2>3, <2>4, <2>5, <3>1, OwnerStays DEF BoundaryInv, GateInv, Running
    <3>2. CASE ~Running'
      BY <2>1, <2>4, <2>5, <3>2, OwnerStays
    <3> QED
      BY <3>1, <3>2
  <2>6. CASE ~UNCHANGED <<status, step>>
    <3>1. Running' => /\ Running /\ UNCHANGED s_active
                      /\ gate.stage = s_active \/ step' = "input"
      BY <2>2, <2>3, <2>6 DEF Running, BoundaryInv, GateInv
    <3>2. step' # "start"
      BY <2>2, <2>6
    <3> QED
      BY <2>1, <3>1, <3>2, OwnerStays
  <2> QED
    BY <2>5, <2>6
<1>2. CASE Start
  <2>1. /\ UNCHANGED gate /\ Running /\ step = "start" /\ step' # "start"
        /\ Running' => s_active' = "NONE"
    BY <1>2 DEF Start, At, ownerOnly, Cmd!imu_cmd_init, OwnerFails, Running
  <2>2. s_active = "NONE" /\ gate.stage = s_active
    BY <2>1 DEF BoundaryInv, GateInv
  <2> QED
    BY <2>1, <2>2, OwnerStays
<1>3. CASE Acquire
  <2>1. /\ UNCHANGED gate /\ Running /\ step = "turn" /\ step' = "input"
        /\ \/ UNCHANGED s_active
           \/ s_active = "ACQUISITION" /\ s_active' = "NONE"
    BY <1>3 DEF Acquire, Acts, At, TickArms, Cmd!post_tick, Cmd!finish_active, coordinator
  <2>2. gate.stage = s_active
    BY <2>1 DEF BoundaryInv, GateInv
  <2>3. CASE UNCHANGED s_active
    BY <2>1, <2>2, <2>3, OwnerStays
  <2>4. CASE s_active = "ACQUISITION" /\ s_active' = "NONE"
    <3>1. /\ LinesInv'
          /\ gate'.flushTicket = flushRequested'
          /\ worker'.pc = "flush" => worker'.requested > flushAcknowledged'
      BY <2>1, <2>2, <2>4, OwnerKeepsLines DEF BoundaryInv
    <3> QED
      BY <2>1, <2>4, <3>1 DEF BoundaryInv, GateInv
  <2> QED
    BY <2>1, <2>3, <2>4
<1>4. CASE TakeLine \/ LineRefused
  <2>1. /\ UNCHANGED gate /\ Running /\ step' # "start" /\ gate.stage = s_active
        /\ Running' => UNCHANGED s_active
    BY <1>4 DEF TakeLine, LineRefused, TakesLine, Inputs, At, Ready, MachineTakesQ, Cmd!post_q,
       MachineTakesConfirm, coordinator, OwnerFails, Running
  <2> QED
    BY <2>1, OwnerStays
<1>5. ASSUME Settled \/ NoLine \/ Service
      PROVE  BoundaryInv'
  <2>1. /\ Running /\ step' # "start" /\ s_active' \in Identities \cup {"NONE"}
        /\ ArmGate(s_active')
        /\ UNCHANGED s_active \/ s_active' = "NONE" \/ step = "service"
    <3>1. s_active' \in Identities \cup {"NONE"}
      BY PlanKept DEF TypeInv, PlanTyped, Next
    <3>2. CASE Settled
      BY <3>1, <3>2 DEF Settled, Inputs, At, Cmd!post_settle_done, Cmd!finish_active
    <3>3. CASE NoLine
      BY <3>1, <3>3 DEF NoLine, Inputs, At, coordinator
    <3>4. CASE Service
      BY <3>1, <3>4 DEF Service, At, OwnerFails
    <3> QED
      BY <1>5, <3>2, <3>3, <3>4
  <2>2. gate'.stage = s_active'
    BY <2>1, GateArms DEF TypeInv, TypeOK, OwnerTypeOK, WorkerTypeOK, BoundaryInv, GateInv
  <2>3. UNCHANGED gate => gate.stage = s_active
    <3>1. SUFFICES ASSUME UNCHANGED gate, gate.stage # s_active
                   PROVE  FALSE
      OBVIOUS
    <3>2. step = "input" /\ s_active = "NONE" /\ gate.stage = s_active'
      BY <2>1, <2>2, <3>1 DEF BoundaryInv, GateInv
    <3> QED
      BY <2>1, <3>1, <3>2
  <2>4. /\ LinesInv'
        /\ gate'.flushTicket = flushRequested'
        /\ worker'.pc = "flush" => worker'.requested > flushAcknowledged'
    BY <2>1, <2>3, OwnerKeepsLines DEF BoundaryInv
  <2> QED
    BY <2>1, <2>2, <2>4 DEF BoundaryInv, GateInv
<1> QED
  BY <1>1, <1>2, <1>3, <1>4, <1>5 DEF Owner, Act, Input

LEMMA BoundaryKept == ASSUME TypeInv, BoundaryInv, [Next]_vars PROVE BoundaryInv'
BY OwnerOrWorker, OwnerKeepsBoundary, WorkerKeepsLines DEF TypeInv, Next

-----------------------------------------------------------------------------
(* The machine of the stage                                                *)

(* A machine's result is a result of the coordinator.                      *)
LEMMA ResultTypes ==
  ASSUME NEW id \in Composed
  PROVE  /\ MachineResults(id) \subseteq Results
         /\ Result("RECOVERY_FAILED", TRUE) \in Results
         /\ \A r \in MachineResults(id) : r.state # "RUNNING"
         /\ \A r \in MachineResults(id) :
              r.state = "RECOVERY_FAILED" => r = Result("RECOVERY_FAILED", TRUE)
         /\ \E r \in MachineResults(id) : r.state = "CANCELLED"
<1>1. \A state \in Terminal, warning \in BOOLEAN :
        /\ Result(state, warning) \in Results
        /\ Result(state, warning).state = state
  BY DEF Result, Results
<1>2. \A r \in MachineResults(id) :
        \/ r = Result("RECOVERY_FAILED", TRUE)
        \/ \E state \in Terminal \ {"RECOVERY_FAILED"}, warning \in BOOLEAN :
             r = Result(state, warning)
  BY DEF MachineResults, Terminal
<1>3. "RUNNING" \notin Terminal /\ {"CANCELLED", "RECOVERY_FAILED"} \subseteq Terminal
  BY DEF Terminal
<1>4. Result("CANCELLED", TRUE) \in MachineResults(id)
        \/ Result("CANCELLED", FALSE) \in MachineResults(id)
  BY DEF MachineResults
<1>5. MachineResults(id) \subseteq Results /\ Result("RECOVERY_FAILED", TRUE) \in Results
  BY <1>1, <1>2, <1>3
<1>6. \A r \in MachineResults(id) :
        /\ r.state # "RUNNING"
        /\ r.state = "RECOVERY_FAILED" => r = Result("RECOVERY_FAILED", TRUE)
  <2> SUFFICES ASSUME NEW r \in MachineResults(id)
               PROVE  /\ r.state # "RUNNING"
                      /\ r.state = "RECOVERY_FAILED" => r = Result("RECOVERY_FAILED", TRUE)
    OBVIOUS
  <2>1. CASE r = Result("RECOVERY_FAILED", TRUE)
    <3>1. r.state = "RECOVERY_FAILED"
      BY <2>1 DEF Result
    <3> QED
      BY <2>1, <3>1
  <2>2. CASE r # Result("RECOVERY_FAILED", TRUE)
    <3>1. PICK state \in Terminal \ {"RECOVERY_FAILED"}, warning \in BOOLEAN :
            r = Result(state, warning)
      BY <1>2, <2>2
    <3>2. r.state = state
      BY <3>1 DEF Result
    <3> QED
      BY <1>3, <3>2
  <2> QED
    BY <2>1, <2>2
<1>7. \E r \in MachineResults(id) : r.state = "CANCELLED"
  BY <1>1, <1>3, <1>4
<1> QED
  BY <1>5, <1>6, <1>7

(* The coordinator's machine is given a result.                            *)
LEMMA EndKeeps ==
  ASSUME PhaseInv, NEW r \in Results, r.state # "RUNNING", s_active \in Composed, s_armed,
         machine' = [machine EXCEPT !.result = r], phase' = "done",
         UNCHANGED <<s_active, s_armed, s_complete>>
  PROVE  PhaseInv' /\ machine'.result = r
<1>1. /\ machine' \in [id : Composed \cup {"NONE"}, result : Results]
      /\ machine'.id = machine.id /\ machine'.result = r
  BY DEF PhaseInv
<1> QED
  BY <1>1 DEF PhaseInv

(* Steps that leave the stage, its machine and the session alone.          *)
LEMMA StillKeeps ==
  ASSUME SettledInProduction, Running => PhaseInv /\ SessionInv, Running' => Running,
         UNCHANGED <<stageVars, productionConfigured>>
  PROVE  ProductionInv'
<1>1. UNCHANGED <<phase, sess, reports, restoredBy, s_active, s_armed, s_complete, machine>>
  BY DEF stageVars, session, coordinator
<1>2. SettledInProduction'
  BY <1>1 DEF SettledInProduction
<1>3. PhaseInv => PhaseInv'
  BY <1>1 DEF PhaseInv
<1>4. SessionInv => SessionInv'
  BY <1>1 DEF SessionInv, MachineLeftIt, Held
<1> QED
  BY <1>2, <1>3, <1>4 DEF ProductionInv

(* The first TICK of a stage gives it a machine that runs.                 *)
LEMMA ArmKeeps ==
  ASSUME PhaseInv, SessionInv, TickArms
  PROVE  /\ PhaseInv'
         /\ UNCHANGED <<s_active, s_complete>> /\ ~s_complete
         /\ Held
<1>1. /\ s_active # "NONE" /\ ~s_armed /\ s_armed' = TRUE
      /\ UNCHANGED <<s_active, s_complete>>
      /\ machine' = IF s_active \in Composed
                    THEN [id |-> s_active, result |-> Result("RUNNING", FALSE)]
                    ELSE machine
      /\ phase' = FirstPhase
  <2>1. /\ s_active # "NONE" /\ ~s_armed /\ Cmd!post_tick(FALSE)
        /\ phase' = FirstPhase
    BY DEF TickArms
  <2>2. /\ s_armed' = TRUE
        /\ UNCHANGED <<s_active, s_complete>>
        /\ machine' = IF s_active \in Composed
                      THEN [id |-> s_active, result |-> Result("RUNNING", FALSE)]
                      ELSE machine
    BY <2>1 DEF Cmd!post_tick, Cmd!Composed, Cmd!Result, Composed, Result, Cmd!Slot1, Cmd!Slot2,
                Cmd!Slot3, Slot1, Slot2, Slot3
  <2> QED
    BY <2>1, <2>2
<1>2. /\ s_active \in Composed => phase' \in {"confirm", "config"}
      /\ s_active \notin Composed => phase' = "none"
  BY <1>1 DEF FirstPhase, Composed, Slot1, Slot2, Slot3
<1>3. PhaseInv'
  <2>1. Result("RUNNING", FALSE) \in Results /\ Result("RUNNING", FALSE).state = "RUNNING"
    BY DEF Result, Results
  <2>2. machine' \in [id : Composed \cup {"NONE"}, result : Results]
    BY <1>1, <2>1 DEF PhaseInv
  <2> QED
    BY <1>1, <1>2, <2>1, <2>2 DEF PhaseInv
<1>4. ~s_complete /\ MachineLeftIt
  BY <1>1 DEF PhaseInv, MachineLeftIt
<1> QED
  BY <1>1, <1>3, <1>4 DEF SessionInv

(* A line's q ends an untouched stage at once, and any other by its        *)
(* restore; a confirmation goes on from a prompt.                          *)
LEMMA LineKeeps ==
  ASSUME SettledInProduction, PhaseInv, SessionInv,
         UNCHANGED <<session, restoredBy, productionConfigured>>,
         MachineTakesQ \/ MachineTakesConfirm
  PROVE  SettledInProduction' /\ PhaseInv' /\ SessionInv'
<1>1. UNCHANGED <<sess, reports>>
  BY DEF session
<1>2. SettledInProduction'
  BY <1>1 DEF SettledInProduction
<1>3. CASE MachineTakesQ /\ Untouched
  <2>1. /\ s_active \in Composed /\ s_armed
        /\ machine' = [machine EXCEPT !.result =
             CHOOSE r \in MachineResults(s_active) : r.state = "CANCELLED"]
        /\ phase' = "done"
        /\ UNCHANGED <<s_active, s_armed, s_complete>>
    BY <1>3 DEF MachineTakesQ, Cmd!post_q, Cmd!MachineRunning, Cmd!Composed, Cmd!Slot1, Cmd!Slot2,
                Cmd!Slot3, Composed, Slot1, Slot2, Slot3, Cmd!MachineResults, MachineResults,
                Cmd!Result, Result
  <2>2. PICK r \in Results : /\ r.state = "CANCELLED"
                             /\ machine' = [machine EXCEPT !.result = r]
    BY <2>1, ResultTypes
  <2>3. PhaseInv'
    BY <2>1, <2>2, EndKeeps
  <2>4. MachineLeftIt
    BY <1>3 DEF Untouched, MachineLeftIt
  <2>5. SessionInv'
    BY <1>1, <2>1, <2>4 DEF SessionInv, Held
  <2> QED
    BY <1>2, <2>3, <2>5
<1>4. CASE ~(MachineTakesQ /\ Untouched)
  <2>1. /\ UNCHANGED coordinator
        /\ \/ phase' = phase
           \/ /\ phase # "done" /\ s_active \in Composed /\ ~Unarmed
              /\ phase' = "restore"
           \/ phase = "confirm" /\ phase' = "config"
           \/ phase = "prompt" /\ phase' = "work"
    BY <1>4 DEF MachineTakesQ, MachineTakesConfirm
  <2>2. UNCHANGED <<s_active, s_armed, s_complete, machine>>
    BY <2>1 DEF coordinator
  <2>3. PhaseInv'
    BY <2>1, <2>2 DEF PhaseInv, Unarmed
  <2>4. MachineLeftIt' => MachineLeftIt
    BY <2>1, <2>2 DEF MachineLeftIt
  <2>5. SessionInv'
    BY <1>1, <2>2, <2>4 DEF SessionInv, Held
  <2> QED
    BY <1>2, <2>3, <2>5
<1> QED
  BY <1>3, <1>4

(* What a pump leaves for the settle: a machine that ends without having   *)
(* lost the session has the production reports back.                       *)
LEMMA PumpKeeps ==
  ASSUME TypeInv, SettledInProduction, PhaseInv, SessionInv, UNCHANGED productionConfigured,
         (PumpOther /\ UNCHANGED restoredBy) \/ RestoreSucceeds
  PROVE  SettledInProduction' /\ PhaseInv' /\ SessionInv'
<1>1. /\ phase \in Phases /\ sess \in SessionStates
  BY DEF TypeInv, TypeOK, OwnerTypeOK
<1>2. ASSUME UNCHANGED coordinator,
             phase \in Phases \ {"none", "confirm", "prompt", "done"},
             phase' \in Phases \ {"none", "confirm", "config", "done"},
             sess' \in {"SETTLING", "OPERATIONAL"} => UNCHANGED <<sess, reports>>
      PROVE  SettledInProduction' /\ PhaseInv' /\ SessionInv'
  <2>1. UNCHANGED <<s_active, s_armed, s_complete, machine>>
    BY <1>2 DEF coordinator
  <2>2. PhaseInv'
    BY <1>2, <2>1 DEF PhaseInv, Phases
  <2>3. ~MachineLeftIt'
    BY <1>2 DEF MachineLeftIt
  <2> QED
    BY <1>2, <2>2, <2>3 DEF SettledInProduction, SessionInv
<1>3. ASSUME NEW r \in MachineResults(s_active) \cup {Result("RECOVERY_FAILED", TRUE)},
             MachineEnds(r),
             sess' \in {"SETTLING", "OPERATIONAL"} => UNCHANGED <<sess, reports>>,
             r = Result("RECOVERY_FAILED", TRUE) \/ reports' = "production"
      PROVE  SettledInProduction' /\ PhaseInv' /\ SessionInv'
  <2>1. /\ s_active \in Composed /\ s_armed
        /\ machine' = [machine EXCEPT !.result = r] /\ phase' = "done"
        /\ UNCHANGED <<s_active, s_armed, s_complete>>
    BY <1>3 DEF MachineEnds, Cmd!MachineFinishes, Cmd!Composed, Cmd!Slot1, Cmd!Slot2, Cmd!Slot3,
                Composed, Slot1, Slot2, Slot3
  <2>2. /\ r \in Results /\ r.state # "RUNNING"
        /\ r = Result("RECOVERY_FAILED", TRUE) => r.state = "RECOVERY_FAILED"
    <3>1. Result("RECOVERY_FAILED", TRUE).state = "RECOVERY_FAILED"
      BY DEF Result
    <3>2. CASE r = Result("RECOVERY_FAILED", TRUE)
      BY <2>1, <3>1, <3>2, ResultTypes
    <3>3. CASE r \in MachineResults(s_active)
      BY <2>1, <3>1, <3>3, ResultTypes
    <3> QED
      BY <1>3, <3>2, <3>3
  <2>3. PhaseInv' /\ machine'.result = r
    BY <2>1, <2>2, EndKeeps
  <2>4. MachineLeftIt' => reports' = "production"
    BY <1>3, <2>1, <2>2, <2>3 DEF MachineLeftIt
  <2> QED
    BY <1>3, <2>3, <2>4 DEF SettledInProduction, SessionInv, Held
<1>4. CASE PumpConfigure
  <2>1. /\ UNCHANGED coordinator
        /\ phase \in {"config", "verify"} /\ phase' \in {"prompt", "commit", "work", "restore"}
        /\ sess' \in {"COMMAND", "FAULTED"} \/ UNCHANGED <<sess, reports>>
    BY <1>4 DEF PumpConfigure, AfterConfigure, NewReports, Faults, session
  <2> QED
    BY <1>2, <2>1 DEF Phases
<1>5. CASE PumpClearDcd
  <2>1. CASE /\ UNCHANGED coordinator
             /\ phase = "config" /\ phase' = "restore"
             /\ sess' = "CONFIGURING" \/ UNCHANGED <<sess, reports>>
    BY <1>2, <2>1 DEF Phases
  <2>2. CASE /\ MachineEnds(Result("RECOVERY_FAILED", TRUE))
             /\ sess' \in {"FAULTED", "RECOVERING"} \/ UNCHANGED <<sess, reports>>
    BY <1>3, <2>2
  <2> QED
    BY <1>5, <2>1, <2>2 DEF PumpClearDcd, NewReports, session
<1>6. CASE PumpCommit
  <2>1. /\ UNCHANGED <<sess, reports, coordinator>>
        /\ phase = "commit" /\ phase' \in {"verify", "work", "prompt", "commit", "restore"}
    BY <1>6 DEF PumpCommit, AfterCommit, session
  <2> QED
    BY <1>2, <2>1 DEF Phases
<1>7. CASE RestoreFails
  <2>1. /\ MachineEnds(Result("RECOVERY_FAILED", TRUE))
        /\ sess' = "FAULTED" \/ UNCHANGED <<sess, reports>>
    BY <1>7 DEF RestoreFails, Faults, NewReports, session
  <2> QED
    BY <1>3, <2>1
<1>8. CASE RestoreSucceeds
  <2>1. /\ sess' = "CONFIGURING" /\ reports' = "production"
        /\ \E r \in MachineResults(s_active) : MachineEnds(r)
    BY <1>8 DEF RestoreSucceeds, NewReports, Verdicts
  <2> QED
    BY <1>3, <2>1
<1>9. CASE PumpNothing /\ UNCHANGED restoredBy
  <2>1. UNCHANGED <<phase, sess, reports, restoredBy, s_active, s_armed, s_complete, machine>>
    BY <1>9 DEF PumpNothing, session, coordinator
  <2> QED
    BY <2>1 DEF SettledInProduction, PhaseInv, SessionInv, MachineLeftIt, Held
<1> QED
  BY <1>4, <1>5, <1>6, <1>7, <1>8, <1>9 DEF PumpOther

(* What the coordinator's service leaves for the settle.                   *)
LEMMA ServedKeeps ==
  ASSUME PhaseInv, SessionInv, CmdServed
  PROVE  PhaseInv' /\ (~s_complete' /\ MachineLeftIt' => Held)
<1>1. "NONE" \notin Composed
  BY DEF Composed, Slot1, Slot2, Slot3
<1>2. CASE Cmd!AdoptResult /\ phase' = "none" /\ ~s_complete
  <2>1. /\ s_active \in Composed /\ s_armed
        /\ machine.result.state \in Terminal
        /\ Cmd!finish_active(machine.result, FALSE, FALSE)
        /\ UNCHANGED machine
    BY <1>2 DEF Cmd!AdoptResult, Cmd!MachineComplete, Cmd!Terminal, Terminal, Cmd!Composed,
                Cmd!Slot1, Cmd!Slot2, Cmd!Slot3, Composed, Slot1, Slot2, Slot3
  <2>2. /\ s_active' = "NONE"
        /\ ~s_complete' => machine.result.state # "RECOVERY_FAILED"
    BY <2>1 DEF Cmd!finish_active, Cmd!EndsPlan
  <2>3. phase = "done"
    BY <2>1 DEF PhaseInv, Terminal
  <2>4. ~s_complete' => Held
    BY <1>2, <2>2, <2>3 DEF SessionInv, MachineLeftIt
  <2> QED
    BY <1>1, <1>2, <2>1, <2>2, <2>4 DEF PhaseInv
<1>3. ASSUME NEW k \in 1..5, Cmd!start_stage(k), phase' = "none", ~s_complete
      PROVE  PhaseInv' /\ Held
  <2>1. s_active = "NONE" /\ s_armed' = FALSE /\ UNCHANGED <<s_complete, machine>>
    BY <1>3 DEF Cmd!start_stage
  <2>2. phase = "none"
    BY <1>1, <2>1 DEF PhaseInv
  <2>3. Held
    BY <1>3, <2>2 DEF SessionInv, MachineLeftIt
  <2> QED
    BY <1>3, <2>1, <2>3 DEF PhaseInv
<1>4. CASE MachineServed /\ UNCHANGED coordinator
  <2>1. UNCHANGED <<s_active, s_armed, s_complete, machine>>
    BY <1>4 DEF coordinator
  <2>2. \/ phase' = phase
        \/ phase = "work" /\ phase' \in {"work", "prompt", "commit", "restore"}
    BY <1>4 DEF MachineServed, MayFind
  <2>3. PhaseInv'
    BY <2>1, <2>2 DEF PhaseInv
  <2>4. MachineLeftIt' => MachineLeftIt
    BY <2>1, <2>2 DEF MachineLeftIt
  <2> QED
    BY <2>1, <2>3, <2>4 DEF SessionInv
<1>5. \/ Cmd!AdoptResult /\ phase' = "none" /\ ~s_complete
      \/ \E k \in 1..5 : Cmd!start_stage(k) /\ phase' = "none" /\ ~s_complete
      \/ MachineServed /\ UNCHANGED coordinator
  BY DEF CmdServed, Cmd!imu_cmd_service
<1> QED
  BY <1>2, <1>3, <1>4, <1>5

-----------------------------------------------------------------------------
(* The session, in the owner's turn                                        *)

(* The owner's actions of a turn.                                          *)
LEMMA ActKeeps ==
  ASSUME TypeInv, ProductionInv, Act \/ ChipReset
  PROVE  ProductionInv'
<1>1. SettledInProduction /\ PhaseInv /\ SessionInv /\ ~s_complete
  BY DEF ProductionInv, Act, SessionFailed, PumpAdapter, BeginSettle, WaitSettle, Acquire, Acts,
         ChipReset, At
<1>2. CASE SessionFailed
  BY <1>1, <1>2 DEF SessionFailed, OwnerFails, Running, session, ProductionInv, SettledInProduction
<1>3. CASE PumpAdapter
  <2>1. UNCHANGED productionConfigured
    BY <1>3 DEF PumpAdapter, settle
  <2>2. CASE TickArms /\ UNCHANGED <<session, restoredBy>>
    BY <1>1, <2>1, <2>2, ArmKeeps
       DEF session, ProductionInv, SettledInProduction, SessionInv, Held
  <2>3. CASE (PumpOther /\ UNCHANGED restoredBy) \/ RestoreSucceeds
    BY <1>1, <2>1, <2>3, PumpKeeps DEF ProductionInv
  <2> QED
    BY <1>3, <2>2, <2>3 DEF PumpAdapter
<1>4. CASE BeginSettle
  <2>1. CASE ~Running'
    <3>1. sess' = "FAULTED" \/ UNCHANGED <<sess, reports>>
      BY <1>4, <2>1 DEF BeginSettle, Acts, At, Running, Faults, NewReports, session
    <3> QED
      BY <1>1, <2>1, <3>1 DEF ProductionInv, SettledInProduction
  <2>2. CASE Running'
    <3>1. /\ sess = "CONFIGURING" /\ sess' = "SETTLING"
          /\ reports' = IF productionConfigured THEN reports ELSE "production"
          /\ TickArms
      BY <1>4, <2>2 DEF BeginSettle, begin_settle, OwnerFails, Running
    <3>2. PhaseInv' /\ Held
      BY <1>1, <3>1, ArmKeeps
    <3>3. reports' = "production"
      BY <3>1, <3>2 DEF Held
    <3> QED
      BY <3>1, <3>2, <3>3 DEF ProductionInv, SettledInProduction, SessionInv, Held
  <2> QED
    BY <2>1, <2>2
<1>5. CASE WaitSettle
  BY <1>1, <1>5, StillKeeps DEF WaitSettle, Acts, At
<1>6. CASE Acquire
  <2>1. UNCHANGED <<sess, reports, restoredBy, productionConfigured>>
    BY <1>6 DEF Acquire, settle, session
  <2>2. SettledInProduction' /\ (Held => Held')
    BY <1>1, <2>1 DEF SettledInProduction, Held
  <2>3. CASE TickArms
    BY <1>1, <2>2, <2>3, ArmKeeps DEF ProductionInv, SessionInv
  <2>4. CASE s_active = "ACQUISITION" /\ Cmd!post_tick(TRUE) /\ s_armed /\ UNCHANGED phase
    <3>1. s_active' = "NONE" /\ s_complete' = TRUE /\ UNCHANGED machine
      BY <2>4 DEF Cmd!post_tick, Cmd!finish_active, Cmd!EndsPlan
    <3>2. "ACQUISITION" \notin Composed /\ "NONE" \notin Composed
      BY DEF Composed, Slot1, Slot2, Slot3
    <3> QED
      BY <1>1, <2>2, <2>4, <3>1, <3>2 DEF ProductionInv, SessionInv, PhaseInv
  <2>5. CASE UNCHANGED <<phase, coordinator>>
    <3>1. UNCHANGED <<s_active, s_armed, s_complete, machine>>
      BY <2>5 DEF coordinator
    <3> QED
      BY <1>1, <2>2, <2>5, <3>1 DEF ProductionInv, SessionInv, PhaseInv, MachineLeftIt
  <2> QED
    BY <1>6, <2>3, <2>4, <2>5 DEF Acquire
<1>7. CASE ChipReset
  <2>1. /\ sess' = "RECOVERING"
        /\ UNCHANGED <<phase, s_active, s_armed, s_complete, machine>>
    BY <1>7 DEF ChipReset, ResetNoticed, coordinator
  <2> QED
    BY <1>1, <2>1 DEF ProductionInv, SettledInProduction, SessionInv, Held, PhaseInv
<1> QED
  BY <1>2, <1>3, <1>4, <1>5, <1>6, <1>7 DEF Act

(* The end of the settle, and a line.                                      *)
LEMMA InputKeeps ==
  ASSUME ProductionInv, Input
  PROVE  ProductionInv'
<1>1. /\ SettledInProduction /\ PhaseInv /\ SessionInv /\ Running
      /\ UNCHANGED <<productionConfigured, restoredBy, reports>>
  BY DEF ProductionInv, Input, SettleFails, InputFails, Settled, NoLine, TakeLine, LineRefused,
         TakesLine, Inputs, At
<1>2. CASE SettleFails \/ NoLine \/ LineRefused
  <2>1. UNCHANGED <<stageVars, productionConfigured>>
    BY <1>1, <1>2 DEF SettleFails, NoLine, LineRefused, TakesLine, Inputs, stageVars, session
  <2> QED
    BY <1>1, <2>1, StillKeeps
<1>3. CASE InputFails
  <2>1. ~Running' /\ (sess' = sess \/ sess = "SETTLING")
    BY <1>3 DEF InputFails, Inputs, mark_operational, OwnerFails, Running
  <2> QED
    BY <1>1, <2>1 DEF ProductionInv, SettledInProduction
<1>4. CASE Settled
  <2>1. /\ sess = "SETTLING" /\ sess' = "OPERATIONAL" /\ UNCHANGED phase
        /\ s_active = "SETTLE"
        /\ Cmd!finish_active(Cmd!Result("SUCCEEDED", FALSE), FALSE, FALSE)
        /\ UNCHANGED machine
    BY <1>4 DEF Settled, Inputs, mark_operational, Cmd!post_settle_done
  <2>2. s_active' = "NONE"
    BY <2>1 DEF Cmd!finish_active
  <2>3. "SETTLE" \notin Composed /\ "NONE" \notin Composed
    BY DEF Composed, Slot1, Slot2, Slot3
  <2>4. PhaseInv'
    BY <1>1, <2>1, <2>2, <2>3 DEF PhaseInv
  <2> QED
    BY <1>1, <2>1, <2>4 DEF ProductionInv, SettledInProduction, SessionInv, Held
<1>5. CASE TakeLine
  <2>1. /\ UNCHANGED <<session, restoredBy, productionConfigured>>
        /\ MachineTakesQ \/ MachineTakesConfirm \/ UNCHANGED <<phase, coordinator>>
    BY <1>1, <1>5 DEF TakeLine, TakesLine, Inputs, session
  <2>2. CASE MachineTakesQ \/ MachineTakesConfirm
    BY <1>1, <2>1, <2>2, LineKeeps DEF ProductionInv
  <2>3. CASE UNCHANGED <<phase, coordinator>>
    BY <1>1, <2>1, <2>3, StillKeeps DEF stageVars
  <2> QED
    BY <2>1, <2>2, <2>3
<1> QED
  BY <1>2, <1>3, <1>4, <1>5 DEF Input

(* The service: production counts as configured only if a result that was  *)
(* rendered restored it.                                                   *)
LEMMA ServiceKeeps ==
  ASSUME ProductionInv, Service
  PROVE  ProductionInv'
<1>1. /\ SettledInProduction /\ PhaseInv /\ SessionInv /\ CmdServed
      /\ UNCHANGED <<sess, reports, restoredBy>>
      /\ productionConfigured' => productionConfigured \/ restoredBy # {}
  <2>1. /\ SettledInProduction /\ PhaseInv /\ SessionInv /\ CmdServed
        /\ UNCHANGED <<sess, reports, restoredBy>>
    BY DEF ProductionInv, Service, At, session
  <2>2. \/ productionConfigured' = (productionConfigured \/ ConfiguredByResult)
        \/ UNCHANGED productionConfigured
    BY DEF Service
  <2>3. ConfiguredByResult => restoredBy # {}
    BY DEF ConfiguredByResult
  <2>4. productionConfigured' => productionConfigured \/ restoredBy # {}
    BY <2>2, <2>3
  <2> QED
    BY <2>1, <2>4
<1>2. PhaseInv' /\ (~s_complete' /\ MachineLeftIt' => Held)
  BY <1>1, ServedKeeps
<1>3. Held => Held'
  BY <1>1 DEF Held
<1> QED
  BY <1>1, <1>2, <1>3 DEF ProductionInv, SettledInProduction, SessionInv

(* The plan is accepted before any stage has touched the session.          *)
LEMMA StartKeeps ==
  ASSUME GateInv, ProductionInv, Start
  PROVE  ProductionInv'
<1>1. /\ SettledInProduction /\ PhaseInv /\ SessionInv /\ s_active = "NONE" /\ ~s_complete
      /\ UNCHANGED <<phase, sess, reports, restoredBy, productionConfigured>>
  BY DEF GateInv, ProductionInv, Start, At, ownerOnly, settle, session
<1>2. CASE \E plan \in Plans : Cmd!imu_cmd_init(plan)
  <2>1. s_active' = "NONE" /\ s_armed' = FALSE /\ s_complete' = FALSE /\ machine' = Cmd!NoMachine
    BY <1>2 DEF Cmd!imu_cmd_init
  <2>2. "NONE" \notin Composed
    BY DEF Composed, Slot1, Slot2, Slot3
  <2>3. Cmd!NoMachine \in [id : Composed \cup {"NONE"}, result : Results]
    BY DEF Cmd!NoMachine, Cmd!Result, Results
  <2>4. phase = "none" /\ PhaseInv'
    BY <1>1, <2>1, <2>2, <2>3 DEF PhaseInv
  <2>5. Held
    BY <1>1, <2>4 DEF SessionInv, MachineLeftIt
  <2> QED
    BY <1>1, <2>4, <2>5 DEF ProductionInv, SettledInProduction, SessionInv, Held
<1>3. CASE ~Running'
  BY <1>1, <1>3 DEF ProductionInv, SettledInProduction
<1> QED
  BY <1>2, <1>3 DEF Start, OwnerFails, Running

LEMMA ProductionKept ==
  ASSUME TypeInv, GateInv, ProductionInv, [Next]_vars
  PROVE  ProductionInv'
<1>1. CASE \/ UNCHANGED vars \/ PlanComplete \/ Cleanup \/ Signal \/ Over \/ InputWorker
           \/ (\E failed \in BOOLEAN : WorkerEnds(failed)) \/ (\E key \in Keys : Type(key))
  <2>1. /\ UNCHANGED <<stageVars, productionConfigured>>
        /\ Running' => Running
    BY <1>1 DEF vars, ownerOnly, settle, PlanComplete, LoopEnds, At, Cleanup, Signal, Over,
       InputWorker, WorkerTop, WorkerFlush, WorkerPoll, WorkerOffer, WorkerStep, WorkerEnds, Type,
       Running
  <2> QED
    BY <2>1, StillKeeps DEF ProductionInv
<1>2. CASE Stop
  BY <1>2 DEF Stop, LoopEnds, OwnerFails, Running, session, ProductionInv, SettledInProduction
<1> QED
  BY <1>1, <1>2, StartKeeps, ActKeeps, InputKeeps, ServiceKeeps DEF Next, Owner

-----------------------------------------------------------------------------
(* The invariant                                                           *)

LEMMA StartHolds == Init => AppInv
<1> SUFFICES ASSUME Init PROVE AppInv
  OBVIOUS
<1>1. /\ s_active = "NONE" /\ s_armed = FALSE /\ s_complete = FALSE
      /\ s_plan = Cmd!NoPlan /\ machine = Cmd!NoMachine
  BY DEF Init, Cmd!Init
<1>2. PlanTyped
  BY <1>1 DEF PlanTyped, Cmd!NoPlan
<1>3. OwnerTypeOK
  BY DEF Init, OwnerTypeOK, Phases, SessionStates, ReportSets
<1>4. WorkerTypeOK
  BY AppAssumption DEF Init, WorkerTypeOK, AppAssumption
<1>5. WorkerCarries
  BY DEF Init, WorkerCarries
<1>6. BoundaryInv
  BY <1>1 DEF Init, BoundaryInv, GateInv, LinesInv, OfStage
<1>7. ProductionInv
  <2>1. Cmd!NoMachine \in [id : Composed \cup {"NONE"}, result : Results]
    BY DEF Cmd!NoMachine, Cmd!Result, Results
  <2>2. "NONE" \notin Composed
    BY DEF Composed, Slot1, Slot2, Slot3
  <2> QED
    BY <1>1, <2>1, <2>2 DEF Init, ProductionInv, SettledInProduction, PhaseInv, SessionInv, Held
<1> QED
  BY <1>2, <1>3, <1>4, <1>5, <1>6, <1>7 DEF AppInv, TypeInv, TypeOK

(* The invariant of the owner loop and its input worker.                   *)
THEOREM AppInvariant == Spec => []AppInv
<1>1. Init => AppInv
  BY StartHolds
<1>2. AppInv /\ [Next]_vars => AppInv'
  BY TypeKept, BoundaryKept, ProductionKept DEF AppInv, BoundaryInv
<1> QED
  BY <1>1, <1>2, PTL DEF Spec

(* The types of bno/app/main.c's and imu_console.c's variables.            *)
THEOREM AppTypes == Spec => []TypeOK
<1>1. AppInv => TypeOK
  BY DEF AppInv, TypeInv
<1> QED
  BY <1>1, AppInvariant, PTL

(* A line typed in one stage never answers another (app_input_stage_ready, *)
(* input_worker), for every plan, every queue capacity, any number of      *)
(* lines and every way the two threads interleave.                         *)
THEOREM InputStaysInItsStage == Spec => []InputIsOfThisStage
<1>1. AppInv => InputIsOfThisStage
  <2> SUFFICES ASSUME AppInv, At("input"), Ready, NEW k \in DOMAIN queue
               PROVE  queue[k].at = s_active
    BY DEF InputIsOfThisStage
  <2>1. Running /\ gate.stage = s_active /\ FlushDone
    BY DEF At, Ready, AppInv, TypeInv, TypeOK, WorkerTypeOK, BoundaryInv, GateInv, FlushDone
  <2>2. OfStage(queue, s_active) /\ DOMAIN queue = 1..Len(queue)
    BY <2>1 DEF AppInv, TypeInv, TypeOK, WorkerTypeOK, BoundaryInv, LinesInv
  <2> QED
    BY <2>2 DEF OfStage
<1> QED
  BY <1>1, AppInvariant, PTL

(* The session settles and acquires on the production reports              *)
(* (main.c's settle and the results it renders), for every plan.           *)
THEOREM SettlesInProduction == Spec => []SettledInProduction
<1>1. AppInv => SettledInProduction
  BY DEF AppInv, ProductionInv
<1> QED
  BY <1>1, AppInvariant, PTL
=============================================================================
