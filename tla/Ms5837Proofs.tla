---------------------------- MODULE Ms5837Proofs ----------------------------
(***************************************************************************)
(* Proofs about the MS5837 driver, and about the capture that is built on  *)
(* its contract.                                                           *)
(*                                                                         *)
(* The driver: Phases says what each driver state implies about the pair,  *)
(* the incident and the bus; the accounting, the attempt bound and the     *)
(* timing follow from it one conjunct at a time, and so does the contract, *)
(* PressureDriver.  The capture: the rows that are in the file, in the     *)
(* worker's hand or in the queue account for every gate so far, and the    *)
(* exit status of 0 is only reached when they are complete.                *)
(***************************************************************************)
EXTENDS Ms5837Driver, Ms5App, SequenceTheorems, TLAPS

Phases ==
  /\ pair_in_progress <=> state \in Measuring
  /\ recovery_incident_active <=> state \in Recovering
  /\ state \in {"OPEN", "BACKOFF"} => ~hal_open
  /\ owner = "new" =>
       /\ state = "STOPPED"
       /\ ~hal_open
       /\ accepted = 0
       /\ stats = NoStats

(* The incidents of IncidentsAccounted, without their attempts.            *)
IncidentsSum ==
  owner = "running" =>
    /\ stats.incidents = stats.successes + stats.exhaustions
                           + IF recovery_incident_active THEN 1 ELSE 0
    /\ stats.exhaustions > 0 => state = "STOPPED"

(* The attempts an open incident has left are already paid for.            *)
Remaining ==
  IF recovery_incident_active THEN MaxAttempts - recovery_attempts_in_incident ELSE 0

AttemptsPaid ==
  /\ recovery_attempts_in_incident <= MaxAttempts
  /\ state \in {"OPEN", "BACKOFF"} => recovery_attempts_in_incident < MaxAttempts
  /\ stats.attempts + Remaining <= MaxAttempts * stats.incidents

(* The chip is done no later than the deadline that guards the next read.  *)
ChipDone ==
  /\ state \in {"WAIT_D1", "WAIT_D2", "WAIT_RESET"} => chipIn <= deadline
  /\ state = "PROM" => chipIn = 0

(* The PROM index of a state that reads the PROM.                          *)
PromInRange == state = "PROM" => recovery_prom_index < PromWords

PhaseInv == TypeOK /\ PromInRange /\ Phases /\ OneHandle

Step ==
  \/ \E ok \in BOOLEAN : driver_init(ok)
  \/ \E ok \in BOOLEAN : driver_trigger(ok)
  \/ \E ok \in BOOLEAN : ReadPressure(ok)
  \/ \E ok \in BOOLEAN : StartTemperature(ok)
  \/ \E ok \in BOOLEAN : ReadTemperature(ok)
  \/ LeaveBackoff
  \/ \E ok \in BOOLEAN : RecoveryOpen(ok)
  \/ \E ok \in BOOLEAN : RecoveryReset(ok)
  \/ LeaveWaitReset
  \/ \E ok \in BOOLEAN : RecoveryProm(ok)
  \/ \E ok \in BOOLEAN : RecoveryValidate(ok)
  \/ driver_shutdown
  \/ Elapse

(* Next is one of the listed steps: service runs one of its states.        *)
LEMMA NextIsStep == Next => Step
BY DEF Next, Step, driver_service

-----------------------------------------------------------------------------
(* Counting keeps the counters naturals.                                   *)
LEMMA CountType ==
  ASSUME NEW s \in Stats, NEW n \in Nat
  PROVE  /\ [s EXCEPT !.aborted = n] \in Stats
         /\ [s EXCEPT !.incidents = n] \in Stats
<1>1. [s EXCEPT !.aborted = n] \in Stats
  BY DEF Stats
<1>2. [s EXCEPT !.incidents = n] \in Stats
  BY DEF Stats
<1> QED
  BY <1>1, <1>2

(* The counters after a failure: the pair is counted if there is one, the  *)
(* incident if it is new.                                                  *)
LEMMA FailureCounted ==
  ASSUME NEW s \in Stats, NEW n \in Nat, NEW m \in Nat
  PROVE  [s EXCEPT !.aborted = n, !.incidents = m] \in Stats
<1> DEFINE t == [s EXCEPT !.aborted = n]
<1>1. t \in Stats
  BY CountType
<1>2. [t EXCEPT !.incidents = m] \in Stats
  BY <1>1, CountType
<1> QED
  BY <1>2

(* The two ways to fail                                                    *)

(* Opening an incident from a measuring or idle driver.                    *)
LEMMA EnterKeepsPhases ==
  ASSUME PhaseInv, enter_recovery, state \in Measuring \cup {"IDLE"}
  PROVE  PhaseInv'
<1>1. StateTypeOK'
  BY DEF PhaseInv, TypeOK, StateTypeOK, enter_recovery, close_hal, DropLatest,
     States, Recovering
<1>2. OneHandle' /\ handles' \in Nat
  BY DEF PhaseInv, TypeOK, StateTypeOK, OneHandle, enter_recovery, close_hal
<1>3. AbortedWith \in Nat
  BY DEF PhaseInv, TypeOK, StateTypeOK, CounterTypeOK, AbortedWith, Stats
<1>4. stats' \in Stats
  <2> DEFINE m == IF recovery_incident_active THEN stats.incidents
                                              ELSE stats.incidents + 1
  <2>1. stats \in Stats /\ m \in Nat
    BY DEF PhaseInv, TypeOK, StateTypeOK, CounterTypeOK, Stats
  <2>2. stats' = [stats EXCEPT !.aborted = AbortedWith, !.incidents = m]
    BY DEF enter_recovery
  <2> HIDE DEF m
  <2> QED BY <1>3, <2>1, <2>2, FailureCounted
<1>7. CounterTypeOK'
  BY <1>2, <1>4, DriverAssumption
  DEF PhaseInv, TypeOK, CounterTypeOK, enter_recovery, DriverAssumption
<1>5. ClockTypeOK'
  BY DEF PhaseInv, TypeOK, ClockTypeOK, enter_recovery
<1>6. Phases' /\ PromInRange'
  BY DEF PhaseInv, TypeOK, StateTypeOK, Phases, PromInRange, enter_recovery,
     close_hal, Measuring, Recovering
<1> QED
  BY <1>1, <1>2, <1>5, <1>6, <1>7 DEF PhaseInv, TypeOK

(* A failed attempt, whatever it counted, backs off or stops.              *)
LEMMA FailKeepsPhases ==
  ASSUME PhaseInv, state \in Recovering,
         NEW attempts \in Nat, NEW counted \in Stats,
         fail_recovery_attempt(attempts, counted)
  PROVE  PhaseInv'
<1>1. StateTypeOK'
  BY DEF PhaseInv, TypeOK, StateTypeOK, fail_recovery_attempt, close_hal,
     DropLatest, States, Recovering
<1>2. OneHandle' /\ handles' \in Nat
  BY DEF PhaseInv, TypeOK, StateTypeOK, OneHandle, fail_recovery_attempt, close_hal
<1>6. stats' \in Stats
  BY DEF fail_recovery_attempt, Stats
<1>3. CounterTypeOK'
  BY <1>2, <1>6 DEF PhaseInv, TypeOK, CounterTypeOK, fail_recovery_attempt
<1>4. ClockTypeOK'
  BY DriverAssumption
  DEF DriverAssumption, PhaseInv, TypeOK, ClockTypeOK, fail_recovery_attempt
<1>5. Phases' /\ PromInRange'
  BY DEF PhaseInv, TypeOK, StateTypeOK, Phases, PromInRange, fail_recovery_attempt,
     close_hal, Measuring, Recovering
<1> QED
  BY <1>1, <1>2, <1>3, <1>4, <1>5 DEF PhaseInv, TypeOK

(* An attempt that fails after its open counted nothing more.              *)
LEMMA AttemptKeepsPhases ==
  ASSUME PhaseInv, state \in Recovering, FailAttempt
  PROVE  PhaseInv'
BY FailKeepsPhases DEF FailAttempt, PhaseInv, TypeOK, CounterTypeOK

-----------------------------------------------------------------------------
(* Phases and types                                                        *)

(* Every step keeps the types, the phases and the single handle.           *)
LEMMA StepKeepsPhases == ASSUME PhaseInv, [Next]_vars PROVE PhaseInv'
<1> USE DriverAssumption DEF DriverAssumption
<1>1. ASSUME NEW ok \in BOOLEAN, driver_init(ok) PROVE PhaseInv'
  BY <1>1 DEF PhaseInv, TypeOK, StateTypeOK, CounterTypeOK, ClockTypeOK, Phases,
     PromInRange, OneHandle, driver_init, recovery, sample, States, Measuring, Recovering
<1>2. ASSUME NEW ok \in BOOLEAN, driver_trigger(ok) PROVE PhaseInv'
  <2>1. CASE ~ok
    BY <1>2, <2>1, EnterKeepsPhases DEF driver_trigger
  <2>2. CASE ok
    BY <1>2, <2>2 DEF PhaseInv, TypeOK, StateTypeOK, CounterTypeOK, ClockTypeOK,
       Phases, PromInRange, OneHandle, driver_trigger, start_conversion,
       ConversionDeadline, session, recovery, sample, States, Measuring, Recovering
  <2> QED BY <2>1, <2>2
<1>3. ASSUME NEW ok \in BOOLEAN, ReadPressure(ok) PROVE PhaseInv'
  <2>1. CASE ~ok
    BY <1>3, <2>1, EnterKeepsPhases DEF ReadPressure, Measuring
  <2>2. CASE ok
    BY <1>3, <2>2 DEF PhaseInv, TypeOK, StateTypeOK, CounterTypeOK, ClockTypeOK,
       Phases, PromInRange, OneHandle, ReadPressure, session, recovery, sample,
       States, Measuring, Recovering
  <2> QED BY <2>1, <2>2
<1>4. ASSUME NEW ok \in BOOLEAN, StartTemperature(ok) PROVE PhaseInv'
  <2>1. CASE ~ok
    BY <1>4, <2>1, EnterKeepsPhases DEF StartTemperature, Measuring
  <2>2. CASE ok
    BY <1>4, <2>2 DEF PhaseInv, TypeOK, StateTypeOK, CounterTypeOK, ClockTypeOK,
       Phases, PromInRange, OneHandle, StartTemperature, start_conversion,
       ConversionDeadline, session, recovery, sample, States, Measuring, Recovering
  <2> QED BY <2>1, <2>2
<1>5. ASSUME NEW ok \in BOOLEAN, ReadTemperature(ok) PROVE PhaseInv'
  <2>1. CASE ~ok
    BY <1>5, <2>1, EnterKeepsPhases DEF ReadTemperature, Measuring
  <2>2. CASE ok
    <3>4. owner' # "new"
      BY <1>5, <2>2 DEF PhaseInv, Phases, ReadTemperature
    <3>5. StateTypeOK' /\ ClockTypeOK'
      BY <1>5, <2>2 DEF PhaseInv, TypeOK, StateTypeOK, ClockTypeOK, ReadTemperature, session, recovery,
         States
    <3>6. PromInRange' /\ OneHandle'
      BY <1>5, <2>2 DEF PhaseInv, PromInRange, OneHandle, ReadTemperature, session, recovery
    <3>7. /\ state' = "IDLE"
          /\ ~pair_in_progress'
          /\ ~recovery_incident_active'
      BY <1>5, <2>2 DEF PhaseInv, Phases, ReadTemperature, session, recovery, Measuring, Recovering
    <3>1. StateTypeOK' /\ ClockTypeOK' /\ Phases' /\ PromInRange' /\ OneHandle'
      BY <3>4, <3>5, <3>6, <3>7 DEF Phases, Measuring, Recovering
    <3>2. stats.incidents \in Nat /\ stats' \in Stats
      BY <1>5, <2>2
      DEF PhaseInv, TypeOK, CounterTypeOK, ReadTemperature, Stats
    <3>3. CounterTypeOK'
      BY <1>5, <2>2, <3>2 DEF PhaseInv, TypeOK, CounterTypeOK, ReadTemperature,
         session, recovery
    <3> QED BY <3>1, <3>3 DEF PhaseInv, TypeOK
  <2> QED BY <2>1, <2>2
<1>6. ASSUME LeaveBackoff PROVE PhaseInv'
  BY <1>6 DEF PhaseInv, TypeOK, StateTypeOK, CounterTypeOK, ClockTypeOK, Phases,
     PromInRange, OneHandle, LeaveBackoff, Become, session, recovery, sample,
     States, Measuring, Recovering
<1>7. ASSUME NEW ok \in BOOLEAN, RecoveryOpen(ok) PROVE PhaseInv'
  <2>1. CASE ~ok
    <3>1. /\ recovery_attempts_in_incident + 1 \in Nat
          /\ [stats EXCEPT !.attempts = @ + 1] \in Stats
      BY DEF PhaseInv, TypeOK, CounterTypeOK, Stats
    <3> QED BY <1>7, <2>1, <3>1, FailKeepsPhases DEF RecoveryOpen, Recovering
  <2>2. CASE ok
    <3>1. StateTypeOK' /\ ClockTypeOK' /\ Phases' /\ PromInRange'
      BY <1>7, <2>2 DEF PhaseInv, TypeOK, StateTypeOK, ClockTypeOK, Phases,
         PromInRange, RecoveryOpen, sample, States, Measuring, Recovering
    <3>2. stats' \in Stats
      BY <1>7, <2>2 DEF PhaseInv, TypeOK, CounterTypeOK, RecoveryOpen, Stats
    <3>3. handles' = 1 /\ hal_open'
      BY <1>7, <2>2 DEF PhaseInv, Phases, OneHandle, RecoveryOpen
    <3>4. CounterTypeOK' /\ OneHandle'
      BY <1>7, <2>2, <3>2, <3>3
      DEF PhaseInv, TypeOK, CounterTypeOK, OneHandle, RecoveryOpen, sample
    <3> QED BY <3>1, <3>4 DEF PhaseInv, TypeOK
  <2> QED BY <2>1, <2>2
<1>8. ASSUME NEW ok \in BOOLEAN, RecoveryReset(ok) PROVE PhaseInv'
  <2>1. CASE ~ok
    BY <1>8, <2>1, AttemptKeepsPhases DEF RecoveryReset, Recovering
  <2>2. CASE ok
    BY <1>8, <2>2 DEF PhaseInv, TypeOK, StateTypeOK, CounterTypeOK, ClockTypeOK,
       Phases, PromInRange, OneHandle, RecoveryReset, session, recovery, sample,
       States, Measuring, Recovering
  <2> QED BY <2>1, <2>2
<1>9. ASSUME LeaveWaitReset PROVE PhaseInv'
  BY <1>9 DEF PhaseInv, TypeOK, StateTypeOK, CounterTypeOK, ClockTypeOK, Phases,
     PromInRange, OneHandle, LeaveWaitReset, Become, session, sample, States,
     Measuring, Recovering
<1>10. ASSUME NEW ok \in BOOLEAN, RecoveryProm(ok) PROVE PhaseInv'
  <2>1. CASE ~ok
    BY <1>10, <2>1, AttemptKeepsPhases DEF RecoveryProm, Recovering
  <2>2. CASE ok
    BY <1>10, <2>2 DEF PhaseInv, TypeOK, StateTypeOK, CounterTypeOK, ClockTypeOK,
       Phases, PromInRange, OneHandle, RecoveryProm, PromRead, Become, session,
       sample, States, Measuring, Recovering
  <2> QED BY <2>1, <2>2
<1>11. ASSUME NEW ok \in BOOLEAN, RecoveryValidate(ok) PROVE PhaseInv'
  <2>1. CASE ~ok
    BY <1>11, <2>1, AttemptKeepsPhases DEF RecoveryValidate, Recovering
  <2>2. CASE ok
    <3>4. owner' # "new"
      BY <1>11, <2>2 DEF PhaseInv, Phases, RecoveryValidate
    <3>5. StateTypeOK' /\ ClockTypeOK'
      BY <1>11, <2>2 DEF PhaseInv, TypeOK, StateTypeOK, ClockTypeOK, RecoveryValidate, CloseIncident, sample,
         States
    <3>6. PromInRange' /\ OneHandle'
      BY <1>11, <2>2 DEF PhaseInv, PromInRange, OneHandle, RecoveryValidate, CloseIncident, sample
    <3>7. /\ state' = "IDLE"
          /\ ~pair_in_progress'
          /\ ~recovery_incident_active'
      BY <1>11, <2>2 DEF PhaseInv, Phases, RecoveryValidate, CloseIncident, sample, Measuring, Recovering
    <3>1. StateTypeOK' /\ ClockTypeOK' /\ Phases' /\ PromInRange' /\ OneHandle'
      BY <3>4, <3>5, <3>6, <3>7 DEF Phases, Measuring, Recovering
    <3>2. stats' \in Stats
      BY <1>11, <2>2 DEF PhaseInv, TypeOK, CounterTypeOK, RecoveryValidate, Stats
    <3>3. CounterTypeOK'
      BY <1>11, <2>2, <3>2 DEF PhaseInv, TypeOK, CounterTypeOK,
         RecoveryValidate, CloseIncident, sample
    <3> QED BY <3>1, <3>3 DEF PhaseInv, TypeOK
  <2> QED BY <2>1, <2>2
<1>12. ASSUME driver_shutdown PROVE PhaseInv'
  <2>1. StateTypeOK' /\ ClockTypeOK' /\ Phases' /\ PromInRange'
    BY <1>12 DEF PhaseInv, TypeOK, StateTypeOK, ClockTypeOK, Phases, PromInRange,
       driver_shutdown, sample, States, Measuring, Recovering
  <2>2. CounterTypeOK' /\ OneHandle'
    BY <1>12 DEF PhaseInv, TypeOK, StateTypeOK, CounterTypeOK, OneHandle,
       driver_shutdown, sample
  <2> QED BY <2>1, <2>2 DEF PhaseInv, TypeOK
<1>13. ASSUME Elapse PROVE PhaseInv'
  BY <1>13 DEF PhaseInv, TypeOK, StateTypeOK, CounterTypeOK, ClockTypeOK, Phases,
     PromInRange, OneHandle, Elapse, Down, session, sample
<1>14. CASE UNCHANGED vars
  BY <1>14 DEF PhaseInv, TypeOK, StateTypeOK, CounterTypeOK, ClockTypeOK, Phases,
     PromInRange, OneHandle, vars, session, recovery, sample
<1> QED
  BY <1>1, <1>2, <1>3, <1>4, <1>5, <1>6, <1>7, <1>8, <1>9, <1>10, <1>11, <1>12,
     <1>13, <1>14, NextIsStep DEF Step

(* The inductive invariant the other proofs rest on.                       *)
LEMMA PhaseInvariant == Spec => []PhaseInv
<1>1. Init => PhaseInv
  <2> SUFFICES ASSUME Init PROVE PhaseInv
    OBVIOUS
  <2>1. StateTypeOK /\ ClockTypeOK /\ PromInRange /\ OneHandle
    BY DEF Init, StateTypeOK, ClockTypeOK, PromInRange, OneHandle, States
  <2>2. NoStats \in Stats
    BY DEF NoStats, Stats
  <2>3. CounterTypeOK
    BY <2>2, DriverAssumption DEF DriverAssumption, Init, CounterTypeOK
  <2>4. Phases
    BY DEF Init, Phases, Measuring, Recovering
  <2> QED
    BY <2>1, <2>3, <2>4 DEF PhaseInv, TypeOK
<1> QED
  BY <1>1, StepKeepsPhases, PTL DEF Spec

(* The driver's types hold; in particular the PROM index stays in range.   *)
THEOREM DriverTypeOK == Spec => []TypeOK
<1>1. PhaseInv => TypeOK
  BY DEF PhaseInv
<1> QED
  BY <1>1, PhaseInvariant, PTL

(* No sequence of failures and recoveries leaks a bus handle.              *)
THEOREM NoHandleLeak == Spec => []OneHandle
<1>1. PhaseInv => OneHandle
  BY DEF PhaseInv
<1> QED
  BY <1>1, PhaseInvariant, PTL

-----------------------------------------------------------------------------
(* Accounting                                                              *)

CountInv ==
  /\ PairsAccounted
  /\ IncidentsSum
  /\ AttemptsPaid
  /\ LatestIsOfThisSession

(* One more incident allows MaxAttempts more attempts.                     *)
LEMMA MoreIncidents ==
  ASSUME NEW n \in Nat
  PROVE  /\ MaxAttempts * n \in Nat
         /\ MaxAttempts * (n + 1) = MaxAttempts * n + MaxAttempts
BY DriverAssumption DEF DriverAssumption

(* Opening an incident counts the pair in progress and keeps the rest.     *)
LEMMA EnterKeepsCounts ==
  ASSUME PhaseInv, CountInv, enter_recovery, state \in Measuring \cup {"IDLE"}
  PROVE  CountInv'
<1>1. ~recovery_incident_active
  BY DEF PhaseInv, Phases, Measuring, Recovering
<1>2. stats' = [stats EXCEPT !.aborted = AbortedWith, !.incidents = stats.incidents + 1]
  BY <1>1 DEF enter_recovery
<1>3. stats \in Stats
  BY DEF PhaseInv, TypeOK, CounterTypeOK
<1>4. /\ stats'.completed = stats.completed
      /\ stats'.aborted = AbortedWith
      /\ stats'.incidents = stats.incidents + 1
      /\ stats'.attempts = stats.attempts
      /\ stats'.successes = stats.successes
      /\ stats'.exhaustions = stats.exhaustions
  BY <1>2, <1>3 DEF Stats
<1>5. /\ pair_in_progress \in BOOLEAN /\ accepted \in Nat
      /\ stats.completed \in Nat /\ stats.aborted \in Nat /\ stats.incidents \in Nat
      /\ stats.attempts \in Nat /\ stats.successes \in Nat /\ stats.exhaustions \in Nat
  BY <1>3 DEF PhaseInv, TypeOK, StateTypeOK, CounterTypeOK, Stats
<1>6. /\ owner' = owner /\ accepted' = accepted /\ state' = "OPEN"
      /\ ~pair_in_progress' /\ recovery_incident_active' /\ ~has_latest_sample'
      /\ recovery_attempts_in_incident' = 0
  BY <1>1 DEF enter_recovery, DropLatest
<1>7. PairsAccounted'
  BY <1>4, <1>5, <1>6 DEF CountInv, PairsAccounted, AbortedWith
<1>8. IncidentsSum'
  BY <1>1, <1>4, <1>5, <1>6 DEF CountInv, IncidentsSum, Measuring
<1>9. AttemptsPaid'
  BY <1>1, <1>4, <1>5, <1>6, MoreIncidents, DriverAssumption
  DEF CountInv, AttemptsPaid, Remaining, DriverAssumption
<1> QED
  BY <1>6, <1>7, <1>8, <1>9 DEF CountInv, LatestIsOfThisSession

(* A failed attempt ends its incident at the limit and nowhere else.       *)
LEMMA FailKeepsCounts ==
  ASSUME PhaseInv, CountInv, state \in Recovering,
         NEW attempts \in Nat, NEW counted \in Stats,
         fail_recovery_attempt(attempts, counted),
         attempts <= MaxAttempts,
         counted.attempts + (MaxAttempts - attempts) <= MaxAttempts * stats.incidents,
         counted.completed = stats.completed, counted.aborted = stats.aborted,
         counted.incidents = stats.incidents, counted.successes = stats.successes,
         counted.exhaustions = stats.exhaustions
  PROVE  CountInv'
<1>1. recovery_incident_active /\ ~pair_in_progress
  BY DEF PhaseInv, Phases, Measuring, Recovering
<1>2. /\ stats'.completed = stats.completed
      /\ stats'.aborted = stats.aborted
      /\ stats'.incidents = stats.incidents
      /\ stats'.attempts = counted.attempts
      /\ stats'.successes = stats.successes
      /\ stats'.exhaustions = stats.exhaustions + IF Exhausted(attempts) THEN 1 ELSE 0
  BY DEF fail_recovery_attempt, Stats
<1>3. /\ accepted \in Nat /\ stats.completed \in Nat /\ stats.aborted \in Nat
      /\ stats.incidents \in Nat /\ counted.attempts \in Nat
      /\ stats.successes \in Nat /\ stats.exhaustions \in Nat
  BY DEF PhaseInv, TypeOK, CounterTypeOK, Stats
<1>4. /\ owner' = owner /\ accepted' = accepted /\ pair_in_progress' = pair_in_progress
      /\ ~has_latest_sample' /\ recovery_attempts_in_incident' = attempts
      /\ Exhausted(attempts) => state' = "STOPPED" /\ ~recovery_incident_active'
      /\ ~Exhausted(attempts) => state' = "BACKOFF" /\ recovery_incident_active'
  BY <1>1 DEF fail_recovery_attempt, DropLatest
<1>5. PairsAccounted'
  BY <1>1, <1>2, <1>3, <1>4 DEF CountInv, PairsAccounted
<1>6. IncidentsSum'
  BY <1>1, <1>2, <1>3, <1>4 DEF CountInv, IncidentsSum, Recovering
<1>7. AttemptsPaid'
  BY <1>2, <1>3, <1>4, MoreIncidents, DriverAssumption
  DEF AttemptsPaid, Remaining, Exhausted, DriverAssumption
<1> QED
  BY <1>4, <1>5, <1>6, <1>7 DEF CountInv, LatestIsOfThisSession

(* An attempt that fails after its open counted nothing more.              *)
LEMMA AttemptKeepsCounts ==
  ASSUME PhaseInv, CountInv, state \in Recovering, FailAttempt
  PROVE  CountInv'
<1>1. recovery_incident_active
  BY DEF PhaseInv, Phases
<1>2. /\ recovery_attempts_in_incident \in Nat /\ stats \in Stats
      /\ recovery_attempts_in_incident <= MaxAttempts
      /\ stats.attempts + (MaxAttempts - recovery_attempts_in_incident)
           <= MaxAttempts * stats.incidents
  BY <1>1 DEF PhaseInv, TypeOK, CounterTypeOK, CountInv, AttemptsPaid, Remaining
<1> QED
  BY <1>2, FailKeepsCounts DEF FailAttempt

(* A step that moves neither the counters nor what they count.             *)
LEMMA QuietKeepsCounts ==
  ASSUME CountInv, UNCHANGED <<owner, stats, accepted, pair_in_progress,
                               recovery_incident_active, sample>>,
         recovery_attempts_in_incident' = recovery_attempts_in_incident,
         state = "STOPPED" => state' = "STOPPED",
         state' \in {"OPEN", "BACKOFF"} => state \in {"OPEN", "BACKOFF"}
  PROVE  CountInv'
BY DEF CountInv, PairsAccounted, IncidentsSum, AttemptsPaid, Remaining,
   LatestIsOfThisSession, sample

(* Every step keeps the accounts.                                          *)
LEMMA StepKeepsCounts == ASSUME PhaseInv, CountInv, [Next]_vars PROVE CountInv'
<1>1. ASSUME NEW ok \in BOOLEAN, driver_init(ok) PROVE CountInv'
  BY <1>1 DEF PhaseInv, Phases, CountInv, PairsAccounted, IncidentsSum,
     AttemptsPaid, Remaining, LatestIsOfThisSession, driver_init, recovery, sample,
     NoStats, Recovering, Measuring
<1>2. ASSUME NEW ok \in BOOLEAN, driver_trigger(ok) PROVE CountInv'
  <2>1. CASE ~ok
    BY <1>2, <2>1, EnterKeepsCounts DEF driver_trigger
  <2>2. CASE ok
    <3>1. ~pair_in_progress /\ state = "IDLE" /\ accepted \in Nat
      BY <1>2 DEF driver_trigger, PhaseInv, TypeOK, CounterTypeOK, Phases, Measuring
    <3>2. /\ UNCHANGED <<owner, stats, recovery_incident_active, sample>>
          /\ recovery_attempts_in_incident' = recovery_attempts_in_incident
          /\ state' = "WAIT_D1" /\ pair_in_progress' /\ accepted' = accepted + 1
      BY <1>2, <2>2 DEF driver_trigger, start_conversion, recovery
    <3>3. stats.completed \in Nat /\ stats.aborted \in Nat /\ stats.exhaustions \in Nat
      BY DEF PhaseInv, TypeOK, CounterTypeOK, Stats
    <3>4. PairsAccounted'
      BY <3>1, <3>2, <3>3 DEF CountInv, PairsAccounted
    <3> QED
      BY <3>1, <3>2, <3>3, <3>4 DEF CountInv, IncidentsSum, AttemptsPaid,
         Remaining, LatestIsOfThisSession, sample
  <2> QED BY <2>1, <2>2
<1>3. ASSUME NEW ok \in BOOLEAN, ReadPressure(ok) PROVE CountInv'
  <2>1. CASE ~ok
    BY <1>3, <2>1, EnterKeepsCounts DEF ReadPressure, Measuring
  <2>2. CASE ok
    BY <1>3, <2>2, QuietKeepsCounts DEF ReadPressure, recovery
  <2> QED BY <2>1, <2>2
<1>4. ASSUME NEW ok \in BOOLEAN, StartTemperature(ok) PROVE CountInv'
  <2>1. CASE ~ok
    BY <1>4, <2>1, EnterKeepsCounts DEF StartTemperature, Measuring
  <2>2. CASE ok
    BY <1>4, <2>2, QuietKeepsCounts DEF StartTemperature, start_conversion, recovery
  <2> QED BY <2>1, <2>2
<1>5. ASSUME NEW ok \in BOOLEAN, ReadTemperature(ok) PROVE CountInv'
  <2>1. CASE ~ok
    BY <1>5, <2>1, EnterKeepsCounts DEF ReadTemperature, Measuring
  <2>2. CASE ok
    <3>1. /\ stats'.completed = stats.completed + 1
          /\ stats'.aborted = stats.aborted
          /\ stats'.incidents = stats.incidents
          /\ stats'.attempts = stats.attempts
          /\ stats'.successes = stats.successes
          /\ stats'.exhaustions = stats.exhaustions
          /\ stats.completed \in Nat /\ stats.aborted \in Nat /\ stats.exhaustions \in Nat
      BY <1>5, <2>2 DEF ReadTemperature, PhaseInv, TypeOK, CounterTypeOK, Stats
    <3>2. /\ state = "WAIT_D2" /\ state' = "IDLE" /\ ~pair_in_progress'
          /\ sampleIncident' = stats.incidents
          /\ UNCHANGED <<owner, accepted, recovery_incident_active,
                         recovery_attempts_in_incident>>
      BY <1>5, <2>2 DEF ReadTemperature, recovery
    <3>3. pair_in_progress
      BY <3>2 DEF PhaseInv, Phases, Measuring
    <3>4. PairsAccounted'
      BY <3>1, <3>2, <3>3 DEF CountInv, PairsAccounted
    <3> QED
      BY <3>1, <3>2, <3>4 DEF CountInv, IncidentsSum, AttemptsPaid, Remaining,
         LatestIsOfThisSession
  <2> QED BY <2>1, <2>2
<1>6. ASSUME LeaveBackoff PROVE CountInv'
  BY <1>6, QuietKeepsCounts DEF LeaveBackoff, Become, recovery
<1>7. ASSUME NEW ok \in BOOLEAN, RecoveryOpen(ok) PROVE CountInv'
  <2> DEFINE attempts == recovery_attempts_in_incident + 1
             counted == [stats EXCEPT !.attempts = @ + 1]
  <2>1. state = "OPEN" /\ recovery_incident_active
    BY <1>7 DEF RecoveryOpen, PhaseInv, Phases, Recovering
  <2>2. /\ counted \in Stats
        /\ counted.attempts = stats.attempts + 1
        /\ counted.completed = stats.completed /\ counted.aborted = stats.aborted
        /\ counted.incidents = stats.incidents /\ counted.successes = stats.successes
        /\ counted.exhaustions = stats.exhaustions
    BY DEF PhaseInv, TypeOK, CounterTypeOK, Stats
  <2>3. /\ recovery_attempts_in_incident \in Nat /\ stats.attempts \in Nat
        /\ stats.incidents \in Nat /\ MaxAttempts \in Nat
        /\ MaxAttempts * stats.incidents \in Nat
    BY MoreIncidents, DriverAssumption
    DEF DriverAssumption, PhaseInv, TypeOK, CounterTypeOK, Stats
  <2>4. /\ attempts \in Nat /\ attempts <= MaxAttempts
        /\ counted.attempts + (MaxAttempts - attempts) <= MaxAttempts * stats.incidents
    BY <2>1, <2>2, <2>3 DEF CountInv, AttemptsPaid, Remaining
  <2>5. CASE ~ok
    <3>1. fail_recovery_attempt(attempts, counted)
      BY <1>7, <2>5 DEF RecoveryOpen
    <3> HIDE DEF attempts, counted
    <3> QED
      BY <2>1, <2>2, <2>4, <3>1, FailKeepsCounts DEF Recovering
  <2>6. CASE ok
    <3>1. /\ stats' = counted /\ recovery_attempts_in_incident' = attempts
          /\ state' = "RESET"
          /\ UNCHANGED <<owner, accepted, pair_in_progress,
                         recovery_incident_active, sample>>
      BY <1>7, <2>6 DEF RecoveryOpen
    <3> HIDE DEF attempts, counted
    <3> QED
      BY <2>1, <2>2, <2>4, <3>1 DEF CountInv, PairsAccounted, IncidentsSum,
         AttemptsPaid, Remaining, LatestIsOfThisSession, sample
  <2> QED BY <2>5, <2>6
<1>8. ASSUME NEW ok \in BOOLEAN, RecoveryReset(ok) PROVE CountInv'
  <2>1. CASE ~ok
    BY <1>8, <2>1, AttemptKeepsCounts DEF RecoveryReset, Recovering
  <2>2. CASE ok
    BY <1>8, <2>2, QuietKeepsCounts DEF RecoveryReset, recovery
  <2> QED BY <2>1, <2>2
<1>9. ASSUME LeaveWaitReset PROVE CountInv'
  BY <1>9, QuietKeepsCounts DEF LeaveWaitReset, Become
<1>10. ASSUME NEW ok \in BOOLEAN, RecoveryProm(ok) PROVE CountInv'
  <2>1. CASE ~ok
    BY <1>10, <2>1, AttemptKeepsCounts DEF RecoveryProm, Recovering
  <2>2. CASE ok
    BY <1>10, <2>2, QuietKeepsCounts DEF RecoveryProm, Become
  <2> QED BY <2>1, <2>2
<1>11. ASSUME NEW ok \in BOOLEAN, RecoveryValidate(ok) PROVE CountInv'
  <2>1. CASE ~ok
    BY <1>11, <2>1, AttemptKeepsCounts DEF RecoveryValidate, Recovering
  <2>2. CASE ok
    <3>1. /\ stats'.completed = stats.completed
          /\ stats'.aborted = stats.aborted
          /\ stats'.incidents = stats.incidents
          /\ stats'.attempts = stats.attempts
          /\ stats'.successes = stats.successes + 1
          /\ stats'.exhaustions = stats.exhaustions
      BY <1>11, <2>2 DEF RecoveryValidate, PhaseInv, TypeOK, CounterTypeOK, Stats
    <3>2. /\ stats.incidents \in Nat /\ stats.attempts \in Nat
          /\ stats.successes \in Nat /\ stats.exhaustions \in Nat
          /\ MaxAttempts \in Nat /\ MaxAttempts * stats.incidents \in Nat
      BY MoreIncidents, DriverAssumption
      DEF DriverAssumption, PhaseInv, TypeOK, CounterTypeOK, Stats
    <3>3. /\ state = "VALIDATE" /\ state' = "IDLE"
          /\ ~recovery_incident_active' /\ recovery_attempts_in_incident' = 0
          /\ UNCHANGED <<owner, accepted, pair_in_progress, sample>>
      BY <1>11, <2>2 DEF RecoveryValidate, CloseIncident
    <3>4. recovery_incident_active
      BY <3>3 DEF PhaseInv, Phases, Recovering
    <3>5. recovery_attempts_in_incident \in Nat
      BY DEF PhaseInv, TypeOK, CounterTypeOK
    <3>6. IncidentsSum'
      BY <3>1, <3>2, <3>3, <3>4 DEF CountInv, IncidentsSum
    <3>7. AttemptsPaid'
      BY <3>1, <3>2, <3>3, <3>4, <3>5 DEF CountInv, AttemptsPaid, Remaining
    <3> QED
      BY <3>1, <3>3, <3>6, <3>7 DEF CountInv, PairsAccounted, LatestIsOfThisSession, sample
  <2> QED BY <2>1, <2>2
<1>12. ASSUME driver_shutdown PROVE CountInv'
  <2>1. /\ stats.attempts \in Nat /\ stats.incidents \in Nat
        /\ recovery_attempts_in_incident \in Nat /\ MaxAttempts \in Nat
        /\ MaxAttempts * stats.incidents \in Nat
    BY MoreIncidents, DriverAssumption
    DEF DriverAssumption, PhaseInv, TypeOK, CounterTypeOK, Stats
  <2> QED
    BY <1>12, <2>1 DEF driver_shutdown, CountInv, PairsAccounted, IncidentsSum,
       AttemptsPaid, Remaining, LatestIsOfThisSession, sample
<1>13. ASSUME Elapse PROVE CountInv'
  BY <1>13, QuietKeepsCounts DEF Elapse
<1>14. CASE UNCHANGED vars
  BY <1>14, QuietKeepsCounts DEF vars, recovery
<1> QED
  BY <1>1, <1>2, <1>3, <1>4, <1>5, <1>6, <1>7, <1>8, <1>9, <1>10, <1>11, <1>12,
     <1>13, <1>14, NextIsStep DEF Step

(* The accounts hold in every reachable state.                             *)
LEMMA CountInvariant == Spec => []CountInv
<1>1. Init => CountInv
  BY DriverAssumption DEF DriverAssumption, Init, CountInv, PairsAccounted,
     IncidentsSum, AttemptsPaid, Remaining, LatestIsOfThisSession, NoStats
<1> QED
  BY <1>1, PhaseInvariant, StepKeepsCounts, PTL DEF Spec

(* Every accepted trigger is measured, aborted or in progress, for any     *)
(* number of failures and recoveries.                                      *)
THEOREM PairsAreAccounted == Spec => []PairsAccounted
<1>1. CountInv => PairsAccounted
  BY DEF CountInv
<1> QED
  BY <1>1, CountInvariant, PTL

(* Every incident is recovered, exhausted or open, exhaustion is final,    *)
(* and the bus is reopened at most MaxAttempts times per incident.         *)
THEOREM IncidentsAreAccounted == Spec => []IncidentsAccounted
<1>1. PhaseInv /\ CountInv => IncidentsAccounted
  <2> SUFFICES ASSUME PhaseInv, CountInv PROVE IncidentsAccounted
    OBVIOUS
  <2>1. /\ stats.attempts \in Nat /\ stats.incidents \in Nat /\ MaxAttempts \in Nat
        /\ recovery_attempts_in_incident \in Nat
        /\ MaxAttempts * stats.incidents \in Nat
    BY MoreIncidents, DriverAssumption
    DEF DriverAssumption, PhaseInv, TypeOK, CounterTypeOK, Stats
  <2>2. stats.attempts <= MaxAttempts * stats.incidents
    BY <2>1 DEF CountInv, AttemptsPaid, Remaining
  <2> QED
    BY <2>2 DEF CountInv, IncidentsSum, AttemptsPaid, IncidentsAccounted
<1> QED
  BY <1>1, PhaseInvariant, CountInvariant, PTL

(* No sample older than the last incident is offered as the latest.        *)
THEOREM LatestIsFresh == Spec => []LatestIsOfThisSession
<1>1. CountInv => LatestIsOfThisSession
  BY DEF CountInv
<1> QED
  BY <1>1, CountInvariant, PTL

-----------------------------------------------------------------------------
(* Timing                                                                  *)

(* Time passes for the chip and for the deadline alike.                    *)
LEMMA StepKeepsChipDone == ASSUME PhaseInv, ChipDone, [Next]_vars PROVE ChipDone'
<1> USE DriverAssumption DEF DriverAssumption
<1>1. ASSUME enter_recovery PROVE ChipDone'
  BY <1>1 DEF enter_recovery, ChipDone
<1>2. ASSUME NEW attempts, NEW counted, fail_recovery_attempt(attempts, counted)
      PROVE  ChipDone'
  BY <1>2 DEF fail_recovery_attempt, ChipDone
<1>3. ASSUME NEW ok \in BOOLEAN, driver_init(ok) PROVE ChipDone'
  BY <1>3 DEF driver_init, ChipDone
<1>4. ASSUME NEW ok \in BOOLEAN, driver_trigger(ok) PROVE ChipDone'
  BY <1>1, <1>4 DEF driver_trigger, start_conversion, ConversionDeadline, ChipDone
<1>5. ASSUME NEW ok \in BOOLEAN, ReadPressure(ok) PROVE ChipDone'
  BY <1>1, <1>5 DEF ReadPressure, ChipDone
<1>6. ASSUME NEW ok \in BOOLEAN, StartTemperature(ok) PROVE ChipDone'
  BY <1>1, <1>6 DEF StartTemperature, start_conversion, ConversionDeadline, ChipDone
<1>7. ASSUME NEW ok \in BOOLEAN, ReadTemperature(ok) PROVE ChipDone'
  BY <1>1, <1>7 DEF ReadTemperature, ChipDone
<1>8. ASSUME LeaveBackoff PROVE ChipDone'
  BY <1>8 DEF LeaveBackoff, Become, ChipDone
<1>9. ASSUME NEW ok \in BOOLEAN, RecoveryOpen(ok) PROVE ChipDone'
  BY <1>2, <1>9 DEF RecoveryOpen, ChipDone
<1>10. ASSUME NEW ok \in BOOLEAN, RecoveryReset(ok) PROVE ChipDone'
  BY <1>2, <1>10 DEF RecoveryReset, FailAttempt, ChipDone
<1>11. ASSUME LeaveWaitReset PROVE ChipDone'
  BY <1>11 DEF LeaveWaitReset, Become, ChipDone, PhaseInv, TypeOK, ClockTypeOK
<1>12. ASSUME NEW ok \in BOOLEAN, RecoveryProm(ok) PROVE ChipDone'
  BY <1>2, <1>12 DEF RecoveryProm, FailAttempt, Become, ChipDone
<1>13. ASSUME NEW ok \in BOOLEAN, RecoveryValidate(ok) PROVE ChipDone'
  BY <1>2, <1>13 DEF RecoveryValidate, FailAttempt, ChipDone
<1>14. ASSUME driver_shutdown PROVE ChipDone'
  BY <1>14 DEF driver_shutdown, ChipDone
<1>15. ASSUME Elapse PROVE ChipDone'
  BY <1>15 DEF Elapse, Down, ChipDone, PhaseInv, TypeOK, ClockTypeOK
<1>16. CASE UNCHANGED vars
  BY <1>16 DEF vars, ChipDone
<1> QED
  BY <1>3, <1>4, <1>5, <1>6, <1>7, <1>8, <1>9, <1>10, <1>11, <1>12, <1>13, <1>14,
     <1>15, <1>16, NextIsStep DEF Step

(* A conversion result or a PROM word is read only from a chip that has    *)
(* finished, whatever the reload and conversion times.                     *)
THEOREM ReadsAreNotEarly == Spec => NeverReadsEarly
<1> DEFINE Reads == \/ state = "WAIT_D1" /\ state' = "START_D2"
                    \/ state = "WAIT_D2" /\ state' = "IDLE"
                    \/ recovery_prom_index' > recovery_prom_index
<1>1. Init => ChipDone
  BY DEF Init, ChipDone
<1>2. ASSUME PhaseInv, ChipDone, Next, Reads PROVE chipIn = 0
  <2>1. recovery_prom_index \in Nat
    BY <1>2, DriverAssumption DEF DriverAssumption, PhaseInv, TypeOK, CounterTypeOK
  <2>2. CASE state \in {"WAIT_D1", "WAIT_D2"}
    <3>1. deadline = 0
      BY <1>2, <2>1, <2>2, NextIsStep
      DEF Step, driver_init, driver_trigger, ReadPressure, StartTemperature,
          ReadTemperature, LeaveBackoff, RecoveryOpen, RecoveryReset, LeaveWaitReset,
          RecoveryProm, RecoveryValidate, driver_shutdown, Elapse, enter_recovery,
          start_conversion, recovery, PhaseInv, Phases
    <3> QED
      BY <2>2, <3>1, <1>2 DEF ChipDone, PhaseInv, TypeOK, ClockTypeOK
  <2>3. CASE state \notin {"WAIT_D1", "WAIT_D2"}
    <3>1. state = "PROM"
      BY <1>2, <2>1, <2>3, NextIsStep
      DEF Step, driver_init, driver_trigger, ReadPressure, StartTemperature,
          ReadTemperature, LeaveBackoff, RecoveryOpen, RecoveryReset, LeaveWaitReset,
          RecoveryProm, RecoveryValidate, driver_shutdown, Elapse, enter_recovery,
          fail_recovery_attempt, FailAttempt, start_conversion, CloseIncident, recovery
    <3> QED
      BY <1>2, <3>1 DEF ChipDone
  <2> QED BY <2>2, <2>3
<1>3. PhaseInv /\ ChipDone /\ [Next]_vars =>
        [\/ state = "WAIT_D1" /\ state' = "START_D2"
         \/ state = "WAIT_D2" /\ state' = "IDLE"
         \/ recovery_prom_index' > recovery_prom_index
         => chipIn = 0]_vars
  BY <1>2
<1> QED
  BY <1>1, <1>3, PhaseInvariant, StepKeepsChipDone, PTL DEF Spec, NeverReadsEarly

-----------------------------------------------------------------------------
(* The driver and its contract                                             *)

(* What the owner's view adds to the phases: a driver that was shut down   *)
(* is stopped, and a recovering one offers no sample.                      *)
ViewInv ==
  /\ owner = "shut" => state = "STOPPED"
  /\ state \in Recovering => ~has_latest_sample

(* Every step keeps what the view rests on.                                *)
LEMMA StepKeepsView == ASSUME PhaseInv, ViewInv, [Next]_vars PROVE ViewInv'
<1> USE DEF ViewInv, Recovering
<1>1. ASSUME enter_recovery, state # "STOPPED" PROVE ViewInv'
  BY <1>1 DEF enter_recovery, DropLatest
<1>2. ASSUME NEW attempts, NEW counted, fail_recovery_attempt(attempts, counted),
             state # "STOPPED"
      PROVE  ViewInv'
  BY <1>2 DEF fail_recovery_attempt, DropLatest
<1>3. ASSUME NEW ok \in BOOLEAN, driver_init(ok) PROVE ViewInv'
  BY <1>3 DEF driver_init
<1>4. ASSUME NEW ok \in BOOLEAN, driver_trigger(ok) PROVE ViewInv'
  BY <1>1, <1>4 DEF driver_trigger, start_conversion
<1>5. ASSUME NEW ok \in BOOLEAN, ReadPressure(ok) PROVE ViewInv'
  BY <1>1, <1>5 DEF ReadPressure
<1>6. ASSUME NEW ok \in BOOLEAN, StartTemperature(ok) PROVE ViewInv'
  BY <1>1, <1>6 DEF StartTemperature, start_conversion
<1>7. ASSUME NEW ok \in BOOLEAN, ReadTemperature(ok) PROVE ViewInv'
  BY <1>1, <1>7 DEF ReadTemperature
<1>8. ASSUME LeaveBackoff PROVE ViewInv'
  BY <1>8 DEF LeaveBackoff, Become, sample
<1>9. ASSUME NEW ok \in BOOLEAN, RecoveryOpen(ok) PROVE ViewInv'
  BY <1>2, <1>9 DEF RecoveryOpen, sample
<1>10. ASSUME NEW ok \in BOOLEAN, RecoveryReset(ok) PROVE ViewInv'
  BY <1>2, <1>10 DEF RecoveryReset, FailAttempt, sample
<1>11. ASSUME LeaveWaitReset PROVE ViewInv'
  BY <1>11 DEF LeaveWaitReset, Become, sample
<1>12. ASSUME NEW ok \in BOOLEAN, RecoveryProm(ok) PROVE ViewInv'
  BY <1>2, <1>12 DEF RecoveryProm, FailAttempt, Become, sample
<1>13. ASSUME NEW ok \in BOOLEAN, RecoveryValidate(ok) PROVE ViewInv'
  BY <1>2, <1>13 DEF RecoveryValidate, FailAttempt
<1>14. ASSUME driver_shutdown PROVE ViewInv'
  BY <1>14 DEF driver_shutdown
<1>15. ASSUME Elapse PROVE ViewInv'
  BY <1>15 DEF Elapse, sample
<1>16. CASE UNCHANGED vars
  BY <1>16 DEF vars, sample
<1> QED
  BY <1>3, <1>4, <1>5, <1>6, <1>7, <1>8, <1>9, <1>10, <1>11, <1>12, <1>13, <1>14,
     <1>15, <1>16, NextIsStep DEF Step

(* The view of a running driver is read from its state alone.              *)
LEMMA RunningView ==
  ASSUME owner = "running"
  PROVE  /\ state \in Measuring => OwnersView = "PAIR"
         /\ state \in Recovering => OwnersView = "RECOVERY"
         /\ state = "IDLE" => OwnersView = "IDLE"
         /\ state = "STOPPED" => OwnersView = "STOPPED"
BY DEF OwnersView, Measuring, Recovering

(* The same of the next state.                                             *)
LEMMA RunningViewNext ==
  ASSUME owner' = "running"
  PROVE  /\ state' \in Measuring => OwnersView' = "PAIR"
         /\ state' \in Recovering => OwnersView' = "RECOVERY"
         /\ state' = "IDLE" => OwnersView' = "IDLE"
         /\ state' = "STOPPED" => OwnersView' = "STOPPED"
BY DEF OwnersView, Measuring, Recovering

(* Every step of the driver is a step of the contract or leaves the        *)
(* owner's view alone.                                                     *)
LEMMA StepServes ==
  ASSUME PhaseInv, ViewInv, [Next]_vars
  PROVE  [Contract!NextDriver]_(Contract!driver)
<1> DEFINE Stutter == UNCHANGED <<OwnersView, has_latest_sample, stats.completed>>
           Served == Contract!NextDriver \/ Stutter
<1> USE DEF Contract!NextDriver, Contract!Enters
<1>0. state # "STOPPED" => owner = "running"
  BY DEF PhaseInv, Phases, ViewInv, TypeOK, StateTypeOK
<1>a. stats \in Stats
  BY DEF PhaseInv, TypeOK, CounterTypeOK
<1>1. ASSUME enter_recovery, state \in Measuring \cup {"IDLE"} PROVE Served
  <2>1. owner = "running" /\ owner' = "running" /\ state' \in Recovering
    BY <1>0, <1>1 DEF enter_recovery, Measuring, Recovering
  <2>2. OwnersView \in {"IDLE", "PAIR"} /\ OwnersView' = "RECOVERY"
    BY <1>1, <2>1, RunningView, RunningViewNext
  <2>3. has_latest_sample' = FALSE /\ stats'.completed = stats.completed
    BY <1>1, <1>a DEF enter_recovery, DropLatest, Stats
  <2> QED BY <2>2, <2>3 DEF Contract!Fails
<1>2. ASSUME state \in Recovering, owner' = "running", state' \in Recovering,
             has_latest_sample' = has_latest_sample, stats'.completed = stats.completed
      PROVE  Served
  BY <1>0, <1>2, RunningView, RunningViewNext DEF Recovering
<1>3. ASSUME NEW attempts, NEW counted \in Stats, counted.completed = stats.completed,
             fail_recovery_attempt(attempts, counted), state \in Recovering
      PROVE  Served
  <2>1. /\ owner = "running" /\ owner' = "running"
        /\ state' = "BACKOFF" \/ state' = "STOPPED"
    BY <1>0, <1>3 DEF fail_recovery_attempt, Recovering
  <2>2. has_latest_sample' = has_latest_sample
    BY <1>3 DEF fail_recovery_attempt, DropLatest, ViewInv, PhaseInv, TypeOK, StateTypeOK
  <2>3. stats'.completed = stats.completed
    BY <1>3 DEF fail_recovery_attempt, Stats
  <2>4. CASE state' = "BACKOFF"
    BY <1>2, <1>3, <2>1, <2>2, <2>3, <2>4 DEF Recovering
  <2>5. CASE state' = "STOPPED"
    <3>1. OwnersView = "RECOVERY" /\ OwnersView' = "STOPPED"
      BY <1>3, <2>1, <2>5, RunningView, RunningViewNext
    <3> QED BY <2>2, <2>3, <3>1 DEF Contract!Exhausts
  <2> QED BY <2>1, <2>4, <2>5
<1>4. ASSUME state \in Recovering, FailAttempt PROVE Served
  BY <1>3, <1>4, <1>a DEF FailAttempt
<1>5. ASSUME NEW ok \in BOOLEAN, driver_init(ok) PROVE Served
  <2>1. OwnersView = "NEW" /\ UNCHANGED <<has_latest_sample, stats.completed>>
    BY <1>5 DEF driver_init, OwnersView, sample
  <2>2. CASE ok
    <3>1. OwnersView' = "IDLE"
      BY <1>5, <2>2, RunningViewNext DEF driver_init
    <3> QED BY <2>1, <3>1 DEF Contract!Opens
  <2>3. CASE ~ok
    BY <1>5, <2>1, <2>3 DEF driver_init, OwnersView
  <2> QED BY <2>2, <2>3
<1>6. ASSUME NEW ok \in BOOLEAN, driver_trigger(ok) PROVE Served
  <2>1. CASE ok
    <3>1. /\ state = "IDLE" /\ owner = "running" /\ owner' = "running"
          /\ state' = "WAIT_D1"
          /\ UNCHANGED <<has_latest_sample, stats.completed>>
      BY <1>0, <1>6, <2>1 DEF driver_trigger, start_conversion, sample
    <3>2. OwnersView = "IDLE" /\ OwnersView' = "PAIR"
      BY <3>1, RunningView, RunningViewNext DEF Measuring
    <3> QED BY <3>1, <3>2 DEF Contract!BeginsPair
  <2>2. CASE ~ok
    BY <1>1, <1>6, <2>2 DEF driver_trigger
  <2> QED BY <2>1, <2>2
<1>7. ASSUME NEW ok \in BOOLEAN, ReadPressure(ok) \/ StartTemperature(ok) PROVE Served
  <2>1. CASE ok
    <3>1. /\ state \in Measuring /\ state' \in Measuring
          /\ owner = "running" /\ owner' = "running"
          /\ UNCHANGED <<has_latest_sample, stats.completed>>
      BY <1>0, <1>7, <2>1 DEF ReadPressure, StartTemperature, start_conversion,
         sample, Measuring
    <3> QED BY <3>1, RunningView, RunningViewNext
  <2>2. CASE ~ok
    BY <1>1, <1>7, <2>2 DEF ReadPressure, StartTemperature, Measuring
  <2> QED BY <2>1, <2>2
<1>8. ASSUME NEW ok \in BOOLEAN, ReadTemperature(ok) PROVE Served
  <2>1. CASE ok
    <3>1. /\ state = "WAIT_D2" /\ owner = "running" /\ owner' = "running"
          /\ state' = "IDLE" /\ has_latest_sample' = TRUE
      BY <1>0, <1>8, <2>1 DEF ReadTemperature
    <3>2. stats'.completed = stats.completed + 1
      BY <1>8, <1>a, <2>1 DEF ReadTemperature, Stats
    <3>3. OwnersView = "PAIR" /\ OwnersView' = "IDLE"
      BY <3>1, RunningView, RunningViewNext DEF Measuring
    <3> QED BY <3>1, <3>2, <3>3 DEF Contract!Completes
  <2>2. CASE ~ok
    BY <1>1, <1>8, <2>2 DEF ReadTemperature, Measuring
  <2> QED BY <2>1, <2>2
<1>9. ASSUME LeaveBackoff \/ LeaveWaitReset PROVE Served
  BY <1>0, <1>2, <1>9 DEF LeaveBackoff, LeaveWaitReset, Become, sample, Recovering
<1>10. ASSUME NEW ok \in BOOLEAN, RecoveryOpen(ok) PROVE Served
  <2> DEFINE counted == [stats EXCEPT !.attempts = @ + 1]
  <2>1. counted \in Stats /\ counted.completed = stats.completed
    BY <1>a DEF Stats
  <2>2. CASE ok
    <3>1. /\ stats' = counted /\ state = "OPEN" /\ state' = "RESET"
          /\ UNCHANGED <<owner, has_latest_sample>>
      BY <1>10, <2>2 DEF RecoveryOpen, sample
    <3> QED BY <1>0, <1>2, <2>1, <3>1 DEF Recovering
  <2>3. CASE ~ok
    <3>1. fail_recovery_attempt(recovery_attempts_in_incident + 1, counted) /\ state = "OPEN"
      BY <1>10, <2>3 DEF RecoveryOpen
    <3> HIDE DEF counted
    <3> QED BY <1>3, <2>1, <3>1 DEF Recovering
  <2> QED BY <2>2, <2>3
<1>11. ASSUME NEW ok \in BOOLEAN, RecoveryReset(ok) PROVE Served
  <2>1. CASE ok
    BY <1>0, <1>2, <1>11, <2>1 DEF RecoveryReset, sample, Recovering
  <2>2. CASE ~ok
    BY <1>4, <1>11, <2>2 DEF RecoveryReset, Recovering
  <2> QED BY <2>1, <2>2
<1>12. ASSUME NEW ok \in BOOLEAN, RecoveryProm(ok) PROVE Served
  <2>1. CASE ok
    BY <1>0, <1>2, <1>12, <2>1 DEF RecoveryProm, Become, sample, Recovering
  <2>2. CASE ~ok
    BY <1>4, <1>12, <2>2 DEF RecoveryProm, Recovering
  <2> QED BY <2>1, <2>2
<1>13. ASSUME NEW ok \in BOOLEAN, RecoveryValidate(ok) PROVE Served
  <2>1. CASE ok
    <3>1. /\ state = "VALIDATE" /\ owner = "running" /\ owner' = "running"
          /\ state' = "IDLE" /\ UNCHANGED has_latest_sample
      BY <1>0, <1>13, <2>1 DEF RecoveryValidate, sample
    <3>2. stats'.completed = stats.completed
      BY <1>13, <1>a, <2>1 DEF RecoveryValidate, Stats
    <3>3. OwnersView = "RECOVERY" /\ OwnersView' = "IDLE"
      BY <3>1, RunningView, RunningViewNext DEF Recovering
    <3> QED BY <3>1, <3>2, <3>3 DEF Contract!Recovers
  <2>2. CASE ~ok
    BY <1>4, <1>13, <2>2 DEF RecoveryValidate, Recovering
  <2> QED BY <2>1, <2>2
<1>14. ASSUME driver_shutdown PROVE Served
  <2>1. /\ owner = "running" /\ owner' = "shut"
        /\ UNCHANGED <<has_latest_sample, stats.completed>>
    BY <1>14 DEF driver_shutdown, sample
  <2>2. OwnersView \notin {"NEW", "SHUT"}
    BY <2>1, RunningView DEF PhaseInv, TypeOK, StateTypeOK, States
  <2>3. OwnersView' = "SHUT"
    BY <2>1 DEF OwnersView
  <2> QED BY <2>1, <2>2, <2>3 DEF Contract!Shuts
<1>15. ASSUME Elapse PROVE Served
  BY <1>15 DEF Elapse, OwnersView, sample
<1>16. ASSUME UNCHANGED vars PROVE Served
  BY <1>16 DEF vars, OwnersView, sample
<1>17. Served
  BY <1>5, <1>6, <1>7, <1>8, <1>9, <1>10, <1>11, <1>12, <1>13, <1>14, <1>15,
     <1>16, NextIsStep DEF Step
<1> QED
  BY <1>17 DEF Contract!driver

(* The driver implements its contract for any number of failures,          *)
(* recoveries and attempts: one pair at a time, no sample across a failure *)
(* and no way back from an exhaustion.                                     *)
THEOREM DriverServesOwner == Spec => ServesOwner
<1>1. Init => Contract!InitDriver /\ ViewInv
  BY DEF Init, Contract!InitDriver, OwnersView, NoStats, ViewInv, Recovering
<1> QED
  BY <1>1, PhaseInvariant, StepKeepsView, StepServes, PTL
  DEF Spec, ServesOwner, Contract!SpecDriver

-----------------------------------------------------------------------------
(* The capture                                                             *)
(*                                                                         *)
(* told is the history of the capture: what the file holds, what the       *)
(* worker has in hand and what is still queued.  As long as no write has   *)
(* failed it holds every row that was emitted and accepted, in order, and  *)
(* only an emission adds to it.                                            *)

PhaseNames == {"ZERO", "RUN"}
Records == [n : Nat, phase : PhaseNames, gate : Nat, skipped : Nat,
            driver : DriverStates, sample : Nat, fresh : BOOLEAN, depth : BOOLEAN]

Beginning == {"INIT", "LOGGER", "START_RT", "WARM_UP"}
Turning == {"LOOP", "EMIT", "EMITTED", "SLEEP"}
Over == {"STOP_LOGGER", "JOIN", "SHUTDOWN", "DONE"}

Written == IF worker = "write" THEN <<record>> ELSE <<>>
told == file \o Written \o queue
Intact == worker # "note" /\ ~write_failed

CaptureTypes ==
  /\ at \in Beginning \cup {"PHASE"} \cup Turning \cup Over
  /\ phase \in PhaseNames
  /\ gate \in [tick : Nat, last : Nat, ticks : Nat]
  /\ skipped \in Nat
  /\ publisher \in [next : Nat, previous : Nat]
  /\ zero \in [samples : Nat, reference : BOOLEAN]

LoggerTypes ==
  /\ worker \in {"none", "lock", "decide", "wait", "write", "note", "done"}
  /\ file \in Seq(Records)
  /\ queue \in Seq(Records)
  /\ worker = "write" => record \in Records

(* The pressure contract: what it offers was completed since the last      *)
(* failure, and the publisher has not seen a later one.                    *)
DriverHonest ==
  /\ drv \in DriverStates /\ ready \in BOOLEAN /\ sequence \in Nat
  /\ drv \in {"NEW", "RECOVERY", "STOPPED"} => ~ready
  /\ publisher.previous <= sequence

(* Where main, the worker and the exit status stand to each other.         *)
Course ==
  /\ at \notin Over => status = "OK" /\ result = -1
  /\ status # "OK" => result = 1
  /\ stopping <=> at \in {"JOIN", "SHUTDOWN"} \/ (at = "DONE" /\ worker # "none")
  /\ worker = "none" => at \in {"INIT", "LOGGER", "DONE"} /\ result # 0 /\ status = "OK"
  /\ at \in {"INIT", "LOGGER"} => worker = "none"
  /\ worker = "none" => ~write_failed
  /\ worker = "done" => stopping /\ queue = <<>>
  /\ stopping /\ at # "JOIN" => worker = "done"
  /\ result = 0 /\ at \in {"SHUTDOWN", "DONE"} => ~write_failed
  /\ phase = "ZERO" => zero_requested /\ at \notin Beginning

(* The rows s are numbered, each accounts for the gates since the row      *)
(* before it, and only a complete zero phase is followed by another.       *)
GateOrder(s) ==
  \A i \in 1..Len(s) :
    /\ s[i].n = i
    /\ s[i].gate = (IF i > 1 /\ s[i - 1].phase = s[i].phase THEN s[i - 1].gate ELSE 0)
                     + 1 + s[i].skipped
    /\ i < Len(s) /\ s[i + 1].phase # s[i].phase => s[i].phase = "ZERO" /\ s[i].gate = ZeroGates

FreshOrder(s) ==
  \A i, j \in 1..Len(s) : i < j /\ s[i].fresh /\ s[j].fresh => s[i].sample < s[j].sample

FreshUpTo(s, m) == \A i \in 1..Len(s) : s[i].fresh => s[i].sample <= m

(* The gate of phase p that the rows s have reached.                       *)
GateTold(s, p) == IF s # <<>> /\ s[Len(s)].phase = p THEN s[Len(s)].gate ELSE 0

ZeroTold(s) ==
  /\ s # <<>>
  /\ s[1].phase = "ZERO"
  /\ s[Len(s)].phase = "ZERO" => s[Len(s)].gate = ZeroGates

Ordered ==
  /\ GateOrder(told)
  /\ FreshOrder(told)
  /\ FreshUpTo(told, publisher.previous)
  /\ status # "DROPPED" => publisher.next = Len(told) + 1
  /\ \A i \in 1..Len(told) : told[i].phase = "ZERO" => zero_requested
  /\ phase = "ZERO" => \A i \in 1..Len(told) : told[i].phase = "ZERO"

(* How far the rows are while the capture lasts.                           *)
Progress ==
  /\ at \in Beginning => told = <<>>
  /\ at = "PHASE" => GateTold(told, phase) = 0
  /\ at \in Turning \ {"EMIT"} => GateTold(told, phase) = gate.last
  /\ at = "EMIT" => GateTold(told, phase) + 1 + skipped = gate.last
  /\ at \in Turning => gate.last <= LastGate
  /\ zero_requested /\ phase = "RUN" /\ at \in {"PHASE"} \cup Turning => ZeroTold(told)
  /\ at = "EMITTED" =>
       /\ told # <<>>
       /\ told[Len(told)].driver = drv
       /\ told[Len(told)].sample = SampleOffered

(* How far they are when it is over.                                       *)
Ending ==
  /\ result = 0 =>
       /\ at \in Over
       /\ \/ phase = "RUN" /\ GateTold(told, phase) = RunGates
          \/ stop_requested /\ GateTold(told, phase) = 0
       /\ zero_requested /\ phase = "RUN" => ZeroTold(told)
  /\ status = "EXHAUSTED" =>
       /\ told # <<>>
       /\ told[Len(told)].driver = "STOPPED"
       /\ told[Len(told)].sample = 0

Ledger == Ordered /\ Progress /\ Ending

CaptureInv ==
  /\ CaptureTypes
  /\ LoggerTypes
  /\ DriverHonest
  /\ Course
  /\ Intact => Ledger

-----------------------------------------------------------------------------
(* Next by action, the driver's part of an action, division                *)

LEMMA CaptureConstants ==
  /\ ZeroGates \in Nat /\ ZeroGates > 0 /\ RunGates \in Nat /\ RunGates > 0
  /\ GateTicks \in Nat /\ GateTicks > 0 /\ MaxOverrun \in Nat
BY CaptureAssumption DEF CaptureAssumption

LEMMA Quotient ==
  ASSUME NEW a \in Nat, NEW c \in Nat, c > 0
  PROVE  a \div c \in Nat
<1>1. a \div c \in Int /\ a = (a \div c) * c + (a % c) /\ a % c \in 0..(c - 1)
  BY SMTT(30)
<1>2. ASSUME a \div c < 0 PROVE FALSE
  <2>1. a \div c <= -1
    BY <1>1, <1>2
  <2>2. (a \div c) * c <= (-1) * c
    BY <1>1, <2>1, SMTT(30)
  <2> QED
    BY <1>1, <2>2
<1> QED
  BY <1>1, <1>2

LEMMA GateAtType ==
  ASSUME NEW tick \in Nat, phase \in PhaseNames
  PROVE  GateAt(tick) \in Nat /\ GateAt(tick) <= LastGate
<1>1. tick \div GateTicks \in Nat
  BY CaptureConstants, Quotient
<1> DEFINE current == tick \div GateTicks
<1> HIDE DEF current
<1>2. current \in Nat /\ LastGate \in Nat
  BY <1>1, CaptureConstants DEF LastGate, GatesIn, current
<1> QED
  BY <1>2 DEF GateAt, current

(* What a step of the capture does to the driver.                          *)
DriverMoves ==
  \/ UNCHANGED driver
  \/ /\ drv' \in DriverStates \ {"NEW", "RECOVERY", "STOPPED"}
     /\ UNCHANGED <<ready, sequence>>
  \/ Exhausts
  \/ Fails
  \/ Completes

(* Whatever the driver does, it offers nothing older than before.          *)
LEMMA DriverOffers ==
  ASSUME DriverHonest, DriverMoves
  PROVE  /\ drv' \in DriverStates /\ ready' \in BOOLEAN /\ sequence' \in Nat
         /\ drv' \in {"NEW", "RECOVERY", "STOPPED"} => ~ready'
         /\ sequence <= sequence'
<1> USE DEF DriverHonest
<1>1. CASE UNCHANGED driver
  BY <1>1 DEF driver
<1>2. CASE /\ drv' \in DriverStates \ {"NEW", "RECOVERY", "STOPPED"}
           /\ UNCHANGED <<ready, sequence>>
  BY <1>2
<1>3. CASE Exhausts
  BY <1>3 DEF Exhausts, Enters, DriverStates
<1>4. CASE Fails
  <2>1. ~ready' /\ ready' \in BOOLEAN
    BY <1>4 DEF Fails
  <2>2. drv' = "RECOVERY" /\ sequence' = sequence /\ sequence \in Nat
    BY <1>4 DEF Fails
  <2> QED
    BY <2>1, <2>2 DEF DriverStates
<1>5. CASE Completes
  BY <1>5 DEF Completes, DriverStates
<1> QED
  BY <1>1, <1>2, <1>3, <1>4, <1>5 DEF DriverMoves

LEMMA DriverKept ==
  ASSUME DriverHonest, DriverMoves, CaptureTypes,
         publisher' = publisher \/ publisher'.previous = sequence'
  PROVE  DriverHonest'
<1>1. /\ drv' \in DriverStates /\ ready' \in BOOLEAN /\ sequence' \in Nat
      /\ drv' \in {"NEW", "RECOVERY", "STOPPED"} => ~ready'
      /\ sequence <= sequence'
  BY DriverOffers
<1>2. sequence \in Nat /\ publisher.previous \in Nat /\ publisher.previous <= sequence
  BY DEF DriverHonest, CaptureTypes
<1>3. publisher'.previous <= sequence'
  BY <1>1, <1>2
<1> QED
  BY <1>1, <1>3 DEF DriverHonest

LEMMA ServiceMoves ==
  ASSUME service_once \/ ms5837_driver_trigger \/ trigger_if_idle \/ Opens \/ Shuts
  PROVE  DriverMoves
BY DEF service_once, ms5837_driver_trigger, trigger_if_idle, Opens, Shuts, BeginsPair,
   Recovers, Enters, DriverMoves, DriverStates

LEMMA HonestyKept ==
  ASSUME DriverHonest, CaptureTypes, [NextCapture]_captureVars
  PROVE  DriverHonest'
<1>1. CASE initialize_with_retry
  <2>1. UNCHANGED publisher /\ DriverMoves
    BY <1>1, ServiceMoves DEF initialize_with_retry, capture, DriverMoves
  <2> QED
    BY <2>1, DriverKept
<1>2. CASE ms5837_logger_start
  <2>1. UNCHANGED publisher /\ DriverMoves
    BY <1>2, ServiceMoves DEF ms5837_logger_start, capture, DriverMoves
  <2> QED
    BY <2>1, DriverKept
<1>3. CASE WarmUpTurn
  <2>1. DriverMoves
    BY <1>3, ServiceMoves DEF WarmUpTurn
  <2>2. publisher' = publisher \/ publisher'.previous = sequence'
    BY <1>3 DEF WarmUpTurn
  <2> QED
    BY <2>1, <2>2, DriverKept
<1>4. CASE BeginPhase \/ NextPair
  <2>1. UNCHANGED publisher /\ DriverMoves
    BY <1>4, ServiceMoves DEF BeginPhase, NextPair, capture
  <2> QED
    BY <2>1, DriverKept
<1>5. CASE ServeTurn
  <2>1. UNCHANGED publisher /\ DriverMoves
    BY <1>5, ServiceMoves DEF ServeTurn
  <2> QED
    BY <2>1, DriverKept
<1>6. CASE emit_record
  BY <1>6 DEF emit_record, ms5837_publish_evaluate, driver, DriverHonest, DriverStates
<1>7. CASE ms5837_driver_shutdown
  <2>1. UNCHANGED publisher /\ DriverMoves
    BY <1>7, ServiceMoves DEF ms5837_driver_shutdown, capture
  <2> QED
    BY <2>1, DriverKept
<1>8. CASE UNCHANGED <<publisher, driver>>
  BY <1>8, DriverKept DEF DriverMoves
<1> QED
  BY <1>1, <1>2, <1>3, <1>4, <1>5, <1>6, <1>7, <1>8
  DEF NextCapture, main, StartRT, WarmUpEnds, StopBeforePhase, StopSeen, RuntimeExhausted,
      PhaseDone, sleep_owner_turn, JoinLogger, StopLogger, OwnerFails, request_stop,
      logger_thread, Locks, Decides, write_record, NotesFailure, SpuriousWakeup,
      LoggerStep, captureVars, capture

-----------------------------------------------------------------------------
(* Types                                                                   *)

LEMMA GateTypes ==
  ASSUME CaptureTypes, gate_advance
  PROVE  /\ gate' \in [tick : Nat, last : Nat, ticks : Nat]
         /\ skipped' \in Nat
         /\ \/ at' = "EMIT" /\ gate.last + 1 + skipped' = gate'.last
            \/ at' = "SLEEP" /\ gate'.last = gate.last
         /\ gate.last <= LastGate => gate'.last <= LastGate
<1> DEFINE tick == gate.tick + gate.ticks
           current == GateAt(tick)
<1>1. tick \in Nat /\ gate.last \in Nat /\ phase \in PhaseNames
  BY DEF CaptureTypes
<1>2. current \in Nat /\ current <= LastGate
  BY <1>1, GateAtType
<1>3. CASE /\ current > gate.last
           /\ gate' = [gate EXCEPT !.tick = tick, !.last = current]
           /\ skipped' = SkippedBefore(current)
           /\ at' = "EMIT"
  <2> HIDE DEF tick, current
  <2>1. gate' \in [tick : Nat, last : Nat, ticks : Nat] /\ gate'.last = current
    BY <1>1, <1>2, <1>3 DEF CaptureTypes
  <2>2. skipped' \in Nat /\ gate.last + 1 + skipped' = current
    BY <1>1, <1>2, <1>3 DEF SkippedBefore
  <2> QED
    BY <1>2, <1>3, <2>1, <2>2
<1>4. CASE /\ gate' = [gate EXCEPT !.tick = tick]
           /\ UNCHANGED skipped
           /\ at' = "SLEEP"
  <2> HIDE DEF tick, current
  <2>1. gate' \in [tick : Nat, last : Nat, ticks : Nat] /\ gate'.last = gate.last
    BY <1>1, <1>4 DEF CaptureTypes
  <2> QED
    BY <1>4, <2>1 DEF CaptureTypes
<1> QED
  BY <1>3, <1>4 DEF gate_advance

LEMMA TypesKept ==
  ASSUME CaptureTypes, DriverHonest, DriverHonest', [NextCapture]_captureVars
  PROVE  CaptureTypes'
<1> USE DEF Beginning, Turning, Over
<1>0. CASE UNCHANGED <<phase, gate, skipped, publisher, zero>>
           /\ (UNCHANGED at \/ at' \in {"PHASE"} \cup Beginning \cup Turning \cup Over)
  BY <1>0 DEF CaptureTypes
<1>1. CASE WarmUpTurn
  <2>1. UNCHANGED <<gate, skipped, zero>> /\ sequence' \in Nat
    BY <1>1 DEF WarmUpTurn, DriverHonest
  <2>2. CASE ready'
    BY <1>1, <2>1, <2>2 DEF WarmUpTurn, CaptureTypes, PhaseNames
  <2>3. CASE ~ready'
    BY <1>1, <2>1, <2>3 DEF WarmUpTurn, CaptureTypes
  <2> QED
    BY <2>2, <2>3
<1>2. CASE BeginPhase
  BY <1>2 DEF BeginPhase, CaptureTypes, course
<1>3. CASE ServeTurn
  <2>1. /\ gate' \in [tick : Nat, last : Nat, ticks : Nat] /\ skipped' \in Nat
        /\ at' \in {"EMIT", "SLEEP"}
    BY <1>3, GateTypes DEF ServeTurn
  <2>2. zero' \in [samples : Nat, reference : BOOLEAN]
    BY <1>3 DEF ServeTurn, zero_estimator_add, CaptureTypes
  <2>3. UNCHANGED <<phase, publisher>>
    BY <1>3 DEF ServeTurn, course
  <2> QED
    BY <2>1, <2>2, <2>3 DEF CaptureTypes
<1>4. CASE emit_record
  <2>1. publisher' \in [next : Nat, previous : Nat]
    BY <1>4 DEF emit_record, ms5837_publish_evaluate, CaptureTypes, DriverHonest
  <2>2. UNCHANGED <<phase, gate, skipped, zero>> /\ at' \in {"EMITTED", "STOP_LOGGER"}
    BY <1>4 DEF emit_record, EndsCapture
  <2> QED
    BY <2>1, <2>2 DEF CaptureTypes
<1>5. CASE PhaseDone
  <2>1. UNCHANGED <<gate, skipped, publisher>> /\ at' \in {"PHASE", "STOP_LOGGER"}
    BY <1>5 DEF PhaseDone, EndsCapture
  <2>2. phase' \in PhaseNames
    BY <1>5 DEF PhaseDone, CaptureTypes, PhaseNames
  <2>3. zero' \in [samples : Nat, reference : BOOLEAN]
    <3> DEFINE enough == zero.samples >= MinZeroSamples
    <3>1. enough \in BOOLEAN
      OBVIOUS
    <3>2. zero' = zero \/ zero' = [zero EXCEPT !.reference = enough]
      BY <1>5 DEF PhaseDone
    <3> HIDE DEF enough
    <3> QED
      BY <3>1, <3>2 DEF CaptureTypes
  <2> QED
    BY <2>1, <2>2, <2>3 DEF CaptureTypes
<1>6. CASE sleep_owner_turn
  <2>1. gate' \in [tick : Nat, last : Nat, ticks : Nat]
    <3>1. PICK overrun \in 0..MaxOverrun : gate' = [gate EXCEPT !.ticks = 1 + overrun]
      BY <1>6 DEF sleep_owner_turn
    <3> QED
      BY <3>1, CaptureConstants DEF CaptureTypes
  <2> QED
    BY <1>6, <2>1 DEF sleep_owner_turn, CaptureTypes, course
<1> QED
  BY <1>0, <1>1, <1>2, <1>3, <1>4, <1>5, <1>6
  DEF NextCapture, main, initialize_with_retry, ms5837_logger_start, StartRT, WarmUpEnds,
      StopBeforePhase, StopSeen, RuntimeExhausted, NextPair, JoinLogger,
      ms5837_driver_shutdown, StopLogger, OwnerFails, request_stop, logger_thread, Locks,
      Decides, write_record, NotesFailure, SpuriousWakeup, LoggerStep, ExitsWith,
      EndsCapture, captureVars, course, capture

LEMMA RowType ==
  ASSUME CaptureTypes, DriverHonest
  PROVE  Row \in Records
<1>1. SampleOffered \in Nat
  BY DEF SampleOffered, DriverHonest
<1>2. /\ (ready /\ sequence > publisher.previous) \in BOOLEAN
      /\ (ready /\ zero.reference) \in BOOLEAN
  OBVIOUS
<1>3. /\ publisher.next \in Nat /\ phase \in PhaseNames /\ gate.last \in Nat
      /\ skipped \in Nat /\ drv \in DriverStates
  BY DEF CaptureTypes, DriverHonest
<1> QED
  BY <1>1, <1>2, <1>3 DEF Row, Records

LEMMA LoggerTypesKept ==
  ASSUME CaptureTypes, DriverHonest, LoggerTypes, [NextCapture]_captureVars
  PROVE  LoggerTypes'
<1>1. CASE UNCHANGED <<file, queue, record>>
           /\ (worker' = worker \/ worker' \in {"none", "lock", "decide", "wait", "note", "done"})
  BY <1>1 DEF LoggerTypes
<1>2. CASE emit_record
  <2>1. Append(queue, Row) \in Seq(Records)
    BY RowType, AppendProperties DEF LoggerTypes
  <2> QED
    BY <1>2, <2>1
    DEF emit_record, ms5837_logger_enqueue, SignalReady, logger, LoggerTypes
<1>3. CASE Decides
  <2>1. CASE UNCHANGED <<queue, record>> /\ worker' \in {"done", "wait"}
    BY <1>3, <2>1 DEF Decides, LoggerTypes
  <2>2. CASE queue # <<>> /\ worker' = "write" /\ record' = Head(queue) /\ queue' = Tail(queue)
    <3>1. Head(queue) \in Records /\ Tail(queue) \in Seq(Records)
      BY <2>2, HeadTailProperties DEF LoggerTypes
    <3> QED
      BY <1>3, <2>2, <3>1 DEF Decides, LoggerTypes
  <2> QED
    BY <1>3, <2>1, <2>2 DEF Decides
<1>4. CASE write_record
  <2>1. record \in Records /\ Append(file, record) \in Seq(Records)
    BY <1>4, AppendProperties DEF write_record, LoggerStep, LoggerTypes
  <2> QED
    BY <1>4, <2>1 DEF write_record, LoggerTypes
<1>5. CASE ms5837_logger_start
  BY <1>1, <1>5 DEF ms5837_logger_start
<1>6. CASE Locks \/ NotesFailure \/ SpuriousWakeup
  BY <1>1, <1>6 DEF Locks, NotesFailure, SpuriousWakeup
<1>7. CASE StopLogger
  BY <1>1, <1>7 DEF StopLogger, SignalStop, SignalReady
<1>8. CASE UNCHANGED logger
  BY <1>1, <1>8 DEF logger
<1> QED
  BY <1>2, <1>3, <1>4, <1>5, <1>6, <1>7, <1>8
  DEF NextCapture, main, initialize_with_retry, StartRT, WarmUpTurn, WarmUpEnds,
      StopBeforePhase, BeginPhase, StopSeen, ServeTurn, RuntimeExhausted, NextPair,
      PhaseDone, sleep_owner_turn, JoinLogger, ms5837_driver_shutdown, OwnerFails,
      request_stop, logger_thread, captureVars

-----------------------------------------------------------------------------
(* Where everyone is                                                       *)

(* The steps that only move main, before the capture is over.              *)
CourseVars == <<status, result, stopping, worker, write_failed, queue, phase,
                zero_requested>>

LEMMA EndsCourse ==
  ASSUME Course, NEW s, EndsCapture(s), at \notin Over, at \notin {"INIT", "LOGGER"},
         UNCHANGED <<zero_requested, phase, stopping, worker, write_failed, queue>>
  PROVE  Course'
BY DEF Course, EndsCapture, Over, Beginning

LEMMA CourseKept ==
  ASSUME CaptureTypes, Course, [NextCapture]_captureVars
  PROVE  Course'
<1> USE DEF Course, Over, Beginning
<1>0. CASE UNCHANGED CourseVars /\ UNCHANGED at
  BY <1>0 DEF CourseVars
<1>1. CASE initialize_with_retry
  BY <1>1 DEF initialize_with_retry, ExitsWith, logger
<1>2. CASE ms5837_logger_start
  BY <1>2 DEF ms5837_logger_start, ExitsWith
<1>3. CASE StartRT
  <2>1. CASE at' = "WARM_UP" /\ UNCHANGED <<status, result>>
    BY <1>3, <2>1 DEF StartRT, logger
  <2>2. CASE EndsCapture("FAILED")
    BY <1>3, <2>2, EndsCourse DEF StartRT, logger
  <2> QED
    BY <1>3, <2>1, <2>2 DEF StartRT
<1>4. CASE WarmUpTurn
  BY <1>4 DEF WarmUpTurn, logger
<1>5. CASE WarmUpEnds
  BY <1>5, EndsCourse DEF WarmUpEnds, logger
<1>6. CASE StopBeforePhase \/ StopSeen
  BY <1>6, EndsCourse DEF StopBeforePhase, StopSeen, logger
<1>7. CASE BeginPhase \/ NextPair \/ sleep_owner_turn
  BY <1>7 DEF BeginPhase, NextPair, sleep_owner_turn, logger, course
<1>8. CASE ServeTurn
  BY <1>8 DEF ServeTurn, gate_advance, logger, course
<1>9. CASE emit_record
  <2>1. CASE EndsCapture("DROPPED") /\ UNCHANGED logger
    BY <1>9, <2>1, EndsCourse DEF emit_record, logger
  <2>2. CASE ms5837_logger_enqueue /\ at' = "EMITTED" /\ UNCHANGED <<status, result>>
    BY <1>9, <2>2 DEF emit_record, ms5837_logger_enqueue, SignalReady
  <2> QED
    BY <1>9, <2>1, <2>2 DEF emit_record
<1>10. CASE RuntimeExhausted
  BY <1>10, EndsCourse DEF RuntimeExhausted, logger
<1>11. CASE PhaseDone
  <2>1. CASE at' = "PHASE" /\ phase' = "RUN" /\ UNCHANGED <<status, result>>
    BY <1>11, <2>1 DEF PhaseDone, logger
  <2>2. CASE UNCHANGED phase /\ (EndsCapture("STOPPED") \/ EndsCapture("OK"))
    BY <1>11, <2>2, EndsCourse DEF PhaseDone, logger
  <2> QED
    BY <1>11, <2>1, <2>2 DEF PhaseDone
<1>12. CASE OwnerFails
  <2>1. \E s \in {"FAILED", "STOPPED"} : EndsCapture(s)
    BY <1>12 DEF OwnerFails
  <2> QED
    BY <1>12, <2>1, EndsCourse DEF OwnerFails, logger
<1>13. CASE StopLogger
  BY <1>13 DEF StopLogger, SignalStop, SignalReady, course
<1>14. CASE JoinLogger
  BY <1>14 DEF JoinLogger, logger
<1>15. CASE ms5837_driver_shutdown
  BY <1>15 DEF ms5837_driver_shutdown, logger
<1>16. CASE request_stop
  BY <1>0, <1>16 DEF request_stop, CourseVars, logger, course
<1>17. CASE Locks \/ SpuriousWakeup
  BY <1>17 DEF Locks, SpuriousWakeup, LoggerStep, course
<1>18. CASE Decides
  BY <1>18 DEF Decides, LoggerStep, DoneWhenDrained, course
<1>19. CASE write_record
  BY <1>19 DEF write_record, LoggerStep, course
<1>20. CASE NotesFailure
  BY <1>20 DEF NotesFailure, LoggerStep, course
<1>21. CASE UNCHANGED captureVars
  BY <1>0, <1>21 DEF captureVars, CourseVars, logger, course
<1> QED
  BY <1>1, <1>2, <1>3, <1>4, <1>5, <1>6, <1>7, <1>8, <1>9, <1>10, <1>11, <1>12, <1>13,
     <1>14, <1>15, <1>16, <1>17, <1>18, <1>19, <1>20, <1>21
  DEF NextCapture, main, logger_thread

-----------------------------------------------------------------------------
(* What is told                                                            *)

LEMMA ToldType ==
  ASSUME LoggerTypes
  PROVE  Written \in Seq(Records) /\ told \in Seq(Records)
<1>1. Written \in Seq(Records)
  BY DEF Written, LoggerTypes
<1>2. file \o Written \in Seq(Records) /\ queue \in Seq(Records) /\ file \in Seq(Records)
  BY <1>1, ConcatProperties DEF LoggerTypes
<1> QED
  BY <1>1, <1>2, ConcatProperties DEF told

(* A row added behind the rest.                                            *)
LEMMA AppendBehind ==
  ASSUME NEW s \in Seq(Records), NEW t \in Seq(Records), NEW r \in Records
  PROVE  s \o Append(t, r) = Append(s \o t, r)
<1>1. <<r>> \in Seq(Records) /\ s \o t \in Seq(Records)
  BY ConcatProperties
<1>2. Append(t, r) = t \o <<r>> /\ Append(s \o t, r) = (s \o t) \o <<r>>
  BY <1>1, AppendIsConcat
<1> QED
  BY <1>1, <1>2, ConcatAssociative

LEMMA HeadThenTail ==
  ASSUME NEW s \in Seq(Records), s # <<>>
  PROVE  s = <<Head(s)>> \o Tail(s)
<1>1. Head(s) \in Records /\ Tail(s) \in Seq(Records) /\ Len(Tail(s)) = Len(s) - 1
      /\ \A i \in 1..Len(Tail(s)) : Tail(s)[i] = s[i + 1]
  BY HeadTailProperties
<1>2. Len(s) \in Nat \ {0} /\ Head(s) = s[1]
  BY EmptySeq
<1> DEFINE h == <<Head(s)>>
           t == Tail(s)
<1>3. h \in Seq(Records) /\ Len(h) = 1 /\ h[1] = s[1]
  BY <1>1, <1>2
<1> HIDE DEF h, t
<1>4. /\ h \o t \in Seq(Records)
      /\ Len(h \o t) = 1 + Len(t)
      /\ \A i \in 1..(1 + Len(t)) : (h \o t)[i] = IF i <= 1 THEN h[i] ELSE t[i - 1]
  <2>1. t \in Seq(Records)
    BY <1>1 DEF t
  <2>2. /\ h \o t \in Seq(Records)
        /\ Len(h \o t) = Len(h) + Len(t)
        /\ \A i \in 1..(Len(h) + Len(t)) :
             (h \o t)[i] = IF i <= Len(h) THEN h[i] ELSE t[i - Len(h)]
    BY <1>3, <2>1, ConcatProperties
  <2> QED
    BY <1>3, <2>2
<1>5. Len(h \o t) = Len(s)
  BY <1>1, <1>2, <1>4 DEF t
<1>6. ASSUME NEW i \in 1..Len(s) PROVE s[i] = (h \o t)[i]
  <2>1. CASE i = 1
    BY <1>3, <1>4, <1>5, <2>1
  <2>2. CASE i # 1
    <3>1. i - 1 \in 1..Len(t) /\ i \in 1..(1 + Len(t)) /\ ~(i <= 1)
      BY <1>2, <1>4, <1>5, <1>6, <2>2
    <3>2. t[i - 1] = s[(i - 1) + 1] /\ (i - 1) + 1 = i
      BY <1>1, <3>1 DEF t
    <3> QED
      BY <1>4, <3>1, <3>2
  <2> QED
    BY <2>1, <2>2
<1>7. s = h \o t
  BY <1>4, <1>5, <1>6, SeqEqual
<1> QED
  BY <1>7 DEF h, t

LEMMA RowTold ==
  ASSUME LoggerTypes, CaptureTypes, DriverHonest, emit_record, at' = "EMITTED", Intact'
  PROVE  Intact /\ told' = Append(told, Row)
<1>1. /\ file \in Seq(Records) /\ queue \in Seq(Records) /\ Written \in Seq(Records)
      /\ file \o Written \in Seq(Records)
  BY ToldType, ConcatProperties DEF LoggerTypes
<1>2. /\ queue' = Append(queue, Row)
      /\ SignalReady
      /\ UNCHANGED <<record, write_failed, file>>
  BY DEF emit_record, ms5837_logger_enqueue, EndsCapture
<1>3. Written' = Written /\ Intact
  BY <1>2 DEF SignalReady, Written, Intact
<1> QED
  BY <1>1, <1>2, <1>3, RowType, AppendBehind DEF told

(* As long as nothing is lost, nothing else adds to what is told.          *)
LEMMA ToldKept ==
  ASSUME LoggerTypes, Course, [NextCapture]_captureVars, Intact',
         ~(emit_record /\ at' = "EMITTED")
  PROVE  Intact /\ told' = told
<1>0. /\ file \in Seq(Records) /\ queue \in Seq(Records) /\ Written \in Seq(Records)
      /\ file \o Written \in Seq(Records)
  BY ToldType, ConcatProperties DEF LoggerTypes
<1>1. ASSUME UNCHANGED <<file, queue, write_failed>>, worker # "note",
             UNCHANGED <<worker, record>> \/ (worker # "write" /\ worker' # "write")
      PROVE  Intact /\ told' = told
  BY <1>1 DEF Intact, told, Written
<1>4. CASE Decides
  <2>1. worker = "decide" /\ UNCHANGED <<write_failed, file>> /\ Written = <<>>
    BY <1>4 DEF Decides, LoggerStep, Written
  <2>2. CASE UNCHANGED <<queue, record>> /\ worker' \in {"done", "wait"}
    BY <1>1, <2>1, <2>2
  <2>3. CASE queue # <<>> /\ worker' = "write" /\ record' = Head(queue) /\ queue' = Tail(queue)
    <3>1. Written' = <<Head(queue)>>
      BY <2>3 DEF Written
    <3>2. /\ <<Head(queue)>> \in Seq(Records) /\ Tail(queue) \in Seq(Records)
          /\ queue = <<Head(queue)>> \o Tail(queue)
      <4>1. Head(queue) \in Records /\ Tail(queue) \in Seq(Records)
        BY <1>0, <2>3, HeadTailProperties
      <4>2. queue = <<Head(queue)>> \o Tail(queue)
        BY <1>0, <2>3, HeadThenTail
      <4> QED
        BY <4>1, <4>2
    <3>3. told = file \o queue
      BY <1>0, <2>1, ConcatEmptySeq DEF told
    <3>4. told' = (file \o <<Head(queue)>>) \o Tail(queue)
      BY <2>1, <2>3, <3>1 DEF told
    <3>5. told' = told
      BY <1>0, <3>2, <3>3, <3>4, ConcatAssociative
    <3> QED
      BY <2>1, <3>5 DEF Intact
  <2>4. (UNCHANGED <<queue, record>> /\ worker' \in {"done", "wait"})
        \/ (queue # <<>> /\ worker' = "write" /\ record' = Head(queue) /\ queue' = Tail(queue))
    BY <1>4 DEF Decides
  <2> QED
    BY <2>1, <2>2, <2>3, <2>4
<1>5. CASE write_record
  <2>1. /\ worker = "write" /\ worker' = "lock" /\ file' = Append(file, record)
        /\ UNCHANGED <<queue, write_failed>> /\ record \in Records
    BY <1>5 DEF write_record, LoggerStep, LoggerTypes, Intact
  <2>2. file' = file \o <<record>> /\ file' \in Seq(Records)
    BY <1>0, <2>1, AppendIsConcat, AppendProperties
  <2>3. told = (file \o <<record>>) \o queue
    BY <2>1 DEF told, Written
  <2>4. told' = (file' \o <<>>) \o queue
    BY <2>1 DEF told, Written
  <2>5. told' = told
    BY <2>2, <2>3, <2>4, ConcatEmptySeq
  <2> QED
    BY <2>1, <2>5 DEF Intact
<1>6. CASE NotesFailure
  BY <1>6 DEF NotesFailure, Intact
<1>7. CASE Locks \/ SpuriousWakeup
  BY <1>1, <1>7 DEF Locks, SpuriousWakeup, LoggerStep
<1>8. CASE ms5837_logger_start
  BY <1>1, <1>8 DEF ms5837_logger_start, Course, Intact
<1>9. CASE StopLogger
  BY <1>1, <1>9 DEF StopLogger, SignalStop, SignalReady, Intact
<1>10. CASE UNCHANGED logger
  BY <1>1, <1>10 DEF logger, Intact
<1>11. CASE emit_record
  BY <1>10, <1>11 DEF emit_record
<1> QED
  BY <1>4, <1>5, <1>6, <1>7, <1>8, <1>9, <1>10, <1>11
  DEF NextCapture, main, initialize_with_retry, StartRT, WarmUpTurn, WarmUpEnds,
      StopBeforePhase, BeginPhase, StopSeen, ServeTurn, gate_advance, RuntimeExhausted,
      NextPair, PhaseDone, sleep_owner_turn, JoinLogger, ms5837_driver_shutdown, OwnerFails,
      request_stop, logger_thread, captureVars, ExitsWith, EndsCapture

-----------------------------------------------------------------------------
(* A row more                                                              *)

LEMMA Appended ==
  ASSUME NEW s \in Seq(Records), NEW r \in Records
  PROVE  /\ Len(s) \in Nat /\ Append(s, r) \in Seq(Records) /\ Append(s, r) # <<>>
         /\ Len(Append(s, r)) = Len(s) + 1
         /\ Append(s, r)[Len(s) + 1] = r
         /\ \A i \in 1..Len(s) : Append(s, r)[i] = s[i] /\ s[i] \in Records
BY AppendProperties, LenProperties, ElementOfSeq

LEMMA GateOrderAppend ==
  ASSUME NEW s \in Seq(Records), NEW r \in Records,
         GateOrder(s),
         r.n = Len(s) + 1,
         r.gate = GateTold(s, r.phase) + 1 + r.skipped,
         s # <<>> /\ s[Len(s)].phase # r.phase =>
           s[Len(s)].phase = "ZERO" /\ s[Len(s)].gate = ZeroGates
  PROVE  GateOrder(Append(s, r))
<1> DEFINE t == Append(s, r)
<1>1. /\ Len(s) \in Nat /\ Len(t) = Len(s) + 1
      /\ t[Len(s) + 1] = r
      /\ \A i \in 1..Len(s) : t[i] = s[i]
  BY Appended
<1> HIDE DEF t
<1>2. ASSUME NEW i \in 1..Len(t)
      PROVE  /\ t[i].n = i
             /\ t[i].gate = (IF i > 1 /\ t[i - 1].phase = t[i].phase THEN t[i - 1].gate ELSE 0)
                              + 1 + t[i].skipped
             /\ i < Len(t) /\ t[i + 1].phase # t[i].phase =>
                  t[i].phase = "ZERO" /\ t[i].gate = ZeroGates
  <2>1. CASE i = Len(s) + 1
    <3>1. t[i] = r /\ ~(i < Len(t))
      BY <1>1, <2>1
    <3>2. GateTold(s, r.phase) = IF i > 1 /\ t[i - 1].phase = t[i].phase THEN t[i - 1].gate ELSE 0
      <4>1. CASE s = <<>>
        <5>1. ~(i > 1)
          BY <2>1, <4>1
        <5> QED
          BY <4>1, <5>1 DEF GateTold
      <4>2. CASE s # <<>>
        <5>1. Len(s) \in 1..Len(s) /\ i > 1 /\ i - 1 = Len(s)
          BY <1>1, <2>1, <4>2, EmptySeq
        <5>2. t[i - 1] = s[Len(s)]
          BY <1>1, <5>1
        <5> QED
          BY <3>1, <4>2, <5>1, <5>2 DEF GateTold
      <4> QED
        BY <4>1, <4>2
    <3> QED
      BY <2>1, <3>1, <3>2
  <2>2. CASE i # Len(s) + 1
    <3>1. i \in 1..Len(s) /\ t[i] = s[i]
      BY <1>1, <1>2, <2>2
    <3>2. i > 1 => t[i - 1] = s[i - 1]
      <4>1. i > 1 => i - 1 \in 1..Len(s)
        BY <1>1, <3>1
      <4> QED
        BY <1>1, <4>1
    <3>3. ASSUME t[i + 1].phase # t[i].phase
          PROVE  t[i].phase = "ZERO" /\ t[i].gate = ZeroGates
      <4>1. CASE i = Len(s)
        <5>1. t[i + 1] = r /\ s # <<>>
          BY <1>1, <3>1, <4>1
        <5> QED
          BY <3>1, <3>3, <4>1, <5>1
      <4>2. CASE i < Len(s)
        <5>1. i + 1 \in 1..Len(s)
          BY <1>1, <3>1, <4>2
        <5>2. t[i + 1] = s[i + 1]
          BY <1>1, <5>1
        <5> QED
          BY <3>1, <3>3, <4>2, <5>2 DEF GateOrder
      <4> QED
        BY <1>1, <3>1, <4>1, <4>2
    <3>4. /\ s[i].n = i
          /\ s[i].gate = (IF i > 1 /\ s[i - 1].phase = s[i].phase THEN s[i - 1].gate ELSE 0)
                           + 1 + s[i].skipped
      BY <3>1 DEF GateOrder
    <3> QED
      BY <3>1, <3>2, <3>3, <3>4
  <2> QED
    BY <2>1, <2>2
<1> QED
  BY <1>2 DEF GateOrder, t

LEMMA FreshAppend ==
  ASSUME NEW s \in Seq(Records), NEW r \in Records, NEW m \in Nat, NEW m2 \in Nat,
         FreshOrder(s), FreshUpTo(s, m), m <= m2,
         r.fresh => m < r.sample /\ r.sample <= m2
  PROVE  FreshOrder(Append(s, r)) /\ FreshUpTo(Append(s, r), m2)
<1> DEFINE t == Append(s, r)
<1>1. /\ Len(s) \in Nat /\ Len(t) = Len(s) + 1
      /\ t[Len(s) + 1] = r
      /\ \A i \in 1..Len(s) : t[i] = s[i] /\ s[i].sample \in Nat
  BY Appended DEF Records
<1>2. r.sample \in Nat
  BY DEF Records
<1> HIDE DEF t
<1>3. ASSUME NEW i \in 1..Len(t), t[i].fresh PROVE t[i].sample <= m2
  <2>1. CASE i = Len(s) + 1
    BY <1>1, <1>3, <2>1
  <2>2. CASE i # Len(s) + 1
    <3>1. i \in 1..Len(s)
      BY <1>1, <1>3, <2>2
    <3>2. s[i].sample <= m /\ s[i].sample \in Nat /\ t[i] = s[i]
      BY <1>1, <1>3, <3>1 DEF FreshUpTo
    <3> QED
      BY <3>2
  <2> QED
    BY <2>1, <2>2
<1>4. ASSUME NEW i \in 1..Len(t), NEW j \in 1..Len(t), i < j, t[i].fresh, t[j].fresh
      PROVE  t[i].sample < t[j].sample
  <2>1. i \in 1..Len(s) /\ t[i] = s[i] /\ s[i].sample \in Nat
    BY <1>1, <1>4
  <2>2. CASE j = Len(s) + 1
    <3>1. t[j] = r
      BY <1>1, <2>2
    <3>2. s[i].sample <= m
      BY <1>4, <2>1 DEF FreshUpTo
    <3>3. m < r.sample
      BY <1>4, <3>1
    <3> QED
      BY <1>2, <2>1, <3>1, <3>2, <3>3
  <2>3. CASE j # Len(s) + 1
    <3>1. j \in 1..Len(s) /\ t[j] = s[j]
      BY <1>1, <1>4, <2>3
    <3> QED
      BY <1>4, <2>1, <3>1 DEF FreshOrder
  <2> QED
    BY <2>2, <2>3
<1> QED
  BY <1>3, <1>4 DEF FreshOrder, FreshUpTo, t

-----------------------------------------------------------------------------
(* The ledger, step by step                                                *)

(* What orders the rows stays while they do and the publisher moves on.    *)
LEMMA OrderedKept ==
  ASSUME LoggerTypes, CaptureTypes, CaptureTypes', Ordered, told' = told,
         zero_requested' <=> zero_requested,
         publisher.previous <= publisher'.previous,
         status' # "DROPPED" =>
           \/ status # "DROPPED" /\ publisher'.next = publisher.next
           \/ told = <<>> /\ publisher'.next = 1,
         phase' = "ZERO" => phase = "ZERO" \/ told = <<>>
  PROVE  Ordered'
<1>1. told \in Seq(Records) /\ Len(told) \in Nat /\ (told = <<>> => Len(told) = 0)
  BY ToldType, LenProperties, EmptySeq
<1>2. publisher.previous \in Nat /\ publisher'.previous \in Nat
  BY DEF CaptureTypes
<1>3. ASSUME NEW i \in 1..Len(told) PROVE told[i].sample \in Nat
  <2>1. told[i] \in Records
    BY <1>1, ElementOfSeq
  <2> QED
    BY <2>1 DEF Records
<1>4. GateOrder(told') /\ FreshOrder(told')
  BY DEF Ordered
<1>5. FreshUpTo(told', publisher'.previous)
  BY <1>2, <1>3 DEF Ordered, FreshUpTo
<1>6. status' # "DROPPED" => publisher'.next = Len(told') + 1
  BY <1>1 DEF Ordered
<1>7. \A i \in 1..Len(told') : told'[i].phase = "ZERO" => zero_requested'
  BY DEF Ordered
<1>8. phase' = "ZERO" => \A i \in 1..Len(told') : told'[i].phase = "ZERO"
  BY <1>1 DEF Ordered
<1> QED
  BY <1>4, <1>5, <1>6, <1>7, <1>8 DEF Ordered

Steady == <<stop_requested, zero_requested, phase, publisher, gate, skipped, driver>>

(* The capture ends with a status the rows bear out.                       *)
LEMMA EndsLedger ==
  ASSUME LoggerTypes, CaptureTypes, CaptureTypes', Ledger, Course,
         told' = told, at \notin Over, UNCHANGED Steady,
         NEW s, EndsCapture(s),
         s = "OK" =>
           /\ \/ phase = "RUN" /\ GateTold(told, phase) = RunGates
              \/ stop_requested /\ GateTold(told, phase) = 0
           /\ zero_requested /\ phase = "RUN" => ZeroTold(told),
         s = "EXHAUSTED" =>
           /\ told # <<>>
           /\ told[Len(told)].driver = "STOPPED"
           /\ told[Len(told)].sample = 0
  PROVE  Ledger'
<1>1. UNCHANGED <<phase, publisher>> /\ (zero_requested' <=> zero_requested)
      /\ (stop_requested' <=> stop_requested) /\ status = "OK"
  BY DEF Steady, Course
<1>2. publisher.previous <= publisher'.previous
  BY <1>1 DEF CaptureTypes
<1>3. Ordered'
  BY <1>1, <1>2, OrderedKept DEF Ledger
<1>4. at' = "STOP_LOGGER" /\ status' = s /\ (result' = 0 => s = "OK")
  BY DEF EndsCapture
<1>5. Progress'
  BY <1>4 DEF Progress, Beginning, Turning
<1>6. Ending'
  <2>1. ASSUME result' = 0
        PROVE  /\ at' \in Over
               /\ \/ phase' = "RUN" /\ GateTold(told', phase') = RunGates
                  \/ stop_requested' /\ GateTold(told', phase') = 0
               /\ zero_requested' /\ phase' = "RUN" => ZeroTold(told')
    BY <1>1, <1>4, <2>1 DEF Over
  <2> QED
    BY <1>4, <2>1 DEF Ending
<1> QED
  BY <1>3, <1>5, <1>6 DEF Ledger

(* A step after which the capture goes on has no end to account for.       *)
LEMMA GoesOn ==
  ASSUME at' \notin Over, Course'
  PROVE  Ending'
BY DEF Course, Ending

(* A step that moves neither main nor the driver.                          *)
LEMMA SteadyLedger ==
  ASSUME LoggerTypes, CaptureTypes, CaptureTypes', Ledger, told' = told,
         UNCHANGED <<at, status, result, zero_requested, phase, publisher, gate, skipped, driver>>,
         stop_requested => stop_requested'
  PROVE  Ledger'
<1>1. publisher.previous <= publisher'.previous
  BY DEF CaptureTypes
<1>2. Ordered'
  BY <1>1, OrderedKept DEF Ledger
<1>3. UNCHANGED <<drv, SampleOffered>>
  BY DEF driver, SampleOffered
<1>4. Progress'
  BY <1>3 DEF Ledger, Progress, LastGate
<1>5. Ending'
  BY DEF Ledger, Ending
<1> QED
  BY <1>2, <1>4, <1>5 DEF Ledger

(* Main after the capture: the exit status only gets worse.                *)
LEMMA OverLedger ==
  ASSUME LoggerTypes, CaptureTypes, CaptureTypes', Ledger, told' = told,
         at' \in Over, result' = 0 => result = 0,
         UNCHANGED <<status, stop_requested, zero_requested, phase, publisher>>
  PROVE  Ledger'
<1>1. publisher.previous <= publisher'.previous
  BY DEF CaptureTypes
<1>2. Ordered'
  BY <1>1, OrderedKept DEF Ledger
<1>3. Progress'
  BY DEF Progress, Over, Beginning, Turning
<1>4. Ending'
  BY DEF Ledger, Ending
<1> QED
  BY <1>2, <1>3, <1>4 DEF Ledger

(* A row accepted: it is the next, for the gate that is due, and fresh     *)
(* only if it was not told before.                                         *)
LEMMA EmittedLedger ==
  ASSUME LoggerTypes, CaptureTypes, CaptureTypes', DriverHonest, Course, Course', Ledger,
         emit_record, at' = "EMITTED", told' = Append(told, Row)
  PROVE  Ledger'
<1>1. /\ at = "EMIT" /\ status = "OK" /\ UNCHANGED <<phase, gate, skipped, zero_requested>>
      /\ publisher' = ms5837_publish_evaluate /\ UNCHANGED driver
  BY DEF emit_record, Course, Over
<1>2. told \in Seq(Records) /\ Row \in Records /\ Len(told) \in Nat
  BY ToldType, RowType, LenProperties
<1>3. /\ Len(told') = Len(told) + 1 /\ told'[Len(told) + 1] = Row /\ told' # <<>>
      /\ \A i \in 1..Len(told) : told'[i] = told[i]
  BY <1>2, Appended
<1>4. /\ Row.n = publisher.next /\ Row.phase = phase /\ Row.gate = gate.last
      /\ Row.skipped = skipped /\ Row.driver = drv /\ Row.sample = SampleOffered
      /\ Row.fresh <=> ready /\ sequence > publisher.previous
  BY DEF Row
<1>5. /\ publisher.next \in Nat /\ publisher.previous \in Nat /\ sequence \in Nat
      /\ publisher.previous <= sequence /\ gate.last \in Nat /\ skipped \in Nat
      /\ phase \in PhaseNames
  BY DEF CaptureTypes, DriverHonest
<1>6. /\ publisher'.next = publisher.next + 1
      /\ publisher'.previous = IF ready THEN sequence ELSE publisher.previous
  BY <1>1 DEF ms5837_publish_evaluate
<1>7. /\ Ordered
      /\ GateTold(told, phase) + 1 + skipped = gate.last
      /\ gate.last <= LastGate
      /\ zero_requested /\ phase = "RUN" => ZeroTold(told)
      /\ publisher.next = Len(told) + 1
  BY <1>1 DEF Ledger, Progress, Ordered, Turning
<1>8. told # <<>> => Len(told) \in 1..Len(told)
  BY <1>2, EmptySeq
<1> HIDE DEF Row
<1>9. told # <<>> /\ told[Len(told)].phase # phase =>
        told[Len(told)].phase = "ZERO" /\ told[Len(told)].gate = ZeroGates
  <2>1. SUFFICES ASSUME told # <<>>, told[Len(told)].phase # phase
                 PROVE  told[Len(told)].phase = "ZERO" /\ told[Len(told)].gate = ZeroGates
    OBVIOUS
  <2>2. told[Len(told)] \in Records
    BY <1>2, <1>8, <2>1, ElementOfSeq
  <2>3. phase = "RUN" /\ told[Len(told)].phase = "ZERO"
    <3>1. phase # "ZERO"
      BY <1>7, <1>8, <2>1 DEF Ordered
    <3> QED
      BY <1>5, <2>1, <2>2, <3>1 DEF PhaseNames, Records
  <2>4. zero_requested
    BY <1>7, <1>8, <2>1, <2>3 DEF Ordered
  <2> QED
    BY <1>7, <2>3, <2>4 DEF ZeroTold
<1>10. GateOrder(told')
  <2>1. Row.gate = GateTold(told, Row.phase) + 1 + Row.skipped
    BY <1>4, <1>7
  <2>2. GateOrder(told) /\ Row.n = Len(told) + 1
    BY <1>4, <1>7 DEF Ordered
  <2> QED
    BY <1>2, <1>4, <1>9, <2>1, <2>2, GateOrderAppend
<1>11. FreshOrder(told') /\ FreshUpTo(told', publisher'.previous)
  <2>1. /\ publisher'.previous \in Nat /\ publisher.previous <= publisher'.previous
        /\ Row.fresh => publisher.previous < Row.sample /\ Row.sample <= publisher'.previous
    BY <1>4, <1>5, <1>6 DEF SampleOffered
  <2> QED
    BY <1>2, <1>5, <1>7, <2>1, FreshAppend DEF Ordered
<1>12. \A i \in 1..Len(told') : i \in 1..Len(told) \/ i = Len(told) + 1
  BY <1>2, <1>3
<1>13. /\ \A i \in 1..Len(told') : told'[i].phase = "ZERO" => zero_requested'
       /\ phase' = "ZERO" => \A i \in 1..Len(told') : told'[i].phase = "ZERO"
  <2>1. phase = "ZERO" => zero_requested
    BY DEF Course
  <2> QED
    BY <1>1, <1>3, <1>4, <1>7, <1>12, <2>1 DEF Ordered
<1>14. Ordered'
  BY <1>2, <1>3, <1>6, <1>7, <1>10, <1>11, <1>13 DEF Ordered
<1>15. Progress'
  <2>1. GateTold(told', phase') = gate'.last
    BY <1>1, <1>2, <1>3, <1>4 DEF GateTold
  <2>2. gate'.last <= LastGate'
    BY <1>1, <1>7 DEF LastGate
  <2>3. zero_requested' /\ phase' = "RUN" => ZeroTold(told')
    <3>1. zero_requested' /\ phase' = "RUN" => told # <<>> /\ told[1].phase = "ZERO"
      BY <1>1, <1>7 DEF ZeroTold
    <3>2. told # <<>> => told'[1] = told[1]
      BY <1>2, <1>3, EmptySeq
    <3>3. phase' = "RUN" => told'[Len(told')].phase # "ZERO"
      BY <1>1, <1>3, <1>4
    <3> QED
      BY <1>3, <3>1, <3>2, <3>3 DEF ZeroTold
  <2>4. /\ told'[Len(told')].driver = drv'
        /\ told'[Len(told')].sample = SampleOffered'
    BY <1>1, <1>3, <1>4 DEF driver, SampleOffered
  <2> QED
    BY <1>3, <2>1, <2>2, <2>3, <2>4 DEF Progress, Beginning, Turning
<1>16. Ending'
  BY GoesOn DEF Over
<1> QED
  BY <1>14, <1>15, <1>16 DEF Ledger

(* Nothing is told before a phase begins.                                  *)
LEMMA BeginningLedger ==
  ASSUME LoggerTypes, CaptureTypes, CaptureTypes', Course', Ledger, told' = told,
         at \in Beginning, at' \in Beginning,
         UNCHANGED <<status, zero_requested, phase, publisher>>
  PROVE  Ledger'
<1>1. publisher.previous <= publisher'.previous
  BY DEF CaptureTypes
<1>2. Ordered'
  BY <1>1, OrderedKept DEF Ledger
<1>3. told' = <<>>
  BY DEF Ledger, Progress
<1>4. Progress'
  BY <1>3 DEF Progress, Beginning, Turning
<1>5. Ending'
  BY GoesOn DEF Beginning, Over
<1> QED
  BY <1>2, <1>4, <1>5 DEF Ledger

LEMMA WarmUpLedger ==
  ASSUME LoggerTypes, CaptureTypes, CaptureTypes', DriverHonest, Course', Ledger,
         told' = told, WarmUpTurn
  PROVE  Ledger'
<1>1. at = "WARM_UP" /\ UNCHANGED <<status, zero_requested>>
  BY DEF WarmUpTurn
<1>2. told = <<>>
  BY <1>1 DEF Ledger, Progress, Beginning
<1>3. CASE ready'
  <2>1. /\ at' = "PHASE"
        /\ phase' = IF zero_requested THEN "ZERO" ELSE "RUN"
        /\ publisher' = [next |-> 1, previous |-> sequence']
    BY <1>3 DEF WarmUpTurn
  <2>2. publisher.previous <= publisher'.previous
    <3>1. sequence \in Nat /\ sequence' \in Nat /\ sequence <= sequence'
      BY ServiceMoves, DriverOffers DEF WarmUpTurn, DriverHonest
    <3>2. publisher.previous \in Nat /\ publisher.previous <= sequence
      BY DEF DriverHonest, CaptureTypes
    <3> QED
      BY <2>1, <3>1, <3>2
  <2>3. Ordered'
    <3>1. publisher'.next = 1
      BY <2>1
    <3> QED
      BY <1>1, <1>2, <2>2, <3>1, OrderedKept DEF Ledger
  <2>4. GateTold(told', phase') = 0
    BY <1>2 DEF GateTold
  <2>5. ~(zero_requested' /\ phase' = "RUN")
    BY <1>1, <2>1
  <2>6. Progress'
    BY <2>1, <2>4, <2>5 DEF Progress, Beginning, Turning
  <2>7. Ending'
    BY <2>1, GoesOn DEF Over
  <2> QED
    BY <2>3, <2>6, <2>7 DEF Ledger
<1>4. CASE ~ready'
  <2>1. UNCHANGED <<at, phase, publisher>>
    BY <1>4 DEF WarmUpTurn
  <2> QED
    BY <1>1, <2>1, BeginningLedger DEF Beginning
<1> QED
  BY <1>3, <1>4

LEMMA PhaseLedger ==
  ASSUME LoggerTypes, CaptureTypes, CaptureTypes', DriverHonest, Course', Ledger,
         told' = told,
         BeginPhase \/ ServeTurn \/ NextPair \/ sleep_owner_turn
  PROVE  Ledger'
<1>1. /\ UNCHANGED <<status, zero_requested, phase, publisher>>
      /\ at' \in {"LOOP", "EMIT", "SLEEP"}
      /\ at \in {"PHASE", "LOOP", "EMITTED", "SLEEP"}
  BY DEF BeginPhase, ServeTurn, NextPair, sleep_owner_turn, gate_advance, course, capture
<1>2. publisher.previous <= publisher'.previous
  BY <1>1 DEF CaptureTypes
<1>3. Ordered'
  BY <1>1, <1>2, OrderedKept DEF Ledger
<1>4. Ending'
  BY <1>1, GoesOn DEF Over
<1>5. LastGate' = LastGate /\ LastGate \in Nat /\ gate.last \in Nat
  BY <1>1, CaptureConstants DEF LastGate, GatesIn, CaptureTypes
<1>6. /\ at' = "EMIT" => GateTold(told, phase) + 1 + skipped' = gate'.last
      /\ at' # "EMIT" => GateTold(told, phase) = gate'.last
      /\ gate'.last <= LastGate
  <2>1. CASE BeginPhase
    <3>1. at' = "LOOP" /\ gate'.last = 0 /\ at = "PHASE"
      BY <2>1 DEF BeginPhase
    <3> QED
      BY <1>5, <3>1 DEF Ledger, Progress
  <2>2. CASE ServeTurn
    <3>1. at = "LOOP" /\ gate_advance
      BY <2>2 DEF ServeTurn
    <3>2. gate.last = GateTold(told, phase) /\ gate.last <= LastGate
      BY <3>1 DEF Ledger, Progress, Turning
    <3> QED
      BY <3>1, <3>2, GateTypes
  <2>3. CASE NextPair
    <3>1. at = "EMITTED" /\ at' = "SLEEP" /\ UNCHANGED gate
      BY <2>3 DEF NextPair, capture
    <3> QED
      BY <3>1 DEF Ledger, Progress, Turning
  <2>4. CASE sleep_owner_turn
    <3>1. at = "SLEEP" /\ at' = "LOOP" /\ gate'.last = gate.last
      BY <2>4 DEF sleep_owner_turn, CaptureTypes
    <3> QED
      BY <3>1 DEF Ledger, Progress, Turning
  <2> QED
    BY <2>1, <2>2, <2>3, <2>4
<1>7. zero_requested /\ phase = "RUN" => ZeroTold(told)
  BY <1>1 DEF Ledger, Progress, Turning
<1>8. Progress'
  BY <1>1, <1>5, <1>6, <1>7 DEF Progress, Beginning, Turning
<1> QED
  BY <1>3, <1>4, <1>8 DEF Ledger

(* The last gate of a phase is told when the phase is done.                *)
LEMMA DoneLedger ==
  ASSUME LoggerTypes, CaptureTypes, CaptureTypes', Course, Course', Ledger, told' = told,
         PhaseDone
  PROVE  Ledger'
<1>1. /\ at = "EMITTED" /\ WindowDone
      /\ UNCHANGED <<stop_requested, zero_requested, gate, skipped, publisher, driver>>
  BY DEF PhaseDone
<1>2. GateTold(told, phase) = LastGate
  <2>1. GateTold(told, phase) = gate.last /\ gate.last <= LastGate /\ gate.last >= LastGate
    BY <1>1 DEF Ledger, Progress, Turning, WindowDone
  <2> QED
    BY <2>1, CaptureConstants DEF CaptureTypes, LastGate, GatesIn
<1>3. zero_requested /\ phase = "RUN" => ZeroTold(told)
  BY <1>1 DEF Ledger, Progress, Turning
<1>4. CASE EndsCapture("STOPPED") /\ UNCHANGED phase
  BY <1>1, <1>4, EndsLedger DEF Over, Steady
<1>5. CASE phase = "RUN" /\ EndsCapture("OK") /\ UNCHANGED phase
  BY <1>1, <1>2, <1>3, <1>5, EndsLedger DEF Over, Steady, LastGate, GatesIn
<1>6. CASE phase = "ZERO" /\ phase' = "RUN" /\ at' = "PHASE" /\ UNCHANGED <<status, result>>
  <2>1. publisher.previous <= publisher'.previous
    BY <1>1 DEF CaptureTypes
  <2>2. Ordered'
    BY <1>1, <1>6, <2>1, OrderedKept DEF Ledger
  <2>3. Ending'
    BY <1>6, GoesOn DEF Over
  <2>4. /\ told # <<>> /\ 1 \in 1..Len(told) /\ Len(told) \in 1..Len(told)
        /\ told[1].phase = "ZERO" /\ told[Len(told)].phase = "ZERO"
        /\ told[Len(told)].gate = ZeroGates
    <3>1. told # <<>> /\ told \in Seq(Records)
      BY <1>1, ToldType DEF Ledger, Progress
    <3>2. 1 \in 1..Len(told) /\ Len(told) \in 1..Len(told)
      BY <3>1, EmptySeq
    <3>3. told[1].phase = "ZERO" /\ told[Len(told)].phase = "ZERO"
      BY <1>6, <3>2 DEF Ledger, Ordered
    <3> QED
      BY <1>2, <1>6, <3>1, <3>2, <3>3 DEF GateTold, LastGate, GatesIn
  <2>5. GateTold(told', phase') = 0 /\ ZeroTold(told')
    BY <1>6, <2>4 DEF GateTold, ZeroTold
  <2>6. Progress'
    BY <1>6, <2>5 DEF Progress, Beginning, Turning
  <2> QED
    BY <2>2, <2>3, <2>6 DEF Ledger
<1> QED
  BY <1>4, <1>5, <1>6 DEF PhaseDone

(* The steps that end the capture, but for the last gate.                  *)
LEMMA EarlyEndLedger ==
  ASSUME LoggerTypes, CaptureTypes, CaptureTypes', DriverHonest, Course, Ledger,
         told' = told, at \notin Over, UNCHANGED Steady,
         \/ EndsCapture("STOPPED")
         \/ EndsCapture("FAILED")
         \/ StopBeforePhase
         \/ RuntimeExhausted
  PROVE  Ledger'
<1>1. CASE EndsCapture("STOPPED") \/ EndsCapture("FAILED")
  BY <1>1, EndsLedger
<1>2. CASE StopBeforePhase
  <2>1. at = "PHASE" /\ stop_requested /\ EndsCapture("OK")
    BY <1>2 DEF StopBeforePhase
  <2>2. /\ GateTold(told, phase) = 0
        /\ zero_requested /\ phase = "RUN" => ZeroTold(told)
    BY <2>1 DEF Ledger, Progress
  <2> QED
    BY <2>1, <2>2, EndsLedger
<1>3. CASE RuntimeExhausted
  <2>1. at = "EMITTED" /\ drv = "STOPPED" /\ EndsCapture("EXHAUSTED")
    BY <1>3 DEF RuntimeExhausted, DriverExhausted
  <2>2. SampleOffered = 0
    BY <2>1 DEF SampleOffered, DriverHonest
  <2>3. /\ told # <<>>
        /\ told[Len(told)].driver = "STOPPED"
        /\ told[Len(told)].sample = 0
    BY <2>1, <2>2 DEF Ledger, Progress
  <2> QED
    BY <2>1, <2>3, EndsLedger
<1> QED
  BY <1>1, <1>2, <1>3

(* A row refused: the capture ends with a drop.                            *)
LEMMA DroppedLedger ==
  ASSUME LoggerTypes, CaptureTypes, CaptureTypes', DriverHonest, Course, Ledger,
         told' = told, emit_record, at' # "EMITTED"
  PROVE  Ledger'
<1>1. /\ at' = "STOP_LOGGER" /\ status' = "DROPPED" /\ result' = 1
      /\ UNCHANGED <<phase, zero_requested>> /\ publisher' = ms5837_publish_evaluate
  BY DEF emit_record, EndsCapture
<1>2. publisher.previous <= publisher'.previous
  BY <1>1 DEF ms5837_publish_evaluate, CaptureTypes, DriverHonest
<1>3. Ordered'
  BY <1>1, <1>2, OrderedKept DEF Ledger
<1>4. Progress'
  BY <1>1 DEF Progress, Beginning, Turning
<1>5. Ending'
  BY <1>1 DEF Ending
<1> QED
  BY <1>3, <1>4, <1>5 DEF Ledger

LEMMA LedgerKept ==
  ASSUME CaptureInv, CaptureTypes', LoggerTypes', DriverHonest', Course',
         [NextCapture]_captureVars, Intact'
  PROVE  Ledger'
<1>1. CaptureTypes /\ LoggerTypes /\ DriverHonest /\ Course
  BY DEF CaptureInv
<1>2. CASE emit_record /\ at' = "EMITTED"
  <2>1. Intact /\ told' = Append(told, Row)
    BY <1>1, <1>2, RowTold
  <2> QED
    BY <1>1, <1>2, <2>1, EmittedLedger DEF CaptureInv
<1>3. CASE ~(emit_record /\ at' = "EMITTED")
  <2>1. Ledger /\ told' = told
    BY <1>1, <1>3, ToldKept DEF CaptureInv
  <2>2. CASE emit_record
    BY <1>1, <1>3, <2>1, <2>2, DroppedLedger
  <2>3. CASE initialize_with_retry \/ ms5837_logger_start
    <3>1. /\ at \in Beginning
          /\ UNCHANGED <<status, stop_requested, zero_requested, phase, publisher>>
      BY <2>3 DEF initialize_with_retry, ms5837_logger_start, Beginning, capture
    <3>2. at' \in Beginning \/ (at' = "DONE" /\ result' = 1)
      BY <2>3 DEF initialize_with_retry, ms5837_logger_start, ExitsWith, Beginning
    <3> QED
      BY <1>1, <2>1, <3>1, <3>2, BeginningLedger, OverLedger DEF Over
  <2>4. CASE StartRT
    <3>1. at = "START_RT" /\ UNCHANGED Steady
      BY <2>4 DEF StartRT, Steady, capture
    <3>2. CASE at' = "WARM_UP" /\ UNCHANGED <<status, result>>
      BY <1>1, <2>1, <3>1, <3>2, BeginningLedger DEF Beginning, Steady
    <3>3. CASE EndsCapture("FAILED")
      BY <1>1, <2>1, <3>1, <3>3, EarlyEndLedger DEF Over
    <3> QED
      BY <2>4, <3>2, <3>3 DEF StartRT
  <2>5. CASE WarmUpTurn
    BY <1>1, <2>1, <2>5, WarmUpLedger
  <2>6. CASE BeginPhase \/ ServeTurn \/ NextPair \/ sleep_owner_turn
    BY <1>1, <2>1, <2>6, PhaseLedger
  <2>7. CASE PhaseDone
    BY <1>1, <2>1, <2>7, DoneLedger
  <2>8. CASE WarmUpEnds \/ StopBeforePhase \/ StopSeen \/ RuntimeExhausted \/ OwnerFails
    <3>1. at \notin Over /\ UNCHANGED Steady
      BY <2>8 DEF WarmUpEnds, StopBeforePhase, StopSeen, RuntimeExhausted, OwnerFails, Over,
         Steady, capture
    <3>2. EndsCapture("STOPPED") \/ EndsCapture("FAILED") \/ StopBeforePhase \/ RuntimeExhausted
      BY <2>8 DEF WarmUpEnds, StopSeen, OwnerFails
    <3> QED
      BY <1>1, <2>1, <3>1, <3>2, EarlyEndLedger
  <2>9. CASE StopLogger \/ JoinLogger \/ ms5837_driver_shutdown
    <3>1. /\ at' \in Over /\ (result' = 0 => result = 0)
          /\ UNCHANGED <<status, stop_requested, zero_requested, phase, publisher>>
      BY <2>9 DEF StopLogger, JoinLogger, ms5837_driver_shutdown, Over, course, capture
    <3> QED
      BY <1>1, <2>1, <3>1, OverLedger
  <2>10. CASE request_stop \/ logger_thread \/ SpuriousWakeup \/ UNCHANGED captureVars
    <3>1. /\ UNCHANGED <<at, status, result, zero_requested, phase, publisher, gate, skipped,
                         driver>>
          /\ stop_requested => stop_requested'
      BY <2>10 DEF request_stop, logger_thread, Locks, Decides, write_record, NotesFailure,
         SpuriousWakeup, LoggerStep, captureVars, course, capture
    <3> QED
      BY <1>1, <2>1, <3>1, SteadyLedger
  <2> QED
    BY <2>2, <2>3, <2>4, <2>5, <2>6, <2>7, <2>8, <2>9, <2>10 DEF NextCapture, main
<1> QED
  BY <1>2, <1>3

LEMMA CaptureStarts == InitCapture => CaptureInv
<1> SUFFICES ASSUME InitCapture PROVE CaptureInv
  OBVIOUS
<1> USE DEF InitCapture, InitDriver
<1>1. CaptureTypes
  BY DEF CaptureTypes, Beginning, PhaseNames
<1>2. LoggerTypes
  BY EmptySeq DEF LoggerTypes
<1>3. DriverHonest
  <2>1. ready \in BOOLEAN /\ ~ready
    OBVIOUS
  <2>2. drv \in DriverStates /\ sequence = 0 /\ publisher.previous = 0
    BY DEF DriverStates
  <2> QED
    BY <2>1, <2>2 DEF DriverHonest
<1>4. Course
  BY DEF Course, Over, Beginning
<1>5. told = <<>>
  <2>1. Written = <<>> /\ file = <<>> /\ queue = <<>>
    BY DEF Written
  <2> QED
    BY <2>1, ConcatEmptySeq, EmptySeq DEF told
<1>6. Len(told) = 0 /\ 1..Len(told) = {}
  BY <1>5, EmptySeq
<1>7. Ordered
  BY <1>6 DEF Ordered, GateOrder, FreshOrder, FreshUpTo
<1>8. Progress
  BY <1>5 DEF Progress, Beginning, Turning
<1>9. Ending
  BY DEF Ending
<1> QED
  BY <1>1, <1>2, <1>3, <1>4, <1>7, <1>8, <1>9 DEF CaptureInv, Ledger

(* What an exit status of 0, and an exhaustion, stand on.                  *)
THEOREM CaptureInvariant == SpecCapture => []CaptureInv
<1>1. CaptureInv /\ [NextCapture]_captureVars => CaptureInv'
  <2> SUFFICES ASSUME CaptureInv, [NextCapture]_captureVars PROVE CaptureInv'
    OBVIOUS
  <2>1. CaptureTypes /\ LoggerTypes /\ DriverHonest /\ Course
    BY DEF CaptureInv
  <2>2. DriverHonest'
    BY <2>1, HonestyKept
  <2>3. CaptureTypes'
    BY <2>1, <2>2, TypesKept
  <2>4. LoggerTypes'
    BY <2>1, LoggerTypesKept
  <2>5. Course'
    BY <2>1, CourseKept
  <2>6. Intact' => Ledger'
    BY <2>2, <2>3, <2>4, <2>5, LedgerKept
  <2> QED
    BY <2>2, <2>3, <2>4, <2>5, <2>6 DEF CaptureInv
<1> QED
  BY <1>1, CaptureStarts, PTL DEF SpecCapture

-----------------------------------------------------------------------------
(* What the exit says of the file                                          *)

LEMMA FileIsTold ==
  ASSUME LoggerTypes, worker = "done", queue = <<>>
  PROVE  file = told /\ file \in Seq(Records) /\ DOMAIN file = 1..Len(file)
<1>1. Written = <<>> /\ file \in Seq(Records)
  BY DEF Written, LoggerTypes
<1> QED
  BY <1>1, ConcatEmptySeq, LenProperties DEF told

(* The worker is done and has lost nothing.                                *)
LEMMA FileIsComplete ==
  ASSUME CaptureInv, at = "DONE", (status = "EXHAUSTED" /\ ~write_failed) \/ result = 0
  PROVE  Ledger /\ file = told /\ file \in Seq(Records) /\ DOMAIN file = 1..Len(file)
<1>1. worker # "none" /\ ~write_failed
  BY DEF CaptureInv, Course
<1>2. worker = "done" /\ queue = <<>>
  BY <1>1 DEF CaptureInv, Course
<1> QED
  BY <1>1, <1>2, FileIsTold DEF CaptureInv, Intact

LEMMA CleanExit ==
  ASSUME CaptureInv
  PROVE  CleanExitIsWhole
<1>1. SUFFICES ASSUME at = "DONE", result = 0
               PROVE  /\ EveryGateTold
                      /\ Ran("ZERO") <=> zero_requested /\ phase = "RUN"
                      /\ Ran("RUN") \/ stop_requested
                      /\ FreshOnce
  BY DEF CleanExitIsWhole
<1>2. /\ file = told /\ file \in Seq(Records) /\ DOMAIN file = 1..Len(file)
      /\ Ledger /\ Len(file) \in Nat /\ phase \in PhaseNames
      /\ \A i \in 1..Len(file) : file[i] \in Records
  BY <1>1, FileIsComplete, LenProperties, ElementOfSeq DEF CaptureInv, CaptureTypes
<1>3. /\ GateOrder(file) /\ FreshOrder(file)
      /\ \A i \in 1..Len(file) : file[i].phase = "ZERO" => zero_requested
      /\ phase = "ZERO" => \A i \in 1..Len(file) : file[i].phase = "ZERO"
  BY <1>2 DEF Ledger, Ordered
<1>4. /\ \/ phase = "RUN" /\ GateTold(file, phase) = RunGates
         \/ stop_requested /\ GateTold(file, phase) = 0
      /\ zero_requested /\ phase = "RUN" => ZeroTold(file)
  BY <1>1, <1>2 DEF Ledger, Ending
<1>5. file # <<>> => Len(file) \in 1..Len(file)
  BY <1>2, EmptySeq
<1>6. ASSUME NEW i \in 1..Len(file) PROVE file[i].gate > 0 /\ file[i].gate \in Nat
  <2>1. /\ file[i].skipped \in Nat /\ file[i].gate \in Nat
        /\ i > 1 => file[i - 1].gate \in Nat
    <3>1. file[i] \in Records
      BY <1>2, <1>6
    <3>2. i > 1 => file[i - 1] \in Records
      BY <1>2, <1>6
    <3> QED
      BY <3>1, <3>2 DEF Records
  <2>2. file[i].gate = (IF i > 1 /\ file[i - 1].phase = file[i].phase THEN file[i - 1].gate ELSE 0)
                         + 1 + file[i].skipped
    BY <1>3, <1>6 DEF GateOrder
  <2> QED
    BY <2>1, <2>2
(* Which rows there are, by the phase main was in.                         *)
<1>7. ASSUME GateTold(file, phase) = 0
      PROVE  file = <<>> \/ (phase = "RUN" /\ file[Len(file)].phase = "ZERO")
  <2>1. file # <<>> => file[Len(file)].phase # phase
    BY <1>5, <1>6, <1>7 DEF GateTold
  <2>2. file # <<>> => file[Len(file)].phase \in PhaseNames
    BY <1>2, <1>5 DEF Records
  <2>3. file # <<>> => phase # "ZERO"
    BY <1>3, <1>5, <2>1
  <2> QED
    BY <1>2, <2>1, <2>2, <2>3 DEF PhaseNames
<1>8. ASSUME file # <<>> PROVE file[Len(file)].gate = GatesIn(file[Len(file)].phase)
  <2>1. CASE phase = "RUN" /\ GateTold(file, phase) = RunGates
    <3>1. CASE file[Len(file)].phase = "RUN"
      BY <1>8, <2>1, <3>1 DEF GateTold, GatesIn
    <3>2. CASE file[Len(file)].phase # "RUN"
      <4>1. GateTold(file, phase) = 0
        BY <2>1, <3>2 DEF GateTold
      <4> QED
        BY <2>1, <4>1, CaptureConstants
    <3> QED
      BY <3>1, <3>2
  <2>2. CASE GateTold(file, phase) = 0
    <3>1. phase = "RUN" /\ file[Len(file)].phase = "ZERO"
      BY <1>7, <1>8, <2>2
    <3>2. zero_requested
      BY <1>3, <1>5, <1>8, <3>1
    <3> QED
      BY <1>4, <3>1, <3>2 DEF ZeroTold, GatesIn
  <2> QED
    BY <1>4, <2>1, <2>2
<1>9. EveryGateTold
  <2>1. SUFFICES ASSUME NEW i \in 1..Len(file)
                 PROVE  /\ file[i].n = i
                        /\ file[i].gate = GateBefore(i) + 1 + file[i].skipped
                        /\ LastOfPhase(i) => file[i].gate = GatesIn(file[i].phase)
                        /\ i > 1 /\ file[i].phase = "ZERO" => file[i - 1].phase = "ZERO"
    BY <1>2 DEF EveryGateTold
  <2>2. /\ file[i].n = i
        /\ file[i].gate = GateBefore(i) + 1 + file[i].skipped
    BY <1>3 DEF GateOrder, GateBefore
  <2>3. LastOfPhase(i) => file[i].gate = GatesIn(file[i].phase)
    <3>1. file # <<>>
      BY <1>2, EmptySeq
    <3>2. CASE i = Len(file)
      BY <1>8, <3>1, <3>2
    <3>3. CASE i < Len(file) /\ file[i + 1].phase # file[i].phase
      BY <1>3, <3>3 DEF GateOrder, GatesIn
    <3>4. i = Len(file) \/ i < Len(file)
      <4>1. i \in 1..Len(file) /\ Len(file) \in Nat
        BY <1>2, <2>1
      <4> QED
        BY <4>1
    <3>5. CASE ~LastOfPhase(i)
      BY <3>5
    <3> QED
      BY <3>2, <3>3, <3>4, <3>5 DEF LastOfPhase
  <2>4. ASSUME i > 1, file[i].phase = "ZERO" PROVE file[i - 1].phase = "ZERO"
    <3>1. i - 1 \in 1..Len(file) /\ (i - 1) + 1 = i /\ i - 1 < Len(file)
      BY <1>2, <2>4
    <3> QED
      BY <1>3, <2>4, <3>1 DEF GateOrder
  <2> QED
    BY <2>2, <2>3, <2>4
<1>10. Ran("ZERO") <=> zero_requested /\ phase = "RUN"
  <2>1. ASSUME Ran("ZERO") PROVE zero_requested /\ phase = "RUN"
    <3>1. PICK i \in 1..Len(file) : file[i].phase = "ZERO"
      BY <1>2, <2>1 DEF Ran
    <3>2. file # <<>>
      BY <1>2, <3>1, EmptySeq
    <3> QED
      BY <1>3, <1>4, <1>7, <3>1, <3>2
  <2>2. ASSUME zero_requested, phase = "RUN" PROVE Ran("ZERO")
    <3>1. file # <<>> /\ file[1].phase = "ZERO"
      BY <1>4, <2>2 DEF ZeroTold
    <3>2. 1 \in 1..Len(file)
      BY <1>2, <1>5, <3>1
    <3> QED
      BY <1>2, <3>1, <3>2 DEF Ran
  <2> QED
    BY <2>1, <2>2
<1>11. Ran("RUN") \/ stop_requested
  <2>1. ASSUME phase = "RUN", GateTold(file, phase) = RunGates PROVE Ran("RUN")
    <3>1. file # <<>> /\ file[Len(file)].phase = "RUN"
      BY <2>1, CaptureConstants DEF GateTold
    <3> QED
      BY <1>2, <1>5, <3>1 DEF Ran
  <2> QED
    BY <1>4, <2>1
<1>12. FreshOnce
  <2>1. SUFFICES ASSUME NEW i \in 1..Len(file), NEW j \in 1..Len(file), file[i].fresh,
                        file[j].fresh, file[i].sample = file[j].sample
                 PROVE  i = j
    BY <1>2 DEF FreshOnce
  <2>2. file[i].sample \in Nat /\ file[j].sample \in Nat
    BY <1>2 DEF Records
  <2>3. ~(i < j) /\ ~(j < i)
    BY <1>3, <2>1, <2>2 DEF FreshOrder
  <2> QED
    BY <1>2, <2>3
<1> QED
  BY <1>9, <1>10, <1>11, <1>12

LEMMA ToldExhaustion ==
  ASSUME CaptureInv
  PROVE  ExhaustionIsTold
<1>1. SUFFICES ASSUME at = "DONE", status = "EXHAUSTED"
               PROVE  /\ result = 1
                      /\ ~write_failed =>
                           /\ file # <<>>
                           /\ Last(file).driver = "STOPPED"
                           /\ Last(file).sample = 0
  BY DEF ExhaustionIsTold, EndedWith
<1>2. result = 1
  BY <1>1 DEF CaptureInv, Course
<1>3. ASSUME ~write_failed
      PROVE  file # <<>> /\ Last(file).driver = "STOPPED" /\ Last(file).sample = 0
  BY <1>1, <1>3, FileIsComplete DEF Ledger, Ending, Last
<1> QED
  BY <1>2, <1>3

(* For any number of gates, queue places and overruns: after exit status 0 *)
(* the file accounts for every gate of every phase that ran and tells no   *)
(* measurement fresh twice, and an exhausted recovery is the last row.     *)
THEOREM ExitTellsOfFile == SpecCapture => []ExitAgreesWithFile
<1>1. CaptureInv => ExitAgreesWithFile
  BY CleanExit, ToldExhaustion DEF ExitAgreesWithFile
<1> QED
  BY <1>1, CaptureInvariant, PTL

(* The capture is an owner as the driver's contract has it: every step it  *)
(* takes with the driver is one the contract allows.                       *)
THEOREM CaptureKeepsContract == SpecCapture => SpecDriver
<1>1. InitCapture => InitDriver
  BY DEF InitCapture
<1>2. [NextCapture]_captureVars => [NextDriver]_driver
  <2>1. service_once \/ ms5837_driver_trigger \/ trigger_if_idle => [NextDriver]_driver
    BY DEF service_once, ms5837_driver_trigger, trigger_if_idle, NextDriver
  <2>2. WarmUpTurn \/ BeginPhase \/ ServeTurn \/ NextPair => [NextDriver]_driver
    BY <2>1 DEF WarmUpTurn, BeginPhase, ServeTurn, NextPair
  <2>3. initialize_with_retry \/ ms5837_logger_start \/ ms5837_driver_shutdown =>
          [NextDriver]_driver
    BY DEF initialize_with_retry, ms5837_logger_start, ms5837_driver_shutdown, NextDriver
  <2> QED
    BY <2>2, <2>3
    DEF NextCapture, main, StartRT, WarmUpEnds, StopBeforePhase, StopSeen, emit_record,
        RuntimeExhausted, PhaseDone, sleep_owner_turn, JoinLogger, StopLogger, OwnerFails,
        request_stop, logger_thread, Locks, Decides, write_record, NotesFailure,
        SpuriousWakeup, LoggerStep, captureVars
<1> QED
  BY <1>1, <1>2, PTL DEF SpecCapture, SpecDriver
=============================================================================
