---------------------------- MODULE Ms5837Driver ----------------------------
(***************************************************************************)
(* The nonblocking MS5837 driver, ms5/app/ms5837_driver.c: a pressure and  *)
(* temperature conversion pair per trigger, and a bounded recovery after   *)
(* any bus failure.  The owner loop calls trigger and service; each call   *)
(* is one action and ok says whether its bus transactions succeeded.       *)
(*                                                                         *)
(* Deadlines are kept as the ticks that remain.  The chip (external) is    *)
(* busy for chipIn ticks after a conversion or reset command; a read       *)
(* before that returns no measurement.                                     *)
(***************************************************************************)
EXTENDS Integers

CONSTANTS
  PromWords,         \* MS5837_PROM_WORD_COUNT
  MaxAttempts,       \* MS5837_RECOVERY_MAX_ATTEMPTS
  ConversionTicks,   \* MS5837_OSR_512_CONVERSION_NS
  ResetTicks,        \* MS5837_RESET_RELOAD_NS
  RetryTicks,        \* MS5837_RECOVERY_RETRY_NS
  MaxTriggers,       \* bound on accepted triggers
  MaxIncidents       \* bound on recovery incidents

ASSUME DriverAssumption ==
  /\ PromWords \in Nat \ {0}
  /\ MaxAttempts \in Nat \ {0}
  /\ ConversionTicks \in Nat \ {0}
  /\ ResetTicks \in Nat \ {0}
  /\ RetryTicks \in Nat \ {0}
  /\ MaxTriggers \in Nat
  /\ MaxIncidents \in Nat

VARIABLES
  owner,               \* the owner's use of the driver: new, running, shut
  state,               \* Ms5837DriverState_t
  initialized,
  hal_open,
  pair_in_progress,
  has_latest_sample,
  recovery_prom_index,
  recovery_incident_active,
  recovery_attempts_in_incident,
  deadline,            \* ticks until deadline_ns
  retry,               \* ticks until recovery_retry_deadline_ns
  stats,               \* the BaroDriverStats_t counters of pairs and recovery
  handles,             \* bus handles the process holds
  chipIn,              \* ticks until the chip has finished its command
  accepted,            \* triggers that returned PROGRESS
  sampleIncident       \* recovery incidents when the latest sample was taken

session == <<initialized, hal_open, handles>>
recovery == <<recovery_prom_index, recovery_incident_active,
              recovery_attempts_in_incident, retry>>
sample == <<has_latest_sample, sampleIncident>>
vars == <<owner, state, session, pair_in_progress, recovery, deadline, stats,
          sample, chipIn, accepted>>

Measuring == {"WAIT_D1", "START_D2", "WAIT_D2"}
Recovering == {"BACKOFF", "OPEN", "RESET", "WAIT_RESET", "PROM", "VALIDATE"}
States == {"STOPPED", "IDLE"} \cup Measuring \cup Recovering

Stats == [completed : Nat, aborted : Nat, incidents : Nat,
          attempts : Nat, successes : Nat, exhaustions : Nat]
NoStats == [completed |-> 0, aborted |-> 0, incidents |-> 0,
            attempts |-> 0, successes |-> 0, exhaustions |-> 0]

Init ==
  /\ owner = "new"
  /\ state = "STOPPED"
  /\ initialized = FALSE
  /\ hal_open = FALSE
  /\ pair_in_progress = FALSE
  /\ has_latest_sample = FALSE
  /\ recovery_prom_index = 0
  /\ recovery_incident_active = FALSE
  /\ recovery_attempts_in_incident = 0
  /\ deadline = 0
  /\ retry = 0
  /\ stats = NoStats
  /\ handles = 0
  /\ chipIn = 0
  /\ accepted = 0
  /\ sampleIncident = 0

-----------------------------------------------------------------------------
(* A failed initialization closes what it opened and may be tried again.   *)
driver_init(ok) ==
  /\ owner = "new"
  /\ owner' = IF ok THEN "running" ELSE "new"
  /\ state' = IF ok THEN "IDLE" ELSE "STOPPED"
  /\ initialized' = ok
  /\ hal_open' = ok
  /\ handles' = IF ok THEN 1 ELSE 0
  /\ UNCHANGED <<pair_in_progress, recovery, deadline, stats, sample, chipIn, accepted>>

driver_shutdown ==
  /\ owner = "running"
  /\ owner' = "shut"
  /\ state' = "STOPPED"
  /\ initialized' = FALSE
  /\ hal_open' = FALSE
  /\ handles' = IF hal_open THEN handles - 1 ELSE handles
  /\ pair_in_progress' = FALSE
  /\ recovery_incident_active' = FALSE
  /\ UNCHANGED <<recovery_prom_index, recovery_attempts_in_incident, retry,
                 deadline, stats, sample, chipIn, accepted>>

-----------------------------------------------------------------------------
(* Failures                                                                *)

LeakHal == UNCHANGED <<hal_open, handles>>
close_hal ==
  /\ hal_open' = FALSE
  /\ handles' = IF hal_open THEN handles - 1 ELSE handles

AbortedAlways == stats.aborted + 1
AbortedWith == stats.aborted + IF pair_in_progress THEN 1 ELSE 0

KeepLatest == UNCHANGED has_latest_sample
DropLatest == has_latest_sample' = FALSE

(* enter_recovery: the pair is aborted, the latest sample withdrawn and a  *)
(* new incident opened.                                                    *)
enter_recovery ==
  /\ stats.incidents < MaxIncidents
  /\ stats' = [stats EXCEPT !.aborted = AbortedWith,
                            !.incidents = IF recovery_incident_active THEN @ ELSE @ + 1]
  /\ pair_in_progress' = FALSE
  /\ DropLatest
  /\ close_hal
  /\ initialized' = FALSE
  /\ recovery_prom_index' = 0
  /\ recovery_incident_active' = TRUE
  /\ recovery_attempts_in_incident' =
       IF recovery_incident_active THEN recovery_attempts_in_incident ELSE 0
  /\ state' = "OPEN"
  /\ UNCHANGED <<owner, retry, deadline, sampleIncident, chipIn, accepted>>

ExhaustedLate(attempts) == attempts > MaxAttempts
Exhausted(attempts) == attempts >= MaxAttempts

(* fail_recovery_attempt: back off, or give up for good.                   *)
fail_recovery_attempt(attempts, counted) ==
  /\ close_hal
  /\ initialized' = FALSE
  /\ DropLatest
  /\ recovery_attempts_in_incident' = attempts
  /\ \/ /\ Exhausted(attempts)
        /\ stats' = [counted EXCEPT !.exhaustions = @ + 1]
        /\ recovery_incident_active' = FALSE
        /\ state' = "STOPPED"
        /\ UNCHANGED retry
     \/ /\ ~Exhausted(attempts)
        /\ stats' = counted
        /\ retry' = RetryTicks
        /\ state' = "BACKOFF"
        /\ UNCHANGED recovery_incident_active
  /\ UNCHANGED <<owner, pair_in_progress, recovery_prom_index, deadline,
                 sampleIncident, chipIn, accepted>>

FailAttempt == fail_recovery_attempt(recovery_attempts_in_incident, stats)

-----------------------------------------------------------------------------
(* Measuring                                                               *)

(* The deadline counts from the time read after the command, not from the  *)
(* time the owner's turn began: DeadlineFromTurnStart is one bus time less. *)
DeadlineFromTurnStart == ConversionTicks - 1
ConversionDeadline == ConversionTicks

AlwaysPressure(wait_state) ==
  /\ state' = "WAIT_D1"
  /\ deadline' = ConversionDeadline
  /\ chipIn' = ConversionTicks

start_conversion(wait_state) ==
  /\ state' = wait_state
  /\ deadline' = ConversionDeadline
  /\ chipIn' = ConversionTicks

driver_trigger(ok) ==
  /\ state = "IDLE"
  /\ \/ /\ ok
        /\ accepted < MaxTriggers
        /\ start_conversion("WAIT_D1")
        /\ pair_in_progress' = TRUE
        /\ accepted' = accepted + 1
        /\ UNCHANGED <<owner, session, recovery, stats, sample>>
     \/ /\ ~ok
        /\ enter_recovery

ReadPressure(ok) ==
  /\ state = "WAIT_D1"
  /\ deadline = 0
  /\ \/ /\ ok
        /\ state' = "START_D2"
        /\ UNCHANGED <<owner, session, pair_in_progress, recovery, deadline,
                       stats, sample, chipIn, accepted>>
     \/ /\ ~ok
        /\ enter_recovery

StartTemperature(ok) ==
  /\ state = "START_D2"
  /\ \/ /\ ok
        /\ start_conversion("WAIT_D2")
        /\ UNCHANGED <<owner, session, pair_in_progress, recovery, stats,
                       sample, accepted>>
     \/ /\ ~ok
        /\ enter_recovery

ReadTemperature(ok) ==
  /\ state = "WAIT_D2"
  /\ deadline = 0
  /\ \/ /\ ok
        /\ state' = "IDLE"
        /\ pair_in_progress' = FALSE
        /\ stats' = [stats EXCEPT !.completed = @ + 1]
        /\ has_latest_sample' = TRUE
        /\ sampleIncident' = stats.incidents
        /\ UNCHANGED <<owner, session, recovery, deadline, chipIn, accepted>>
     \/ /\ ~ok
        /\ enter_recovery

-----------------------------------------------------------------------------
(* Recovery, one bus transaction or one deadline per service call          *)

Become(next) ==
  /\ state' = next
  /\ UNCHANGED <<owner, session, pair_in_progress, deadline, stats, sample,
                 chipIn, accepted>>

RearmBackoff ==
  /\ state = "BACKOFF"
  /\ retry' = RetryTicks
  /\ state' = IF retry = 0 THEN "OPEN" ELSE "BACKOFF"
  /\ UNCHANGED <<owner, session, pair_in_progress, deadline, stats, sample,
                 chipIn, accepted, recovery_prom_index, recovery_incident_active,
                 recovery_attempts_in_incident>>

LeaveBackoff ==
  /\ state = "BACKOFF"
  /\ retry = 0
  /\ Become("OPEN")
  /\ UNCHANGED recovery

RecoveryOpen(ok) ==
  LET attempts == recovery_attempts_in_incident + 1
      counted == [stats EXCEPT !.attempts = @ + 1]
  IN  /\ state = "OPEN"
      /\ \/ /\ ok
            /\ hal_open' = TRUE
            /\ handles' = handles + 1
            /\ recovery_attempts_in_incident' = attempts
            /\ stats' = counted
            /\ state' = "RESET"
            /\ UNCHANGED <<owner, initialized, pair_in_progress,
                           recovery_prom_index, recovery_incident_active, retry,
                           deadline, sample, chipIn, accepted>>
         \/ /\ ~ok
            /\ fail_recovery_attempt(attempts, counted)

RecoveryReset(ok) ==
  /\ state = "RESET"
  /\ \/ /\ ok
        /\ state' = "WAIT_RESET"
        /\ deadline' = ResetTicks
        /\ chipIn' = ResetTicks
        /\ UNCHANGED <<owner, session, pair_in_progress, recovery, stats,
                       sample, accepted>>
     \/ /\ ~ok
        /\ FailAttempt

LeaveWaitReset ==
  /\ state = "WAIT_RESET"
  /\ deadline = 0
  /\ Become("PROM")
  /\ recovery_prom_index' = 0
  /\ UNCHANGED <<recovery_incident_active, recovery_attempts_in_incident, retry>>

PromReadPastEnd(index) == index > PromWords
PromRead(index) == index >= PromWords

RecoveryProm(ok) ==
  /\ state = "PROM"
  /\ \/ /\ ok
        /\ recovery_prom_index' = recovery_prom_index + 1
        /\ Become(IF PromRead(recovery_prom_index + 1) THEN "VALIDATE" ELSE "PROM")
        /\ UNCHANGED <<recovery_incident_active, recovery_attempts_in_incident, retry>>
     \/ /\ ~ok
        /\ FailAttempt

KeepIncident ==
  /\ recovery_attempts_in_incident' = 0
  /\ UNCHANGED <<recovery_incident_active, recovery_prom_index, retry>>

CloseIncident ==
  /\ recovery_attempts_in_incident' = 0
  /\ recovery_incident_active' = FALSE
  /\ UNCHANGED <<recovery_prom_index, retry>>

(* ok: the PROM is neither all zeros nor all ones and its CRC is right.    *)
RecoveryValidate(ok) ==
  /\ state = "VALIDATE"
  /\ \/ /\ ok
        /\ state' = "IDLE"
        /\ initialized' = TRUE
        /\ CloseIncident
        /\ stats' = [stats EXCEPT !.successes = @ + 1]
        /\ UNCHANGED <<owner, hal_open, handles, pair_in_progress, deadline,
                       sample, chipIn, accepted>>
     \/ /\ ~ok
        /\ FailAttempt

-----------------------------------------------------------------------------
(* The chip and both deadlines; a tick passes while any of them counts.    *)
Down(n) == IF n > 0 THEN n - 1 ELSE 0

Elapse ==
  /\ deadline > 0 \/ retry > 0 \/ chipIn > 0
  /\ deadline' = Down(deadline)
  /\ retry' = Down(retry)
  /\ chipIn' = Down(chipIn)
  /\ UNCHANGED <<owner, state, session, pair_in_progress, recovery_prom_index,
                 recovery_incident_active, recovery_attempts_in_incident, stats,
                 sample, accepted>>

driver_service ==
  \E ok \in BOOLEAN :
    \/ ReadPressure(ok)
    \/ StartTemperature(ok)
    \/ ReadTemperature(ok)
    \/ LeaveBackoff
    \/ RecoveryOpen(ok)
    \/ RecoveryReset(ok)
    \/ LeaveWaitReset
    \/ RecoveryProm(ok)
    \/ RecoveryValidate(ok)

Next ==
  \/ \E ok \in BOOLEAN : driver_init(ok)
  \/ \E ok \in BOOLEAN : driver_trigger(ok)
  \/ driver_service
  \/ driver_shutdown
  \/ Elapse

Spec == Init /\ [][Next]_vars

(* The owner services the driver every turn and time passes.  Nothing      *)
(* makes a trigger, a shutdown or a successful transaction happen.         *)
Fairness == WF_vars(driver_service) /\ WF_vars(Elapse)
FairSpec == Spec /\ Fairness

-----------------------------------------------------------------------------
(* Properties                                                              *)

StateTypeOK ==
  /\ owner \in {"new", "running", "shut"}
  /\ state \in States
  /\ initialized \in BOOLEAN
  /\ hal_open \in BOOLEAN
  /\ pair_in_progress \in BOOLEAN
  /\ has_latest_sample \in BOOLEAN
  /\ recovery_incident_active \in BOOLEAN

CounterTypeOK ==
  /\ recovery_prom_index \in 0..PromWords
  /\ recovery_attempts_in_incident \in Nat
  /\ stats \in Stats
  /\ handles \in Nat
  /\ accepted \in Nat
  /\ sampleIncident \in Nat

ClockTypeOK ==
  /\ deadline \in Nat
  /\ retry \in Nat
  /\ chipIn \in Nat

(* The types of the driver (ms5837_driver.h); the PROM index never passes  *)
(* the end of recovery_prom.word.                                          *)
TypeOK == StateTypeOK /\ CounterTypeOK /\ ClockTypeOK

(* Every accepted trigger is a completed measurement, an aborted pair or   *)
(* the pair in progress, whatever fails in between; a trigger whose own    *)
(* command fails is none of them.                                          *)
PairsAccounted ==
  owner = "running" =>
    accepted = stats.completed + stats.aborted + IF pair_in_progress THEN 1 ELSE 0

(* Every incident is recovered, exhausted or the active one, after an      *)
(* exhaustion there is no other, and an incident reopens the bus at most   *)
(* MaxAttempts times.                                                      *)
IncidentsAccounted ==
  owner = "running" =>
    /\ stats.incidents = stats.successes + stats.exhaustions
                           + IF recovery_incident_active THEN 1 ELSE 0
    /\ stats.exhaustions > 0 => state = "STOPPED"
    /\ recovery_attempts_in_incident <= MaxAttempts
    /\ stats.attempts <= MaxAttempts * stats.incidents

(* A sample offered as the latest was measured since the last incident.    *)
LatestIsOfThisSession == has_latest_sample => sampleIncident = stats.incidents

(* The process holds one bus handle while hal_open and none otherwise, so  *)
(* no recovery leaks the one it replaces.                                  *)
OneHandle == handles = IF hal_open THEN 1 ELSE 0

(* A conversion result or a PROM word is read only when the chip has       *)
(* finished the command before it.                                         *)
NeverReadsEarly ==
  [][\/ state = "WAIT_D1" /\ state' = "START_D2"
     \/ state = "WAIT_D2" /\ state' = "IDLE"
     \/ recovery_prom_index' > recovery_prom_index
     => chipIn = 0]_vars

(* An incident ends, the driver measures again or has stopped; and an      *)
(* accepted trigger ends in a sample or an aborted pair.                   *)
DriverSettles ==
  /\ recovery_incident_active ~> ~recovery_incident_active
  /\ pair_in_progress ~> ~pair_in_progress

OwnersView ==
  CASE owner = "new" -> "NEW"
    [] owner = "shut" -> "SHUT"
    [] owner = "running" -> IF state \in Measuring THEN "PAIR"
                            ELSE IF state \in Recovering THEN "RECOVERY"
                            ELSE state

Contract == INSTANCE PressureDriver
  WITH drv <- OwnersView, ready <- has_latest_sample, sequence <- stats.completed

(* The driver implements what its owner relies on: between its calls it is *)
(* idle, in one pair, recovering or stopped, no sample outlives a failure, *)
(* and an exhausted driver stays stopped.                                  *)
ServesOwner == Contract!SpecDriver
=============================================================================
