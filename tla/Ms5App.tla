------------------------------- MODULE Ms5App -------------------------------
(***************************************************************************)
(* The MS5837 capture, ms5/app/main.c, over its driver (PressureDriver):   *)
(* initialization with retries, the warm-up, the zero and the run phase    *)
(* with their publication gates (ms5837_publish.c), and the shutdown, with *)
(* the CSV logger's queue, mutex and worker thread (ms5837_logger.c).      *)
(*                                                                         *)
(* The owner holds the mutex within one action; the worker from lock to    *)
(* unlock, where a trylock fails.  Time is the count of service ticks.     *)
(***************************************************************************)
EXTENDS PressureDriver, Integers, SequencesExt

CONSTANTS
  StartupAttempts,  \* STARTUP_MAX_ATTEMPTS
  ZeroGates,        \* gates of the zero phase
  RunGates,         \* gates of the run phase
  GateTicks,        \* MS5837_PUBLISH_GATE_TICKS
  MaxOverrun,       \* bound on the periods one turn overruns
  MinZeroSamples,   \* ZERO_MIN_VALID_SAMPLES
  MaxZeroSamples,   \* ZERO_MAX_SAMPLES
  Capacity          \* MS5837_LOGGER_CAPACITY

ASSUME CaptureAssumption ==
  /\ StartupAttempts \in Nat \ {0}
  /\ ZeroGates \in Nat \ {0}
  /\ RunGates \in Nat \ {0}
  /\ GateTicks \in Nat \ {0}
  /\ MaxOverrun \in Nat
  /\ MinZeroSamples \in Nat \ {0}
  /\ MaxZeroSamples >= MinZeroSamples
  /\ Capacity \in Nat \ {0}

VARIABLES
  at,               \* where main is
  attempt,          \* the initialization attempt
  zero_requested,
  phase,            \* ZERO or RUN
  stop_requested,
  status,           \* how the capture has gone so far
  result,           \* the exit status of the process
  gate,             \* tick_index, last_gate, and logical_ticks of the turn
  skipped,          \* gates_skipped_before of the gate that is due
  publisher,        \* next_publication_sequence, previous_measurement_sequence
  zero,             \* valid_sample_count and surface_pressure_valid
  logger_drops

VARIABLES
  worker,           \* where the logger's thread is
  mutex_held,       \* by the worker
  queue, record, stopping, write_failed,
  file

course == <<attempt, zero_requested, phase, status, result>>
capture == <<gate, skipped, publisher, zero>>
logger == <<worker, mutex_held, queue, record, stopping, write_failed, file>>
captureVars == <<at, stop_requested, course, capture, logger_drops, logger, driver>>

NoRecord == [n |-> 0]
GatesIn(p) == IF p = "ZERO" THEN ZeroGates ELSE RunGates
LastGate == GatesIn(phase)

InitCapture ==
  /\ InitDriver
  /\ at = "INIT"
  /\ attempt = 1
  /\ zero_requested \in BOOLEAN
  /\ phase = "RUN"
  /\ stop_requested = FALSE
  /\ status = "OK"
  /\ result = -1
  /\ gate = [tick |-> 0, last |-> 0, ticks |-> 1]
  /\ skipped = 0
  /\ publisher = [next |-> 1, previous |-> 0]
  /\ zero = [samples |-> 0, reference |-> FALSE]
  /\ logger_drops = 0
  /\ worker = "none"
  /\ mutex_held = FALSE
  /\ queue = <<>>
  /\ record = NoRecord
  /\ stopping = FALSE
  /\ write_failed = FALSE
  /\ file = <<>>

(* A signal after the capture is over changes nothing.                     *)
request_stop ==
  /\ at \notin {"STOP_LOGGER", "JOIN", "SHUTDOWN", "DONE"}
  /\ ~stop_requested
  /\ stop_requested' = TRUE
  /\ UNCHANGED <<at, course, capture, logger_drops, logger, driver>>

-----------------------------------------------------------------------------
(* Startup                                                                 *)

ExitsWith(code) == at' = "DONE" /\ result' = code

(* initialize_with_retry: a stop is noticed in the pause between attempts. *)
initialize_with_retry ==
  /\ at = "INIT"
  /\ UNCHANGED <<stop_requested, zero_requested, phase, status, capture,
                 logger_drops, logger>>
  /\ \/ /\ Opens
        /\ at' = "LOGGER"
        /\ UNCHANGED <<attempt, result>>
     \/ /\ attempt < StartupAttempts
        /\ attempt' = attempt + 1
        /\ UNCHANGED <<at, result, driver>>
     \/ /\ attempt = StartupAttempts \/ stop_requested
        /\ ExitsWith(1)
        /\ UNCHANGED <<attempt, driver>>

ms5837_logger_start ==
  /\ at = "LOGGER"
  /\ UNCHANGED <<stop_requested, attempt, zero_requested, phase, status, capture,
                 logger_drops, mutex_held, queue, record, stopping, write_failed,
                 file>>
  /\ \/ /\ at' = "START_RT"
        /\ worker' = "lock"
        /\ UNCHANGED <<result, driver>>
     \/ /\ ExitsWith(1)
        /\ Shuts
        /\ UNCHANGED worker

(* The capture is over: what is left is the shutdown.  A drop ends the     *)
(* capture, so a status of OK has none.                                    *)
EndsCapture(s) ==
  /\ at' = "STOP_LOGGER"
  /\ status' = s
  /\ result' = IF s = "OK" THEN 0 ELSE 1

StartRT ==
  /\ at = "START_RT"
  /\ UNCHANGED <<stop_requested, attempt, zero_requested, phase, capture,
                 logger_drops, logger, driver>>
  /\ \/ at' = "WARM_UP" /\ UNCHANGED <<status, result>>
     \/ EndsCapture("FAILED")

-----------------------------------------------------------------------------
(* The driver in a turn                                                    *)

(* One service call: a bus action, a deadline not yet due, or nothing.     *)
service_once ==
  \/ Completes
  \/ drv = "PAIR" /\ Fails
  \/ Recovers
  \/ Exhausts
  \/ UNCHANGED driver

ms5837_driver_trigger == BeginsPair \/ Fails
trigger_if_idle == IF drv = "IDLE" THEN ms5837_driver_trigger ELSE UNCHANGED driver

-----------------------------------------------------------------------------
(* warm_up_sample, then the window                                         *)

(* A new pair is not due in the turn that triggers it.                     *)
WarmUpTurn ==
  /\ at = "WARM_UP"
  /\ ~stop_requested
  /\ drv # "STOPPED"
  /\ IF drv = "IDLE" THEN ms5837_driver_trigger ELSE service_once
  /\ IF ready'
     THEN /\ at' = "PHASE"
          /\ phase' = IF zero_requested THEN "ZERO" ELSE "RUN"
          /\ publisher' = [next |-> 1, previous |-> sequence']
     ELSE UNCHANGED <<at, phase, publisher>>
  /\ UNCHANGED <<stop_requested, attempt, zero_requested, status, result, gate,
                 skipped, zero, logger_drops, logger>>

WarmUpEnds ==
  /\ at = "WARM_UP"
  /\ \/ stop_requested /\ EndsCapture("STOPPED")
     \/ drv = "STOPPED" /\ EndsCapture("FAILED")
  /\ UNCHANGED <<stop_requested, attempt, zero_requested, phase, capture,
                 logger_drops, logger, driver>>

-----------------------------------------------------------------------------
(* run_capture_phase                                                       *)

(* main looks at the stop once more before it starts a phase.              *)
StopBeforePhase ==
  /\ at = "PHASE"
  /\ stop_requested
  /\ EndsCapture("OK")
  /\ UNCHANGED <<stop_requested, attempt, zero_requested, phase, capture,
                 logger_drops, logger, driver>>

BeginPhase ==
  /\ at = "PHASE"
  /\ ~stop_requested
  /\ gate' = [tick |-> 0, last |-> 0, ticks |-> 1]
  /\ trigger_if_idle
  /\ at' = "LOOP"
  /\ UNCHANGED <<stop_requested, course, skipped, publisher, zero, logger_drops, logger>>

StopSeen ==
  /\ at = "LOOP"
  /\ stop_requested
  /\ EndsCapture("STOPPED")
  /\ UNCHANGED <<stop_requested, attempt, zero_requested, phase, capture,
                 logger_drops, logger, driver>>

(* zero_estimator_add, for a sample completed in this turn.                *)
zero_estimator_add ==
  \/ UNCHANGED zero
  \/ /\ zero.samples < MaxZeroSamples
     /\ zero' = [zero EXCEPT !.samples = @ + 1]

(* ms5837_publish_gate_advance                                             *)
GateAt(tick) ==
  LET current == tick \div GateTicks
  IN  IF current > LastGate THEN LastGate ELSE current

SkippedBefore(current) == current - gate.last - 1

gate_advance ==
  LET tick == gate.tick + gate.ticks
      current == GateAt(tick)
  IN  \/ /\ current > gate.last
         /\ gate' = [gate EXCEPT !.tick = tick, !.last = current]
         /\ skipped' = SkippedBefore(current)
         /\ at' = "EMIT"
      \/ /\ current <= gate.last
         /\ gate' = [gate EXCEPT !.tick = tick]
         /\ UNCHANGED skipped
         /\ at' = "SLEEP"

(* An exhausted driver does not end the turn: its gate comes first.        *)
ServeTurn ==
  /\ at = "LOOP"
  /\ ~stop_requested
  /\ service_once
  /\ IF phase = "ZERO" /\ sequence' > sequence THEN zero_estimator_add ELSE UNCHANGED zero
  /\ gate_advance
  /\ UNCHANGED <<stop_requested, course, publisher, logger_drops, logger>>

-----------------------------------------------------------------------------
(* emit_record: one row per gate, offered to the logger without waiting.   *)
(* The gate of a row is what its scheduled time tells.                     *)

LastSample == sequence
SampleOffered == IF ready THEN sequence ELSE 0

Row ==
  [n |-> publisher.next, phase |-> phase, gate |-> gate.last, skipped |-> skipped,
   driver |-> drv, sample |-> SampleOffered,
   fresh |-> ready /\ sequence > publisher.previous,
   depth |-> ready /\ zero.reference]

KeepsBaseline == [publisher EXCEPT !.next = @ + 1]
ms5837_publish_evaluate ==
  [next |-> publisher.next + 1,
   previous |-> IF ready THEN sequence ELSE publisher.previous]

EnqueueRefused == mutex_held \/ write_failed \/ Len(queue) >= Capacity

(* pthread_cond_signal                                                     *)
SignalReady == worker' = IF worker = "wait" THEN "lock" ELSE worker

ms5837_logger_enqueue ==
  /\ queue' = Append(queue, Row)
  /\ SignalReady
  /\ UNCHANGED <<mutex_held, record, stopping, write_failed, file>>

emit_record ==
  /\ at = "EMIT"
  /\ publisher' = ms5837_publish_evaluate
  /\ UNCHANGED <<stop_requested, attempt, zero_requested, phase, gate, skipped,
                 zero, driver>>
  /\ \/ /\ ~EnqueueRefused
        /\ ms5837_logger_enqueue
        /\ at' = "EMITTED"
        /\ UNCHANGED <<status, result, logger_drops>>
     \/ /\ EnqueueRefused
        /\ logger_drops' = logger_drops + 1
        /\ EndsCapture("DROPPED")
        /\ UNCHANGED logger

WindowDone == gate.last >= LastGate
DriverExhausted == drv = "STOPPED"

RuntimeExhausted ==
  /\ at = "EMITTED"
  /\ DriverExhausted
  /\ EndsCapture("EXHAUSTED")
  /\ UNCHANGED <<stop_requested, attempt, zero_requested, phase, capture,
                 logger_drops, logger, driver>>

NextPair ==
  /\ at = "EMITTED"
  /\ ~DriverExhausted
  /\ ~WindowDone
  /\ trigger_if_idle
  /\ at' = "SLEEP"
  /\ UNCHANGED <<stop_requested, course, capture, logger_drops, logger>>

(* zero_estimator_finalize decides whether there is a reference; the run   *)
(* follows either way.                                                     *)
PhaseDone ==
  /\ at = "EMITTED"
  /\ ~DriverExhausted
  /\ WindowDone
  /\ \/ /\ stop_requested
        /\ EndsCapture("STOPPED")
        /\ UNCHANGED <<phase, zero>>
     \/ /\ ~stop_requested
        /\ phase = "ZERO"
        /\ phase' = "RUN"
        /\ zero' = [zero EXCEPT !.reference = zero.samples >= MinZeroSamples]
        /\ at' = "PHASE"
        /\ UNCHANGED <<status, result>>
     \/ /\ ~stop_requested
        /\ phase = "RUN"
        /\ EndsCapture("OK")
        /\ UNCHANGED <<phase, zero>>
  /\ UNCHANGED <<stop_requested, attempt, zero_requested, gate, skipped, publisher,
                 logger_drops, logger, driver>>

sleep_owner_turn ==
  /\ at = "SLEEP"
  /\ \E overrun \in 0..MaxOverrun : gate' = [gate EXCEPT !.ticks = 1 + overrun]
  /\ at' = "LOOP"
  /\ UNCHANGED <<stop_requested, course, skipped, publisher, zero, logger_drops, logger,
                 driver>>

(* A clock that cannot be read, or a sleep that fails, ends the capture; a *)
(* sleep cut short by the stop ends it as the stop does.                   *)
OwnerFails ==
  /\ \/ at \in {"WARM_UP", "PHASE", "LOOP", "EMITTED"} /\ ~stop_requested /\ EndsCapture("FAILED")
     \/ at = "SLEEP" /\ EndsCapture(IF stop_requested THEN "STOPPED" ELSE "FAILED")
  /\ UNCHANGED <<stop_requested, attempt, zero_requested, phase, capture,
                 logger_drops, logger, driver>>

-----------------------------------------------------------------------------
(* logger_thread                                                           *)

LoggerStep(from) ==
  /\ worker = from
  /\ UNCHANGED <<at, stop_requested, course, capture, logger_drops, stopping, driver>>

Locks ==
  /\ LoggerStep("lock")
  /\ ~mutex_held
  /\ mutex_held' = TRUE
  /\ worker' = "decide"
  /\ UNCHANGED <<queue, record, write_failed, file>>

DoneWhenStopping == stopping
DoneWhenDrained == queue = <<>> /\ stopping

Decides ==
  /\ LoggerStep("decide")
  /\ mutex_held' = FALSE
  /\ \/ /\ DoneWhenDrained
        /\ worker' = "done"
        /\ UNCHANGED <<queue, record>>
     \/ /\ ~DoneWhenDrained
        /\ queue = <<>>
        /\ worker' = "wait"
        /\ UNCHANGED <<queue, record>>
     \/ /\ ~DoneWhenDrained
        /\ queue # <<>>
        /\ worker' = "write"
        /\ record' = Head(queue)
        /\ queue' = Tail(queue)
  /\ UNCHANGED <<write_failed, file>>

(* A condition variable may wake its waiter for no reason.                 *)
SpuriousWakeup ==
  /\ LoggerStep("wait")
  /\ worker' = "lock"
  /\ UNCHANGED <<mutex_held, queue, record, write_failed, file>>

write_record ==
  /\ LoggerStep("write")
  /\ record' = NoRecord
  /\ \/ /\ file' = Append(file, record)
        /\ worker' = "lock"
     \/ /\ worker' = "note"
        /\ UNCHANGED file
  /\ UNCHANGED <<mutex_held, queue, write_failed>>

NotesFailure ==
  /\ LoggerStep("note")
  /\ ~mutex_held
  /\ write_failed' = TRUE
  /\ worker' = "lock"
  /\ UNCHANGED <<mutex_held, queue, record, file>>

logger_thread == Locks \/ Decides \/ write_record \/ NotesFailure

-----------------------------------------------------------------------------
(* Shutdown                                                                *)

StopsQuietly == UNCHANGED worker
SignalStop == SignalReady

StopLogger ==
  /\ at = "STOP_LOGGER"
  /\ ~mutex_held
  /\ stopping' = TRUE
  /\ SignalStop
  /\ at' = "JOIN"
  /\ UNCHANGED <<stop_requested, course, capture, logger_drops, mutex_held, queue,
                 record, write_failed, file, driver>>

(* The thread has ended; the stream is flushed and closed.                 *)
JoinLogger ==
  /\ at = "JOIN"
  /\ worker = "done"
  /\ \E closed \in BOOLEAN :
       result' = IF write_failed \/ ~closed THEN 1 ELSE result
  /\ at' = "SHUTDOWN"
  /\ UNCHANGED <<stop_requested, attempt, zero_requested, phase, status, capture,
                 logger_drops, logger, driver>>

ms5837_driver_shutdown ==
  /\ at = "SHUTDOWN"
  /\ Shuts
  /\ \E closed \in BOOLEAN : result' = IF closed THEN result ELSE 1
  /\ at' = "DONE"
  /\ UNCHANGED <<stop_requested, attempt, zero_requested, phase, status, capture,
                 logger_drops, logger>>

-----------------------------------------------------------------------------
main ==
  \/ initialize_with_retry
  \/ ms5837_logger_start
  \/ StartRT
  \/ WarmUpTurn
  \/ WarmUpEnds
  \/ StopBeforePhase
  \/ BeginPhase
  \/ StopSeen
  \/ ServeTurn
  \/ emit_record
  \/ RuntimeExhausted
  \/ NextPair
  \/ PhaseDone
  \/ sleep_owner_turn
  \/ JoinLogger
  \/ ms5837_driver_shutdown

NextCapture ==
  \/ main
  \/ StopLogger
  \/ OwnerFails
  \/ request_stop
  \/ logger_thread
  \/ SpuriousWakeup

SpecCapture == InitCapture /\ [][NextCapture]_captureVars

(* Both threads run, and a thread that waits for the mutex gets it: the    *)
(* other holds it for a few instructions.  Nothing makes the driver answer,*)
(* a write succeed or a stop come.                                         *)
FairCapture ==
  /\ WF_captureVars(main)
  /\ SF_captureVars(StopLogger)
  /\ WF_captureVars(logger_thread)

FairSpecCapture == SpecCapture /\ FairCapture

-----------------------------------------------------------------------------
(* Properties                                                              *)

EndedWith(s) == at = "DONE" /\ status = s

Ran(p) == \E i \in DOMAIN file : file[i].phase = p

(* The gate of the row before in the same phase, 0 in front of the first.  *)
GateBefore(i) ==
  IF i > 1 /\ file[i - 1].phase = file[i].phase THEN file[i - 1].gate ELSE 0

LastOfPhase(i) == i = Len(file) \/ file[i + 1].phase # file[i].phase

(* Every gate of a phase is a row or counted as skipped by the row after   *)
(* it, up to the last gate of the phase, and the zero phase comes first.   *)
EveryGateTold ==
  \A i \in DOMAIN file :
    /\ file[i].n = i
    /\ file[i].gate = GateBefore(i) + 1 + file[i].skipped
    /\ LastOfPhase(i) => file[i].gate = GatesIn(file[i].phase)
    /\ i > 1 /\ file[i].phase = "ZERO" => file[i - 1].phase = "ZERO"

FreshOnce ==
  \A i, j \in DOMAIN file :
    file[i].fresh /\ file[j].fresh /\ file[i].sample = file[j].sample => i = j

(* After exit status 0 the file holds every gate of every phase that ran,  *)
(* in order; the zero phase ran if it was asked for and the run began; the *)
(* run was captured unless a stop came before it began; and no measurement *)
(* is told fresh twice.                                                    *)
CleanExitIsWhole ==
  at = "DONE" /\ result = 0 =>
    /\ EveryGateTold
    /\ Ran("ZERO") <=> zero_requested /\ phase = "RUN"
    /\ Ran("RUN") \/ stop_requested
    /\ FreshOnce

(* A capture that ends because recovery was exhausted exits with 1, and if *)
(* the logger wrote all it was given the file ends with the row that tells *)
(* of the stopped driver.                                                  *)
ExhaustionIsTold ==
  EndedWith("EXHAUSTED") =>
    /\ result = 1
    /\ ~write_failed =>
         /\ file # <<>>
         /\ Last(file).driver = "STOPPED"
         /\ Last(file).sample = 0

(* What the exit status of ms5837_capture and its file say of each other   *)
(* (main.c, emit_record and the end of main; ms5837_logger_stop).          *)
ExitAgreesWithFile == CleanExitIsWhole /\ ExhaustionIsTold

(* Once a stop is requested, or the window has opened, the process ends:   *)
(* no wakeup of the logger's thread is lost and its queue is drained       *)
(* (logger_thread, ms5837_logger_stop).                                    *)
CaptureEnds == (stop_requested \/ at = "PHASE") ~> at = "DONE"
=============================================================================
