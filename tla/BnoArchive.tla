------------------------------ MODULE BnoArchive ------------------------------
(***************************************************************************)
(* The acquisition of bno_app, from the window the owner loop opens to the *)
(* files it leaves: the publication gate and the publisher (imu_publish.c),*)
(* the logger's queue and its worker (imu_logger.c), the CSV and its JSON  *)
(* companion (imu_logfile.c), and the part of bno/app/main.c that drives   *)
(* them.  The coordinator is its ACQUISITION stage: active, then succeeded *)
(* when its time is over.                                                  *)
(*                                                                         *)
(* The gate counts the ticks of RT_SleepUntil's grid (rt/realtime.c) and   *)
(* the stage ends by the clock, read at the wake-up.  The two part in two  *)
(* ways: a wake-up comes late, which the grid learns at the next sleep     *)
(* only, and after an overrun the grid starts again from the present,      *)
(* which loses it part of a period.                                        *)
(***************************************************************************)
EXTENDS Integers, Sequences

CONSTANTS
  GateTicks,        \* IMU_PUBLISH_GATE_TICKS
  WindowTicks,      \* the duration asked for, in ticks
  Period,           \* APP_LOOP_PERIOD_SEC, in units of the clock
  Lateness,         \* how late a wake-up may come
  Work,             \* how long a turn may take
  MaxEvents,        \* bound: sensor events decoded in the run
  QueueCapacity,    \* IMU_LOGGER_QUEUE_CAPACITY
  BatchRows         \* rows that fit in IMU_LOGGER_BATCH_BYTES

ASSUME ArchiveAssumption ==
  /\ {GateTicks, WindowTicks, Period, QueueCapacity, BatchRows} \subseteq Nat \ {0}
  /\ Lateness \cup Work \cup {MaxEvents} \subseteq Nat
  /\ GateTicks <= WindowTicks

VARIABLES
  step,                 \* where the owner is
  acq,                  \* the ACQUISITION stage
  age,                  \* clock at the turn's start since the stage's first
  late,                 \* the same clock past s_deadline: a late wake-up
  slip,                 \* what the grid has lost to overruns
  nextTurnTicks,
  windowOpened, windowClosed,
  processStop, ownerFailure, loggerFailure

VARIABLES
  tickIndex, lastGate, gatesSkipped,    \* the gate
  published,                            \* publicationsAttempted
  sample,               \* the snapshot's group: epoch, sequence, validity
  readerState,
  previous, comparisonEpoch,            \* the publisher
  row,                  \* what this turn's row says of the group
  arrived               \* events since the last row, or the window's opening

VARIABLES
  ring, head, tail, dropped, written,
  stopRequested, writeFailed, shutdownErrors, drained,
  logger,               \* the logger's worker: where it is, and what it read
  batch

VARIABLES
  file,                 \* the rows on disk
  csv,                  \* the name the CSV is under
  json                  \* what the published companion says

clock == <<age, late, slip, nextTurnTicks>>
loop == <<acq, clock, processStop>>
window == <<windowOpened, windowClosed>>
failures == <<ownerFailure, loggerFailure>>
gate == <<tickIndex, lastGate, gatesSkipped>>
publisher == <<published, previous, comparisonEpoch, row, arrived>>
source == <<sample, readerState>>
queue == <<ring, head, dropped>>
worker == <<tail, written, writeFailed, shutdownErrors, logger, batch, file>>
drain == <<stopRequested, drained>>
disk == <<csv, json>>

vars == <<step, loop, window, failures, gate, publisher, source, queue, worker,
          drain, disk>>

NoRow == [seq |-> 0, drops |-> 0]
maxGate == WindowTicks \div GateTicks

Init ==
  /\ step = "open"
  /\ acq = "active"
  /\ age = 0
  /\ late = 0
  /\ slip = 0
  /\ nextTurnTicks = 1
  /\ windowOpened = FALSE
  /\ windowClosed = FALSE
  /\ processStop = FALSE
  /\ ownerFailure = FALSE
  /\ loggerFailure = FALSE
  /\ tickIndex = 0
  /\ lastGate = 0
  /\ gatesSkipped = 0
  /\ published = 0
  /\ sample = [epoch |-> 1, seq |-> 1, valid |-> TRUE]
  /\ readerState = "OPERATIONAL"
  /\ previous = [epoch |-> 0, seq |-> 0, valid |-> FALSE]
  /\ comparisonEpoch = 0
  /\ row = "none"
  /\ arrived = 0
  /\ ring = [k \in 0..(QueueCapacity - 1) |-> NoRow]
  /\ head = 0
  /\ tail = 0
  /\ dropped = 0
  /\ written = 0
  /\ stopRequested = FALSE
  /\ writeFailed = FALSE
  /\ shutdownErrors = FALSE
  /\ drained = FALSE
  /\ logger = [pc |-> "none"]
  /\ batch = <<>>
  /\ file = <<>>
  /\ csv = "none"
  /\ json = "none"

-----------------------------------------------------------------------------
(* The publisher                                                           *)

save_previous == previous' = [sample EXCEPT !.seq = IF sample.valid THEN @ ELSE 0]

NoBaseline ==
  /\ readerState = "OPERATIONAL"
  /\ comparisonEpoch' = sample.epoch
  /\ UNCHANGED previous

imu_publish_begin_window ==
  /\ readerState = "OPERATIONAL"
  /\ comparisonEpoch' = sample.epoch
  /\ save_previous

Comparable == previous.valid /\ previous.epoch = sample.epoch

(* What the row says: the group is missing from the row that meets a new   *)
(* epoch, whatever was decoded in it.                                      *)
imu_publish_evaluate_snapshot ==
  /\ published' = published + 1
  /\ row' = IF sample.epoch # comparisonEpoch \/ ~sample.valid THEN "missing"
            ELSE IF ~Comparable THEN "fresh"
            ELSE IF sample.seq > previous.seq + 1 THEN "multi"
            ELSE IF sample.seq > previous.seq THEN "fresh" ELSE "stale"
  /\ save_previous
  /\ comparisonEpoch' = sample.epoch
  /\ arrived' = 0

-----------------------------------------------------------------------------
(* begin_acquisition_window, in the turn ACQUISITION is selected           *)

(* How far the setup comes: no file, the files reserved, the logger        *)
(* started, the running companion published, or the window open.  This     *)
(* turn's own overrun is not gate time, and the stage's clock starts in    *)
(* the next turn, however late that one wakes up.                          *)
OpenWindow(reached) ==
  /\ step = "open"
  /\ csv' = IF reached >= 1 THEN "tmp" ELSE "none"
  /\ logger' = IF reached >= 2 THEN [pc |-> "loop"] ELSE logger
  /\ json' = IF reached >= 3 THEN "running" ELSE "none"
  /\ windowOpened' = (reached = 4)
  /\ loggerFailure' = (reached < 3)
  /\ ownerFailure' = (reached = 3)
  /\ IF reached = 4
     THEN imu_publish_begin_window /\ step' = "turn" /\ arrived' = 0 /\ late' \in Lateness
     ELSE UNCHANGED <<previous, comparisonEpoch, arrived, late>> /\ step' = "drain"
  /\ UNCHANGED <<acq, age, slip, nextTurnTicks, processStop, windowClosed, gate,
                 published, row, source, queue, drain, tail, written, writeFailed,
                 shutdownErrors, batch, file>>

(* The plan ends before acquisition: no window, no CSV.                    *)
NoAcquisition ==
  /\ step = "open"
  /\ step' = "drain"
  /\ processStop' \in BOOLEAN
  /\ ownerFailure' \in BOOLEAN
  /\ acq' = "vetoed"
  /\ UNCHANGED <<clock, window, loggerFailure, gate, publisher,
                 source, queue, worker, drain, disk>>

-----------------------------------------------------------------------------
(* A turn in acquisition                                                   *)

InTurn(s) ==
  /\ step = s
  /\ UNCHANGED <<windowOpened, worker, drain, disk>>

(* imu_session_service decodes an event, or notices a reset.               *)
SensorEvent ==
  /\ InTurn("turn")
  /\ acq = "active"
  /\ sample.seq < MaxEvents
  /\ sample' = [sample EXCEPT !.seq = @ + 1, !.valid = TRUE]
  /\ arrived' = arrived + 1
  /\ UNCHANGED <<step, loop, windowClosed, failures, gate, published, previous,
                 comparisonEpoch, row, readerState, queue>>

ChipReset ==
  /\ InTurn("turn")
  /\ acq = "active"
  /\ readerState = "OPERATIONAL"
  /\ readerState' = "RECOVERING"
  /\ sample' = [sample EXCEPT !.epoch = @ + 1, !.valid = FALSE]
  /\ UNCHANGED <<step, loop, windowClosed, failures, gate, publisher, queue>>

(* The stop is seen, or the turn, or the sleep before it, fails.  The      *)
(* clock and the events are not read any more.                             *)
LeavesLoop ==
  /\ InTurn("turn")
  /\ acq = "active"
  /\ step' = "drain"
  /\ \/ processStop' = TRUE /\ UNCHANGED ownerFailure
     \/ ownerFailure' = TRUE /\ UNCHANGED processStop
  /\ age' = 0
  /\ late' = 0
  /\ slip' = 0
  /\ nextTurnTicks' = 1
  /\ arrived' = 0
  /\ UNCHANGED <<acq, windowClosed, loggerFailure, gate, published, previous,
                 comparisonEpoch, row, source, queue>>

(* post_tick: the stage ends by the clock, read before the turn.           *)
TurnStarts ==
  /\ InTurn("turn")
  /\ acq = "active"
  /\ acq' = IF age >= WindowTicks * Period THEN "succeeded" ELSE acq
  /\ step' = "publish"
  /\ UNCHANGED <<clock, processStop, windowClosed, failures, gate, publisher, source,
                 queue>>

EligibleWhileActive == acq = "active"

(* A turn that publishes began in acquisition: the one that ends it too.   *)
app_publication_turn_eligible == acq \in {"active", "succeeded"}

WriteFailed ==
  /\ InTurn("publish")
  /\ ~windowClosed
  /\ app_publication_turn_eligible
  /\ writeFailed
  /\ loggerFailure' = TRUE
  /\ windowClosed' = TRUE
  /\ step' = "drain"
  /\ UNCHANGED <<loop, ownerFailure, gate, publisher, source, queue>>

NothingToPublish ==
  /\ InTurn("publish")
  /\ windowClosed \/ ~app_publication_turn_eligible
  /\ windowClosed' = TRUE
  /\ step' = "sleep"
  /\ UNCHANGED <<loop, failures, gate, publisher, source, queue>>

Publishes ==
  /\ InTurn("publish")
  /\ ~windowClosed
  /\ app_publication_turn_eligible
  /\ ~writeFailed

GateAt(ticks) == IF ticks \div GateTicks > maxGate THEN maxGate ELSE ticks \div GateTicks

GateIdle ==
  /\ Publishes
  /\ tickIndex' = tickIndex + nextTurnTicks
  /\ GateAt(tickIndex') <= lastGate
  /\ step' = "sleep"
  /\ UNCHANGED <<lastGate, gatesSkipped, windowClosed, loop, failures, publisher,
                 source, queue>>

SkippedBefore(current) == current - lastGate - 1

(* A due gate: the row, and the window closed behind the last one.  A full *)
(* queue drops the row; the next ones carry the count.                     *)
GateDue ==
  /\ Publishes
  /\ tickIndex' = tickIndex + nextTurnTicks
  /\ GateAt(tickIndex') > lastGate
  /\ lastGate' = GateAt(tickIndex')
  /\ gatesSkipped' = gatesSkipped + SkippedBefore(lastGate')
  /\ imu_publish_evaluate_snapshot
  /\ windowClosed' = (lastGate' >= maxGate \/ acq # "active")
  /\ \/ /\ head - tail < QueueCapacity
        /\ ring' = [ring EXCEPT ![head % QueueCapacity] =
                      [seq |-> published', drops |-> dropped]]
        /\ step' = "head"
        /\ UNCHANGED dropped
     \/ /\ head - tail >= QueueCapacity
        /\ dropped' = dropped + 1
        /\ step' = "sleep"
        /\ UNCHANGED ring
  /\ UNCHANGED <<head, loop, failures, source>>

(* The head, stored after its slot.                                        *)
StoreHead ==
  /\ InTurn("head")
  /\ head' = head + 1
  /\ step' = "sleep"
  /\ UNCHANGED <<ring, dropped, loop, windowClosed, failures, gate, publisher, source>>

(* now is the clock past s_deadline when the turn's work is done, wake how *)
(* late the sleep returns.  A target already passed starts the grid again. *)
RT_SleepUntil(now, wake) ==
  LET skipped == IF now >= Period THEN (now - Period) \div Period + 1 ELSE 0
      target == IF now >= Period THEN now + Period ELSE Period
  IN  /\ nextTurnTicks' = 1 + skipped
      /\ slip' = slip + (target - Period * (1 + skipped))
      /\ late' = wake
      /\ age' = age + (target + wake - late)

Sleep ==
  /\ InTurn("sleep")
  /\ acq = "active"
  /\ \E work \in Work, wake \in Lateness : RT_SleepUntil(late + work, wake)
  /\ step' = "turn"
  /\ row' = "none"
  /\ UNCHANGED <<acq, processStop, windowClosed, failures, gate, published, previous,
                 comparisonEpoch, arrived, source, queue>>

(* The turn that ended the stage sleeps as well, and the loop ends behind  *)
(* it, as the plan is complete.                                            *)
LastSleep ==
  /\ InTurn("sleep")
  /\ acq = "succeeded"
  /\ ownerFailure' \in BOOLEAN
  /\ step' = "drain"
  /\ row' = "none"
  /\ age' = 0
  /\ nextTurnTicks' = 1
  /\ arrived' = 0
  /\ UNCHANGED <<acq, late, slip, processStop, windowClosed, loggerFailure, gate,
                 published, previous, comparisonEpoch, source, queue>>

-----------------------------------------------------------------------------
(* worker_main                                                             *)

WorkerStep(from) ==
  /\ logger.pc = from
  /\ UNCHANGED <<step, loop, window, failures, gate, publisher, source, queue, drain,
                 disk>>

(* worker_flush: a write that fails may have put some of its rows.         *)
FlushWrites ==
  /\ file' = file \o batch
  /\ written' = written + Len(batch)

FlushSucceeds == FlushWrites /\ UNCHANGED writeFailed

FlushFails ==
  /\ batch # <<>>
  /\ \E n \in 0..Len(batch) : file' = file \o SubSeq(batch, 1, n)
  /\ batch' = <<>>
  /\ writeFailed' = TRUE
  /\ UNCHANGED written

(* The stop is read before the head: no row is queued after it is set.     *)
ReadStop ==
  /\ WorkerStep("loop")
  /\ logger' = [pc |-> "look", stop |-> stopRequested]
  /\ UNCHANGED <<tail, written, writeFailed, shutdownErrors, batch, file>>

ReadHead ==
  /\ WorkerStep("look")
  /\ logger' = IF head = tail THEN [pc |-> "empty", stop |-> logger.stop]
                              ELSE [pc |-> "row", head |-> head]
  /\ UNCHANGED <<tail, written, writeFailed, shutdownErrors, batch, file>>

StopSeenNow == stopRequested
StopSeen == logger.stop

QueueEmpty ==
  /\ WorkerStep("empty")
  /\ logger' = [pc |-> IF StopSeen THEN "sync" ELSE "loop"]
  /\ \/ writeFailed /\ batch' = <<>> /\ UNCHANGED <<written, writeFailed, file>>
     \/ ~writeFailed /\ FlushSucceeds /\ batch' = <<>>
     \/ ~writeFailed /\ FlushFails
  /\ UNCHANGED <<tail, shutdownErrors>>

(* No row of this record fits in an empty batch.                           *)
FormatFails ==
  /\ FlushWrites
  /\ batch' = <<>>
  /\ writeFailed' = TRUE

(* worker_process: a row that does not fit flushes the batch before it.    *)
ProcessRow ==
  /\ WorkerStep("row")
  /\ tail' = tail + 1
  /\ logger' = IF tail' = logger.head THEN [pc |-> "loop"] ELSE logger
  /\ LET r == ring[tail % QueueCapacity]
     IN  \/ writeFailed /\ UNCHANGED <<batch, written, writeFailed, file>>
         \/ /\ ~writeFailed
            /\ Len(batch) < BatchRows
            /\ batch' = Append(batch, r)
            /\ UNCHANGED <<written, writeFailed, file>>
         \/ ~writeFailed /\ batch # <<>> /\ FlushSucceeds /\ batch' = <<r>>
         \/ ~writeFailed /\ (FlushFails \/ FormatFails)
  /\ UNCHANGED shutdownErrors

SyncFile ==
  /\ WorkerStep("sync")
  /\ logger' = [pc |-> "done"]
  /\ shutdownErrors' \in BOOLEAN
  /\ UNCHANGED <<tail, written, writeFailed, batch, file>>

LoggerWorker == ReadStop \/ ReadHead \/ QueueEmpty \/ ProcessRow \/ SyncFile

-----------------------------------------------------------------------------
(* finalize_outputs                                                        *)

Finalizes(s) ==
  /\ step = s
  /\ UNCHANGED <<loop, window, ownerFailure, gate, publisher, source, queue, worker>>

LoggerStarted == logger.pc # "none"

(* imu_logger_drain: the stop is set, and the worker waited for.           *)
DrainBegins ==
  /\ Finalizes("drain")
  /\ stopRequested' = LoggerStarted
  /\ step' = IF LoggerStarted THEN "join" ELSE "close"
  /\ UNCHANGED <<drained, loggerFailure, disk>>

DrainEnds ==
  /\ Finalizes("join")
  /\ \/ logger.pc = "done" /\ drained' = TRUE
     \/ UNCHANGED drained
  /\ loggerFailure' = (loggerFailure \/ ~drained' \/ writeFailed)
  /\ step' = "close"
  /\ UNCHANGED <<stopRequested, disk>>

app_termination_reason ==
  IF loggerFailure THEN "logger_failure"
  ELSE IF ownerFailure THEN "owner_failure"
  ELSE IF windowOpened /\ readerState # "OPERATIONAL" THEN "session_unrecovered"
  ELSE IF processStop THEN "process_stop"
  ELSE IF ~windowOpened THEN "no_acquisition" ELSE "completed"

app_csv_finalizes_complete ==
  /\ \/ app_termination_reason = "completed" /\ windowClosed
     \/ app_termination_reason = "process_stop" /\ windowOpened /\ published # 0
  /\ LoggerStarted
  /\ drained
  /\ ~writeFailed
  /\ ~shutdownErrors

(* imu_logfile_close_csv: the CSV is closed, if the worker has let go of   *)
(* it, and linked under its final name; each of the two may fail.          *)
imu_logfile_close_csv ==
  /\ Finalizes("close")
  /\ csv = "tmp"
  /\ step' = "commit"
  /\ \/ /\ csv' = IF app_csv_finalizes_complete THEN "csv" ELSE "partial"
        /\ UNCHANGED loggerFailure
     \/ /\ drained \/ ~LoggerStarted
        /\ csv' = "partial"
        /\ loggerFailure' = TRUE
     \/ /\ UNCHANGED csv
        /\ loggerFailure' = TRUE
  /\ UNCHANGED <<drain, json>>

(* No CSV: a companion of its own, unless the files could not be opened.   *)
NoCsv ==
  /\ Finalizes("close")
  /\ csv = "none"
  /\ \/ acq = "vetoed" /\ step' = "commit" /\ UNCHANGED loggerFailure
     \/ step' = "over" /\ loggerFailure' = TRUE
  /\ UNCHANGED <<drain, disk>>

Completion ==
  IF csv = "none" THEN "no_csv"
  ELSE IF ~loggerFailure /\ published # 0 /\ csv = "csv" THEN "complete" ELSE "incomplete"

imu_logfile_commit_json ==
  /\ Finalizes("commit")
  /\ json' = Completion \/ UNCHANGED json
  /\ step' = "over"
  /\ UNCHANGED <<drain, loggerFailure, csv>>

Over ==
  /\ step = "over"
  /\ logger.pc \in {"none", "done"}
  /\ UNCHANGED vars

Finalize == DrainBegins \/ DrainEnds \/ imu_logfile_close_csv \/ NoCsv
              \/ imu_logfile_commit_json

Turn == LeavesLoop \/ TurnStarts \/ WriteFailed \/ NothingToPublish \/ GateIdle
          \/ GateDue \/ StoreHead \/ Sleep \/ LastSleep

Next ==
  \/ \E reached \in 0..4 : OpenWindow(reached)
  \/ NoAcquisition
  \/ Turn
  \/ SensorEvent
  \/ ChipReset
  \/ LoggerWorker
  \/ Finalize
  \/ Over

Spec == Init /\ [][Next]_vars

-----------------------------------------------------------------------------
(* Properties                                                              *)

OwnerTypeOK ==
  /\ step \in {"open", "turn", "publish", "head", "sleep", "drain", "join", "close",
               "commit", "over"}
  /\ acq \in {"active", "succeeded", "vetoed"}
  /\ {late, slip} \subseteq Nat
  /\ lastGate \in 0..maxGate
  /\ published \in 0..maxGate
  /\ row \in {"none", "missing", "fresh", "multi", "stale"}
  /\ readerState \in {"OPERATIONAL", "RECOVERING"}

LoggerTypeOK ==
  /\ \A k \in DOMAIN ring : ring[k] \in [seq : 0..maxGate, drops : 0..maxGate]
  /\ tail <= head
  /\ head - tail <= QueueCapacity
  /\ Len(batch) <= BatchRows
  /\ csv \in {"none", "tmp", "csv", "partial"}
  /\ json \in {"none", "running", "no_csv", "complete", "incomplete"}

(* The types of the archive's variables.                                   *)
TypeOK == OwnerTypeOK /\ LoggerTypeOK

(* "Completion describes a drained, undamaged CSV archive"                 *)
(* (bno/readme.md:1051), on the disk, at every moment, so for a program    *)
(* killed at any point too: a file under the name .csv holds every row     *)
(* that was queued, once and in order, each saying how many publications   *)
(* before it the full queue dropped; and a companion that says complete    *)
(* is beside such a file.                                                  *)
CompleteIsWhole ==
  /\ json = "complete" => csv = "csv"
  /\ csv = "csv" =>
       /\ Len(file) = head
       /\ written = head
       /\ head + dropped = published
       /\ \A k \in DOMAIN file : file[k].seq = k + file[k].drops

(* Whole periods the grid is behind the clock, this wake-up's lateness     *)
(* included.                                                               *)
PeriodsBehind == (late + slip) \div Period

(* Every gate reached is a row or counted as skipped before one, and a run *)
(* that completes leaves out no gate but for what its last turn was behind *)
(* the clock: a late wake-up that no sleep has counted yet, and the parts  *)
(* of periods lost to overruns (rt/realtime.c:152).  The turn that ends    *)
(* the stage by the clock still publishes, so a run at most one period     *)
(* behind has every gate; a window that had its last gate is closed.       *)
GatesAccounted ==
  /\ published + gatesSkipped = lastGate
  /\ step = "over" /\ app_termination_reason = "completed" =>
       /\ lastGate >= GateAt(WindowTicks + 1 - PeriodsBehind)
       /\ lastGate = maxGate => windowClosed

(* What a row says of its group is about the events since the row before   *)
(* it, or since the window was opened: fresh if one came, multi if several *)
(* did, stale only if none did, across a reset of the chip as well.        *)
FreshMeansNew ==
  [][published' = published + 1 =>
       /\ row' = "fresh" => arrived >= 1
       /\ row' = "multi" => arrived >= 2
       /\ row' = "stale" => arrived = 0]_vars
=============================================================================
