------------------------------- MODULE TwgLog -------------------------------
(***************************************************************************)
(* The CSV queue of the integrated application, integrate/twg_log.c: the   *)
(* owner loop enqueues rows into a ring, one worker thread writes them,    *)
(* and twg_log_stop joins the worker and closes the file.                  *)
(*                                                                         *)
(* Rows are numbered as they are enqueued.  A step is what one thread does *)
(* between two accesses to an atomic the other thread uses; head and tail  *)
(* grow without wrapping (uint64_t), slots are taken modulo Capacity.      *)
(***************************************************************************)
EXTENDS Integers, Sequences

CONSTANTS
  Capacity,    \* TWG_LOG_QUEUE_CAPACITY
  MaxRows      \* bound on the rows enqueued

ASSUME LogAssumption ==
  /\ Capacity \in Nat \ {0}
  /\ MaxRows \in Nat

VARIABLES
  ring,
  head,
  tail,
  written,
  dropped,
  stopRequested,
  writeFailed,
  file,          \* the rows in the CSV
  owner,         \* the owner thread's position
  worker,        \* the worker thread's position
  stopResult     \* what twg_log_stop returned

shared == <<head, tail, stopRequested, writeFailed>>
vars == <<ring, shared, written, dropped, file, owner, worker, stopResult>>

Slots == 0..(Capacity - 1)
SlotOf(index) == index % Capacity

Init ==
  /\ ring = [i \in Slots |-> 0]
  /\ head = 0
  /\ tail = 0
  /\ written = 0
  /\ dropped = 0
  /\ stopRequested = FALSE
  /\ writeFailed = FALSE
  /\ file = <<>>
  /\ owner = "running"
  /\ worker = "poll"
  /\ stopResult = "none"

-----------------------------------------------------------------------------
(* The owner thread                                                        *)

FullLate == head - tail > Capacity
Full == head - tail >= Capacity

(* twg_log_enqueue up to the store of head: the row is in its slot.  A     *)
(* full ring drops the row, and the owner loop stops on it (main.c).       *)
Offer ==
  /\ owner = "running"
  /\ head < MaxRows
  /\ \/ /\ ~Full
        /\ ring' = [ring EXCEPT ![SlotOf(head)] = head + 1]
        /\ owner' = "publishing"
        /\ UNCHANGED dropped
     \/ /\ Full
        /\ dropped' = dropped + 1
        /\ owner' = "leaving"
        /\ UNCHANGED ring
  /\ UNCHANGED <<shared, written, file, worker, stopResult>>

Publish ==
  /\ owner = "publishing"
  /\ head' = head + 1
  /\ owner' = "running"
  /\ UNCHANGED <<ring, tail, stopRequested, writeFailed, written, dropped, file,
                 worker, stopResult>>

(* The loop ends: acquisition time is over, a signal, a failure elsewhere  *)
(* or a failed write it has seen.                                          *)
LeaveLoop ==
  /\ owner = "running"
  /\ owner' = "leaving"
  /\ UNCHANGED <<ring, shared, written, dropped, file, worker, stopResult>>

RequestStop ==
  /\ owner = "leaving"
  /\ stopRequested' = TRUE
  /\ owner' = "joining"
  /\ UNCHANGED <<ring, head, tail, writeFailed, written, dropped, file, worker,
                 stopResult>>

VerdictOfClose(closed) == IF closed THEN "ok" ELSE "failed"
Verdict(closed) == IF closed /\ ~writeFailed THEN "ok" ELSE "failed"

(* The join returns; closed: fflush, fsync and fclose all succeeded.       *)
Join(closed) ==
  /\ owner = "joining"
  /\ worker = "done"
  /\ owner' = "stopped"
  /\ stopResult' = Verdict(closed)
  /\ UNCHANGED <<ring, shared, written, dropped, file, worker>>

-----------------------------------------------------------------------------
(* The worker thread                                                       *)

MoveWorker(from, to) ==
  /\ worker = from
  /\ worker' = to
  /\ UNCHANGED <<ring, shared, written, dropped, file, owner, stopResult>>

(* head is loaded first; only an empty ring makes the worker look at       *)
(* stopRequested, in a later step.                                         *)
Poll == MoveWorker("poll", IF tail = head THEN "empty" ELSE "write")

PauseForEver == MoveWorker("empty", "poll")
CheckStop == MoveWorker("empty", IF stopRequested THEN "flush" ELSE "poll")

TryAgain == TRUE
MayWrite == ~writeFailed

(* write_record: the row is in the file or writing has failed for good.    *)
Write ==
  /\ worker = "write"
  /\ worker' = "advance"
  /\ \/ /\ MayWrite
        /\ file' = Append(file, ring[SlotOf(tail)])
        /\ written' = written + 1
        /\ UNCHANGED writeFailed
     \/ /\ MayWrite
        /\ writeFailed' = TRUE
        /\ UNCHANGED <<file, written>>
     \/ /\ ~MayWrite
        /\ UNCHANGED <<file, written, writeFailed>>
  /\ UNCHANGED <<ring, head, tail, stopRequested, dropped, owner, stopResult>>

SkipToHead == head
NextTail == tail + 1

Advance ==
  /\ worker = "advance"
  /\ worker' = "poll"
  /\ tail' = NextTail
  /\ UNCHANGED <<ring, head, stopRequested, writeFailed, written, dropped, file,
                 owner, stopResult>>

(* The last fflush, then workerDone.                                       *)
Flush(ok) ==
  /\ worker = "flush"
  /\ worker' = "done"
  /\ writeFailed' = (writeFailed \/ ~ok)
  /\ UNCHANGED <<ring, head, tail, stopRequested, written, dropped, file, owner,
                 stopResult>>

Worker ==
  \/ Poll
  \/ CheckStop
  \/ Write
  \/ Advance
  \/ \E ok \in BOOLEAN : Flush(ok)

Owner ==
  \/ Offer
  \/ Publish
  \/ LeaveLoop
  \/ RequestStop
  \/ \E closed \in BOOLEAN : Join(closed)

Next == Owner \/ Worker

Spec == Init /\ [][Next]_vars

(* Both threads are scheduled.  The owner finishes what it has begun, but  *)
(* nothing makes it enqueue or leave its loop.                             *)
Fairness ==
  /\ WF_vars(Worker)
  /\ WF_vars(Publish)
  /\ WF_vars(RequestStop)
  /\ WF_vars(\E closed \in BOOLEAN : Join(closed))

FairSpec == Spec /\ Fairness

-----------------------------------------------------------------------------
(* Properties                                                              *)

(* The types of the queue (TwgLog, twg_log.h); the ring is never fuller    *)
(* than its capacity.                                                      *)
TypeOK ==
  /\ ring \in [Slots -> 0..MaxRows]
  /\ head \in 0..MaxRows
  /\ tail \in 0..head
  /\ head - tail <= Capacity
  /\ written \in 0..MaxRows
  /\ dropped \in Nat
  /\ stopRequested \in BOOLEAN
  /\ writeFailed \in BOOLEAN
  /\ file \in Seq(1..MaxRows)
  /\ owner \in {"running", "publishing", "leaving", "joining", "stopped"}
  /\ worker \in {"poll", "empty", "write", "advance", "flush", "done"}
  /\ stopResult \in {"none", "ok", "failed"}

(* The CSV holds the first rows that were enqueued, each once and in       *)
(* order: a row that could not be written is the last one, never a gap.    *)
FileIsPrefix ==
  /\ Len(file) = written
  /\ \A i \in 1..Len(file) : file[i] = i

(* A row that is published and not yet written is intact in its slot,      *)
(* whatever the owner writes meanwhile.                                    *)
PublishedIntact == \A n \in tail..(head - 1) : ring[SlotOf(n)] = n + 1

(* A stop that reports success left in the CSV every row the worker took   *)
(* out of the ring.                                                        *)
SuccessMeansWritten == stopResult = "ok" => Len(file) = tail

(* A published row reaches the CSV unless writing fails or the queue is    *)
(* being stopped.                                                          *)
RowsReachFile ==
  \A n \in 1..MaxRows :
    head >= n ~> (Len(file) >= n \/ writeFailed \/ stopRequested)

(* twg_log_stop returns: the worker never waits for anything but a row.    *)
StopReturns == owner = "leaving" ~> owner = "stopped"

(* After a normal stop that reports zero drops no row is missing: "Verify  *)
(* that the final shutdown line shows zero logger drops" is the readme's   *)
(* test for a complete CSV.                                                *)
NoDropsMeansComplete ==
  stopResult = "ok" /\ dropped = 0 => Len(file) = head
=============================================================================
