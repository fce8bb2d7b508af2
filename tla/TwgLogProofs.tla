---------------------------- MODULE TwgLogProofs ----------------------------
(***************************************************************************)
(* What the CSV queue keeps for every capacity and number of rows: the     *)
(* ring's published slots are never overwritten, the file is a prefix of   *)
(* the rows, and the verdict of a stop is honest.                          *)
(***************************************************************************)
EXTENDS TwgLog, SequenceTheorems, TLAPS

(* The owner has filled the slot it is about to publish, and the ring has  *)
(* room for it.                                                            *)
OfferedIntact ==
  owner = "publishing" =>
    /\ head < MaxRows
    /\ head - tail < Capacity
    /\ ring[SlotOf(head)] = head + 1

(* The worker holds a published row from Write to Advance.                 *)
WorkerHoldsRow == worker \in {"write", "advance"} => tail < head

(* Rows the worker has gone past are in the file until writing fails, and  *)
(* from then on none is added.                                             *)
FileFollowsTail ==
  /\ ~writeFailed => Len(file) = IF worker = "advance" THEN tail + 1 ELSE tail
  /\ writeFailed => Len(file) <= tail

(* A verdict is given once, when the worker has ended.                     *)
VerdictIsLast ==
  /\ stopResult # "none" => owner = "stopped"
  /\ owner = "stopped" => worker = "done"
  /\ stopResult = "ok" => ~writeFailed

QueueInv ==
  /\ TypeOK
  /\ PublishedIntact
  /\ OfferedIntact
  /\ WorkerHoldsRow
  /\ FileIsPrefix
  /\ FileFollowsTail
  /\ VerdictIsLast

-----------------------------------------------------------------------------
(* The ring                                                                *)

(* Division with remainder.                                                *)
LEMMA DivMod ==
  ASSUME NEW a \in Nat, NEW c \in Nat, c > 0
  PROVE  a \div c \in Int /\ a = (a \div c) * c + (a % c)
<1>1. a = (a \div c) * c + (a % c)
  BY SMTT(30)
<1> QED
  BY <1>1

(* Two indices less than a capacity apart have different slots.            *)
LEMMA SlotsDistinct ==
  ASSUME NEW m \in Nat, NEW n \in Nat, m < n, n - m < Capacity
  PROVE  SlotOf(m) # SlotOf(n)
<1>1. Capacity \in Nat /\ Capacity > 0
  BY LogAssumption DEF LogAssumption
<1>2. SUFFICES ASSUME m % Capacity = n % Capacity
               PROVE  FALSE
  BY DEF SlotOf
<1>3. PICK i \in Int : m = i * Capacity + (m % Capacity)
  BY <1>1, DivMod
<1>4. PICK j \in Int : n = j * Capacity + (n % Capacity)
  BY <1>1, DivMod
<1>5. m % Capacity \in Int
  BY <1>1
<1>6. n - m = (j - i) * Capacity
  BY <1>1, <1>2, <1>3, <1>4, <1>5
<1>7. j - i > 0 => (j - i) * Capacity >= Capacity
  BY <1>1
<1>8. j - i <= 0 => (j - i) * Capacity <= 0
  BY <1>1
<1> QED
  BY <1>1, <1>6, <1>7, <1>8

-----------------------------------------------------------------------------
(* The owner's steps                                                       *)

(* Filling the next slot overwrites no published row.                      *)
LEMMA OfferKeeps == ASSUME QueueInv, Offer PROVE QueueInv'
<1>1. /\ Capacity \in Nat /\ Capacity > 0 /\ MaxRows \in Nat
      /\ head \in Nat /\ tail \in Nat /\ tail <= head /\ head <= MaxRows
      /\ head < MaxRows
  BY LogAssumption DEF LogAssumption, QueueInv, TypeOK, Offer
<1>2. CASE Full
  BY <1>1, <1>2 DEF Offer, shared, Full, QueueInv, TypeOK, PublishedIntact, OfferedIntact,
                    WorkerHoldsRow, FileIsPrefix, FileFollowsTail, VerdictIsLast
<1>3. CASE ~Full
  <2>1. /\ ring' = [ring EXCEPT ![SlotOf(head)] = head + 1]
        /\ owner = "running" /\ owner' = "publishing"
        /\ UNCHANGED <<shared, written, dropped, file, worker, stopResult>>
    BY <1>3 DEF Offer
  <2>2. SlotOf(head) \in Slots
    BY <1>1 DEF SlotOf, Slots
  <2>3. ring \in [Slots -> 0..MaxRows] /\ head + 1 \in 0..MaxRows
    BY <1>1 DEF QueueInv, TypeOK
  <2>4. head - tail < Capacity
    BY <1>1, <1>3 DEF Full
  <2>5. TypeOK'
    BY <2>1, <2>2, <2>3 DEF QueueInv, TypeOK, shared
  <2>6. OfferedIntact'
    BY <1>1, <2>1, <2>2, <2>3, <2>4 DEF OfferedIntact, shared, SlotOf
  <2>7. PublishedIntact'
    <3> SUFFICES ASSUME NEW n \in tail..(head - 1)
                 PROVE  ring'[SlotOf(n)] = n + 1
      BY <2>1 DEF PublishedIntact, shared, SlotOf
    <3>1. n \in Nat /\ n < head /\ head - n < Capacity
      BY <1>1, <2>4
    <3>2. SlotOf(n) # SlotOf(head) /\ SlotOf(n) \in Slots
      BY <1>1, <3>1, SlotsDistinct DEF SlotOf, Slots
    <3>3. ring[SlotOf(n)] = n + 1
      BY DEF QueueInv, PublishedIntact
    <3> QED
      BY <2>1, <2>3, <3>2, <3>3
  <2>8. (WorkerHoldsRow /\ FileIsPrefix /\ FileFollowsTail /\ VerdictIsLast)'
    BY <2>1 DEF QueueInv, shared, WorkerHoldsRow, FileIsPrefix, FileFollowsTail,
                VerdictIsLast
  <2> QED
    BY <2>5, <2>6, <2>7, <2>8 DEF QueueInv
<1> QED
  BY <1>2, <1>3

(* Publishing hands the offered row to the worker.                         *)
LEMMA PublishKeeps == ASSUME QueueInv, Publish PROVE QueueInv'
<1>1. /\ Capacity \in Nat /\ Capacity > 0 /\ MaxRows \in Nat
      /\ head \in Nat /\ tail \in Nat /\ tail <= head /\ head < MaxRows
      /\ head - tail < Capacity
      /\ ring[SlotOf(head)] = head + 1
  BY LogAssumption DEF LogAssumption, QueueInv, TypeOK, Publish, OfferedIntact
<1>2. TypeOK'
  BY <1>1 DEF Publish, QueueInv, TypeOK
<1>3. PublishedIntact'
  <2> SUFFICES ASSUME NEW n \in tail..head
               PROVE  ring[SlotOf(n)] = n + 1
    BY <1>1 DEF PublishedIntact, Publish, SlotOf
  <2>1. n = head \/ n \in tail..(head - 1)
    BY <1>1
  <2> QED
    BY <1>1, <2>1 DEF QueueInv, PublishedIntact
<1>4. (OfferedIntact /\ WorkerHoldsRow /\ FileIsPrefix /\ FileFollowsTail /\ VerdictIsLast)'
  BY <1>1 DEF Publish, QueueInv, OfferedIntact, WorkerHoldsRow, FileIsPrefix,
              FileFollowsTail, VerdictIsLast
<1> QED
  BY <1>2, <1>3, <1>4 DEF QueueInv

(* Leaving the loop and asking for the stop touch no row.                  *)
LEMMA LeaveKeeps == ASSUME QueueInv, LeaveLoop \/ RequestStop PROVE QueueInv'
<1>1. /\ owner \in {"running", "leaving"} /\ owner' \in {"leaving", "joining"}
      /\ stopRequested' \in BOOLEAN
      /\ UNCHANGED <<ring, head, tail, writeFailed, written, dropped, file, worker,
                     stopResult>>
  BY DEF LeaveLoop, RequestStop, shared, QueueInv, TypeOK
<1>2. TypeOK'
  BY <1>1 DEF QueueInv, TypeOK
<1>3. PublishedIntact' /\ OfferedIntact'
  BY <1>1 DEF QueueInv, PublishedIntact, OfferedIntact, SlotOf
<1>4. (WorkerHoldsRow /\ FileIsPrefix /\ FileFollowsTail /\ VerdictIsLast)'
  BY <1>1 DEF QueueInv, WorkerHoldsRow, FileIsPrefix, FileFollowsTail, VerdictIsLast
<1> QED
  BY <1>2, <1>3, <1>4 DEF QueueInv

(* The verdict is about a file nobody writes any more.                     *)
LEMMA JoinKeeps ==
  ASSUME QueueInv, NEW closed \in BOOLEAN, Join(closed)
  PROVE  QueueInv'
<1>1. stopResult' \in {"ok", "failed"} /\ (stopResult' = "ok" => ~writeFailed)
  BY DEF Join, Verdict
<1> QED
  BY <1>1 DEF Join, shared, QueueInv, TypeOK, PublishedIntact, OfferedIntact,
       WorkerHoldsRow, FileIsPrefix, FileFollowsTail, VerdictIsLast, SlotOf

-----------------------------------------------------------------------------
(* The worker's steps                                                      *)

(* Looking at head and at the stop flag changes only the worker's place.   *)
LEMMA PollKeeps == ASSUME QueueInv, Poll \/ CheckStop PROVE QueueInv'
<1>1. tail # head => tail < head
  BY LogAssumption DEF LogAssumption, QueueInv, TypeOK
<1>2. CASE Poll
  BY <1>1, <1>2 DEF Poll, MoveWorker, shared, QueueInv, TypeOK, PublishedIntact,
       OfferedIntact, WorkerHoldsRow, FileIsPrefix, FileFollowsTail, VerdictIsLast, SlotOf
<1>3. CASE CheckStop
  BY <1>3 DEF CheckStop, MoveWorker, shared, QueueInv, TypeOK, PublishedIntact,
       OfferedIntact, WorkerHoldsRow, FileIsPrefix, FileFollowsTail, VerdictIsLast, SlotOf
<1> QED
  BY <1>2, <1>3

(* The row written is the next one, since its slot is intact.              *)
LEMMA WriteKeeps == ASSUME QueueInv, Write PROVE QueueInv'
<1>1. /\ MaxRows \in Nat /\ head \in Nat /\ tail \in Nat /\ head <= MaxRows
      /\ tail < head
      /\ ring[SlotOf(tail)] = tail + 1
      /\ file \in Seq(1..MaxRows)
  <2>1. /\ MaxRows \in Nat /\ head \in Nat /\ tail \in Nat /\ head <= MaxRows
        /\ tail < head
    BY LogAssumption DEF LogAssumption, QueueInv, TypeOK, Write, WorkerHoldsRow
  <2>2. tail \in tail..(head - 1)
    BY <2>1
  <2> QED
    BY <2>1, <2>2 DEF QueueInv, TypeOK, PublishedIntact
<1>2. /\ worker = "write" /\ worker' = "advance"
      /\ UNCHANGED <<ring, head, tail, stopRequested, dropped, owner, stopResult>>
  BY DEF Write
<1>3. (PublishedIntact /\ OfferedIntact /\ WorkerHoldsRow)'
  BY <1>1, <1>2 DEF QueueInv, PublishedIntact, OfferedIntact, WorkerHoldsRow, SlotOf
<1>4. VerdictIsLast'
  BY <1>2 DEF QueueInv, VerdictIsLast
<1>5. Len(file) \in Nat /\ Len(file) = written
  BY <1>1 DEF QueueInv, FileIsPrefix
<1>6. CASE UNCHANGED <<file, written>> /\ writeFailed'
  <2>1. Len(file) <= tail
    BY <1>1, <1>2, <1>5 DEF QueueInv, TypeOK, FileFollowsTail
  <2> QED
    BY <1>1, <1>2, <1>3, <1>4, <1>6, <2>1
    DEF QueueInv, TypeOK, FileIsPrefix, FileFollowsTail
<1>7. CASE /\ ~writeFailed /\ UNCHANGED writeFailed
           /\ file' = Append(file, ring[SlotOf(tail)])
           /\ written' = written + 1
  <2>1. Len(file) = tail
    BY <1>1, <1>2, <1>7 DEF QueueInv, FileFollowsTail
  <2>2. /\ file' \in Seq(1..MaxRows)
        /\ Len(file') = tail + 1
        /\ file'[tail + 1] = tail + 1
        /\ \A i \in 1..tail : file'[i] = file[i]
    BY <1>1, <1>7, <2>1, AppendProperties
  <2>3. \A i \in 1..tail : file[i] = i
    BY <2>1 DEF QueueInv, FileIsPrefix
  <2>4. \A i \in 1..(tail + 1) : file'[i] = i
    BY <1>1, <2>2, <2>3
  <2>5. TypeOK'
    <3>1. written' \in 0..MaxRows
      BY <1>1, <1>5, <1>7, <2>1
    <3>2. writeFailed' \in BOOLEAN /\ file' \in Seq(1..MaxRows)
      BY <1>7, <2>2 DEF QueueInv, TypeOK
    <3> QED
      BY <1>2, <3>1, <3>2 DEF QueueInv, TypeOK
  <2> QED
    BY <1>1, <1>2, <1>3, <1>4, <1>5, <1>7, <2>1, <2>2, <2>4, <2>5
    DEF QueueInv, FileIsPrefix, FileFollowsTail
<1> QED
  BY <1>6, <1>7 DEF Write, MayWrite, QueueInv, TypeOK

(* The slot just written is given back.                                    *)
LEMMA AdvanceKeeps == ASSUME QueueInv, Advance PROVE QueueInv'
<1>1. /\ head \in Nat /\ tail \in Nat /\ tail < head /\ Capacity \in Nat
      /\ head - tail <= Capacity /\ Len(file) \in Nat
      /\ MaxRows \in Nat
  BY LogAssumption, LenProperties
  DEF LogAssumption, QueueInv, TypeOK, Advance, WorkerHoldsRow
<1>2. TypeOK'
  BY <1>1 DEF Advance, NextTail, QueueInv, TypeOK
<1>3. PublishedIntact'
  <2> SUFFICES ASSUME NEW n \in (tail + 1)..(head - 1)
               PROVE  ring[SlotOf(n)] = n + 1
    BY DEF Advance, NextTail, PublishedIntact, SlotOf
  <2>1. n \in tail..(head - 1)
    BY <1>1
  <2> QED
    BY <2>1 DEF QueueInv, PublishedIntact
<1>5. OfferedIntact'
  BY <1>1 DEF Advance, NextTail, QueueInv, OfferedIntact, SlotOf
<1>4. (WorkerHoldsRow /\ FileIsPrefix /\ FileFollowsTail /\ VerdictIsLast)'
  BY <1>1 DEF Advance, NextTail, QueueInv, WorkerHoldsRow, FileIsPrefix, FileFollowsTail,
              VerdictIsLast
<1> QED
  BY <1>2, <1>3, <1>4, <1>5 DEF QueueInv

(* The last flush may fail; it is then part of the verdict.                *)
LEMMA FlushKeeps ==
  ASSUME QueueInv, NEW ok \in BOOLEAN, Flush(ok)
  PROVE  QueueInv'
<1>1. Len(file) \in Nat /\ tail \in Nat /\ head \in Nat
  BY LogAssumption, LenProperties DEF LogAssumption, QueueInv, TypeOK
<1> QED
  BY <1>1 DEF Flush, QueueInv, TypeOK, PublishedIntact, OfferedIntact, WorkerHoldsRow,
              FileIsPrefix, FileFollowsTail, VerdictIsLast, SlotOf

-----------------------------------------------------------------------------
(* Theorems                                                                *)

(* The inductive invariant of the queue holds in every reachable state.    *)
THEOREM QueueInvariant == Spec => []QueueInv
<1>1. Init => QueueInv
  <2> SUFFICES ASSUME Init
               PROVE  QueueInv
    OBVIOUS
  <2>1. TypeOK
    <3>1. 0 \in 0..MaxRows /\ 0 \in 0..0 /\ 0 - 0 <= Capacity /\ 0 \in Nat
      BY LogAssumption DEF LogAssumption
    <3>2. ring \in [Slots -> 0..MaxRows]
      BY <3>1 DEF Init
    <3>3. file \in Seq(1..MaxRows)
      BY EmptySeq DEF Init
    <3> QED
      BY <3>1, <3>2, <3>3 DEF Init, TypeOK
  <2> QED
    BY <2>1 DEF Init, QueueInv, PublishedIntact, OfferedIntact, WorkerHoldsRow,
                FileIsPrefix, FileFollowsTail, VerdictIsLast
<1>2. QueueInv /\ [Next]_vars => QueueInv'
  <2>1. CASE UNCHANGED vars
    BY <2>1 DEF vars, shared, QueueInv, TypeOK, PublishedIntact, OfferedIntact,
                WorkerHoldsRow, FileIsPrefix, FileFollowsTail, VerdictIsLast, SlotOf
  <2> QED
    BY <2>1, OfferKeeps, PublishKeeps, LeaveKeeps, JoinKeeps, PollKeeps, WriteKeeps,
       AdvanceKeeps, FlushKeeps DEF Next, Owner, Worker
<1> QED
  BY <1>1, <1>2, PTL DEF Spec

(* The file is the first rows that were enqueued, in order and each once,  *)
(* whatever fails and however the threads interleave.                      *)
THEOREM LogIsPrefix == Spec => []FileIsPrefix
<1>1. QueueInv => FileIsPrefix
  BY DEF QueueInv
<1> QED
  BY <1>1, QueueInvariant, PTL

(* No slot is overwritten between its publication and its write.           *)
THEOREM NoOverwrite == Spec => []PublishedIntact
<1>1. QueueInv => PublishedIntact
  BY DEF QueueInv
<1> QED
  BY <1>1, QueueInvariant, PTL

(* A stop that reports success has in the file every row the worker took.  *)
THEOREM SuccessIsHonest == Spec => []SuccessMeansWritten
<1>1. QueueInv => SuccessMeansWritten
  BY DEF QueueInv, VerdictIsLast, FileFollowsTail, SuccessMeansWritten
<1> QED
  BY <1>1, QueueInvariant, PTL

(* The queue's variables keep their types, and the ring (TwgLog's head and *)
(* tail) is never fuller than its capacity.                                *)
THEOREM LogTypes == Spec => []TypeOK
<1>1. QueueInv => TypeOK
  BY DEF QueueInv
<1> QED
  BY <1>1, QueueInvariant, PTL
=============================================================================
