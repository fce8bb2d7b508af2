--------------------------- MODULE BnoArchiveProofs ---------------------------
(***************************************************************************)
(* What an acquisition of bno_app keeps for every window, gate, queue and  *)
(* batch: every gate of the window is accounted for, a row says what came  *)
(* since the row before it, and a CSV that is called complete holds every  *)
(* row that was queued.                                                    *)
(***************************************************************************)
EXTENDS BnoArchive, SequenceTheorems, TLAPS

-----------------------------------------------------------------------------
(* The inductive invariant                                                 *)

LoopSteps == {"turn", "publish", "head", "sleep"}
EndSteps == {"drain", "join", "close", "commit", "over"}

(* The owner's counters: a gate passed is a row or is skipped before one.  *)
CountInv ==
  /\ step \in LoopSteps \cup EndSteps \cup {"open"}
  /\ acq \in {"active", "succeeded", "vetoed"}
  /\ age \in Nat /\ late \in Nat /\ slip \in Nat
  /\ tickIndex \in Nat /\ nextTurnTicks \in Nat
  /\ lastGate \in 0..maxGate
  /\ published \in Nat /\ gatesSkipped \in Nat
  /\ published + gatesSkipped = lastGate

(* The ticks of the grid up to the turn that is being served.              *)
Ticks == tickIndex + (IF step \in {"turn", "publish"} THEN nextTurnTicks ELSE 0)

(* While the window is open, the clock is ahead of the ticks by what the   *)
(* grid has lost and by this wake-up's lateness at most; and a window      *)
(* closed by its gates has had the last of them.                           *)
WindowInv ==
  /\ step = "open" =>
       /\ acq = "active" /\ age = 0 /\ late = 0 /\ slip = 0
       /\ nextTurnTicks = 1 /\ tickIndex = 0 /\ lastGate = 0
       /\ ~windowOpened /\ ~windowClosed
  /\ step \in LoopSteps => windowOpened /\ acq \in {"active", "succeeded"} /\ ~loggerFailure
  /\ step \in LoopSteps /\ ~windowClosed =>
       /\ lastGate < maxGate
       /\ age <= Period * (Ticks - 1) + (late + slip)
  /\ windowOpened /\ windowClosed /\ ~loggerFailure /\ (acq = "active" \/ step = "publish") =>
       lastGate = maxGate

(* A stage that ended by the clock has been given all its ticks but those  *)
(* the grid was behind by, and so their gates.                             *)
GatesReached ==
  /\ lastGate >= GateAt(WindowTicks + 1 - PeriodsBehind)
  /\ lastGate = maxGate => windowClosed

EndInv ==
  /\ step = "publish" /\ acq = "succeeded" => age >= WindowTicks * Period
  /\ step # "publish" /\ windowOpened /\ acq = "succeeded" /\ ~loggerFailure => GatesReached
  /\ step = "turn" => acq = "active"
  /\ step \in EndSteps /\ windowOpened /\ ~loggerFailure /\ ~ownerFailure /\ ~processStop =>
       acq = "succeeded"

GateInv == CountInv /\ WindowInv /\ EndInv

(* What the owner knows of the group is of the last row, or of the opening *)
(* of the window, and the events since then are the ones it has not seen.  *)
RowInv ==
  /\ row \in {"none", "missing", "fresh", "multi", "stale"}
  /\ readerState \in {"OPERATIONAL", "RECOVERING"}
  /\ sample \in [epoch : Nat, seq : Nat, valid : BOOLEAN]
  /\ previous \in [epoch : Nat, seq : Nat, valid : BOOLEAN]
  /\ arrived \in Nat
  /\ step \in LoopSteps =>
       /\ comparisonEpoch = previous.epoch
       /\ sample.epoch >= previous.epoch
       /\ sample.epoch = previous.epoch =>
            IF previous.valid THEN sample.valid /\ sample.seq = previous.seq + arrived
                              ELSE sample.valid => arrived >= 1

(* The ring holds the rows queued and not yet taken, each with the number  *)
(* of the publication it is of.                                            *)
Rows == [seq : 0..maxGate, drops : 0..maxGate]
Slots == 0..(QueueCapacity - 1)
SlotOf(n) == n % QueueCapacity

RingInv ==
  /\ ring \in [Slots -> Rows]
  /\ head \in Nat /\ tail \in Nat /\ dropped \in Nat
  /\ tail <= head
  /\ head - tail <= QueueCapacity
  /\ published = head + dropped + (IF step = "head" THEN 1 ELSE 0)
  /\ \A n \in tail..(head - 1) : ring[SlotOf(n)].seq = n + 1 + ring[SlotOf(n)].drops
  /\ step = "head" =>
       /\ head - tail < QueueCapacity
       /\ ring[SlotOf(head)].seq = head + 1 + ring[SlotOf(head)].drops

(* The file and the batch, in that order, are the rows taken, until a      *)
(* write fails.                                                            *)
RowAt(r, n) == r.seq = n + r.drops

FileInv ==
  /\ batch \in Seq(Rows) /\ Len(batch) <= BatchRows
  /\ ~writeFailed =>
       /\ file \in Seq(Rows)
       /\ written = Len(file)
       /\ Len(file) + Len(batch) = tail
       /\ \A k \in 1..Len(file) : RowAt(file[k], k)
       /\ \A k \in 1..Len(batch) : RowAt(batch[k], Len(file) + k)

(* The logger's worker ends when the stop it saw was set and the queue it  *)
(* then saw was empty; the stop is set after the last row.                 *)
LoggerInv ==
  /\ logger.pc \in {"none", "loop", "look", "row", "empty", "sync", "done"}
  /\ stopRequested => step \in EndSteps \ {"drain"}
  /\ logger.pc = "look" /\ logger.stop => stopRequested
  /\ logger.pc = "row" => logger.head \in (tail + 1)..head
  /\ logger.pc = "empty" /\ logger.stop => stopRequested /\ head = tail
  /\ logger.pc \in {"sync", "done"} => stopRequested /\ head = tail /\ batch = <<>>

DiskInv ==
  /\ csv \in {"none", "tmp", "csv", "partial"}
  /\ json \in {"none", "running", "no_csv", "complete", "incomplete"}
  /\ drained => logger.pc = "done" /\ step \in EndSteps
  /\ csv = "csv" => step \in {"commit", "over"} /\ logger.pc = "done" /\ ~writeFailed
  /\ json = "complete" => csv = "csv" /\ step = "over"

QueueInv == RingInv /\ FileInv /\ LoggerInv /\ DiskInv

ArchiveInv == GateInv /\ RowInv /\ QueueInv

-----------------------------------------------------------------------------
(* Division, gates and slots                                               *)

LEMMA Parameters ==
  /\ GateTicks \in Nat /\ GateTicks > 0 /\ WindowTicks \in Nat
  /\ GateTicks <= WindowTicks
  /\ QueueCapacity \in Nat /\ QueueCapacity > 0
  /\ BatchRows \in Nat /\ BatchRows > 0
  /\ Period \in Nat /\ Period > 0
  /\ Lateness \subseteq Nat /\ Work \subseteq Nat
BY ArchiveAssumption DEF ArchiveAssumption

(* Division with remainder.                                                *)
LEMMA DivMod ==
  ASSUME NEW a \in Int, NEW c \in Nat, c > 0
  PROVE  a \div c \in Int /\ a % c \in 0..(c - 1) /\ a = (a \div c) * c + (a % c)
<1>1. a = (a \div c) * c + (a % c)
  BY SMTT(30)
<1>2. a % c \in 0..(c - 1)
  OBVIOUS
<1> QED
  BY <1>1, <1>2

(* A later tick is at no earlier gate.                                     *)
LEMMA DivOrder ==
  ASSUME NEW a \in Int, NEW b \in Int, a <= b, NEW c \in Nat, c > 0
  PROVE  a \div c \in Int /\ b \div c \in Int /\ a \div c <= b \div c
<1>1. PICK i \in Int, r \in 0..(c - 1) : i = a \div c /\ a = i * c + r
  BY DivMod
<1>2. PICK j \in Int, s \in 0..(c - 1) : j = b \div c /\ b = j * c + s
  BY DivMod
<1>3. i <= j
  <2>1. j - i <= -1 => (j - i) * c <= -c
    OBVIOUS
  <2>2. (j - i) * c = j * c - i * c
    OBVIOUS
  <2> QED
    BY <1>1, <1>2, <2>1, <2>2
<1> QED
  BY <1>1, <1>2, <1>3

LEMMA DivMonotone ==
  ASSUME NEW a \in Nat, NEW b \in Nat, a <= b, NEW c \in Nat, c > 0
  PROVE  /\ a \div c \in Nat
         /\ a \div c <= b \div c
         /\ c <= a => a \div c >= 1
<1>1. PICK i \in Int, r \in 0..(c - 1) : i = a \div c /\ a = i * c + r
  BY DivMod
<1>2. i + 1 > 0
  <2>1. i + 1 <= 0 => (i + 1) * c <= 0
    OBVIOUS
  <2>2. (i + 1) * c = i * c + c
    OBVIOUS
  <2> QED
    BY <1>1, <2>1, <2>2
<1>3. c <= a => i >= 1
  <2>1. i <= 0 => i * c <= 0
    OBVIOUS
  <2> QED
    BY <1>1, <2>1
<1> QED
  BY <1>1, <1>2, <1>3, DivOrder

(* The window has a gate, and no tick is at one past the last.             *)
LEMMA Gates ==
  /\ maxGate \in Nat /\ maxGate >= 1
  /\ \A t \in Nat : GateAt(t) \in 0..maxGate /\ (t >= WindowTicks => GateAt(t) = maxGate)
<1>1. maxGate \in Nat /\ maxGate >= 1
  BY Parameters, DivMonotone DEF maxGate
<1>2. ASSUME NEW t \in Nat
      PROVE  GateAt(t) \in 0..maxGate /\ (t >= WindowTicks => GateAt(t) = maxGate)
  <2>1. t \div GateTicks \in Nat
    BY Parameters, DivMonotone
  <2>2. t >= WindowTicks => t \div GateTicks >= maxGate
    BY Parameters, DivMonotone DEF maxGate
  <2> QED
    BY <1>1, <2>1, <2>2 DEF GateAt
<1> QED
  BY <1>1, <1>2

LEMMA GateOrder ==
  ASSUME NEW s \in Int, NEW t \in Int, s <= t
  PROVE  GateAt(s) \in Int /\ GateAt(t) \in Int /\ GateAt(s) <= GateAt(t)
         /\ GateAt(s) <= maxGate
<1>1. /\ s \div GateTicks \in Int /\ t \div GateTicks \in Int
      /\ s \div GateTicks <= t \div GateTicks
  BY Parameters, DivOrder
<1> QED
  BY <1>1, Gates DEF GateAt

(* A clock that has run for the window, and is ahead of the ticks by lag   *)
(* at most, has had all the ticks but the whole periods of the lag.        *)
LEMMA TicksHad ==
  ASSUME NEW ticks \in Nat, NEW lag \in Nat, NEW clk \in Nat,
         clk <= Period * (ticks - 1) + lag, clk >= WindowTicks * Period
  PROVE  lag \div Period \in Int /\ ticks >= WindowTicks + 1 - (lag \div Period)
<1> DEFINE q == lag \div Period
<1>1. PICK r \in 0..(Period - 1) : q \in Int /\ lag = q * Period + r
  BY Parameters, DivMod
<1> HIDE DEF q
<1>2. (ticks + q - WindowTicks) * Period
        = (Period * (ticks - 1) + q * Period + Period) - WindowTicks * Period
  BY Parameters, <1>1
<1>3. (ticks + q - WindowTicks) * Period > 0
  BY Parameters, <1>1, <1>2
<1>4. ticks + q - WindowTicks <= 0 => (ticks + q - WindowTicks) * Period <= 0
  BY Parameters, <1>1
<1>5. ticks + q - WindowTicks > 0
  BY Parameters, <1>1, <1>3, <1>4
<1>6. q \in Int /\ ticks >= WindowTicks + 1 - q
  BY Parameters, <1>1, <1>5
<1> QED
  BY <1>6 DEF q

(* A sleep moves the clock with the ticks it serves, but for what the grid *)
(* loses and for how late the wake-ups are.                                *)
LEMMA SleptClock ==
  ASSUME CountInv, NEW work \in Nat, NEW wake \in Nat, RT_SleepUntil(late + work, wake)
  PROVE  /\ age' \in Nat /\ late' \in Nat /\ slip' \in Nat /\ nextTurnTicks' \in Nat
         /\ age' = age + Period * nextTurnTicks' + (late' + slip') - (late + slip)
<1> DEFINE now == late + work
           skipped == IF now >= Period THEN (now - Period) \div Period + 1 ELSE 0
           target == IF now >= Period THEN now + Period ELSE Period
<1>1. /\ age \in Nat /\ late \in Nat /\ slip \in Nat /\ now \in Nat /\ now >= late
      /\ Period \in Nat /\ Period > 0
  BY Parameters DEF CountInv
<1>2. /\ nextTurnTicks' = 1 + skipped
      /\ slip' = slip + (target - Period * (1 + skipped))
      /\ late' = wake
      /\ age' = age + (target + wake - late)
  BY Zenon DEF RT_SleepUntil
<1> HIDE DEF now
<1>3. skipped \in Nat /\ target \in Nat /\ target >= late /\ Period * (1 + skipped) \in Nat
      /\ target >= Period * (1 + skipped)
  <2>1. CASE now >= Period
    <3>1. PICK i \in Nat, r \in 0..(Period - 1) :
            i = (now - Period) \div Period /\ now - Period = i * Period + r
      <4>1. now - Period \in Nat
        BY <1>1, <2>1
      <4> QED
        BY <1>1, <4>1, DivMod, DivMonotone
    <3>2. skipped = i + 1 /\ target = now + Period
      BY <2>1, <3>1
    <3>3. Period * (1 + (i + 1)) = i * Period + Period + Period
      BY <1>1, <3>1
    <3>4. i * Period \in Nat
      BY <1>1, <3>1
    <3> QED
      BY <1>1, <3>1, <3>2, <3>3, <3>4
  <2>2. CASE ~(now >= Period)
    <3>1. skipped = 0 /\ target = Period
      BY <2>2
    <3> QED
      BY <1>1, <2>2, <3>1
  <2> QED
    BY <2>1, <2>2
<1> HIDE DEF skipped, target
<1> QED
  BY <1>1, <1>2, <1>3

(* Two rows less than a capacity apart have different slots.               *)
LEMMA SlotsDistinct ==
  ASSUME NEW m \in Nat, NEW n \in Nat, m < n, n - m < QueueCapacity
  PROVE  SlotOf(m) # SlotOf(n) /\ SlotOf(m) \in Slots /\ SlotOf(n) \in Slots
<1>1. SlotOf(m) \in Slots /\ SlotOf(n) \in Slots
  BY Parameters, DivMod DEF SlotOf, Slots
<1>2. SUFFICES ASSUME m % QueueCapacity = n % QueueCapacity
               PROVE  FALSE
  BY <1>1 DEF SlotOf
<1>3. PICK i \in Int : m = i * QueueCapacity + (m % QueueCapacity)
  BY Parameters, DivMod
<1>4. PICK j \in Int : n = j * QueueCapacity + (n % QueueCapacity)
  BY Parameters, DivMod
<1>5. m % QueueCapacity \in Int
  BY Parameters
<1>6. n - m = (j - i) * QueueCapacity
  BY Parameters, <1>2, <1>3, <1>4, <1>5
<1>7. j - i > 0 => (j - i) * QueueCapacity >= QueueCapacity
  BY Parameters
<1>8. j - i <= 0 => (j - i) * QueueCapacity <= 0
  BY Parameters
<1> QED
  BY Parameters, <1>6, <1>7, <1>8

-----------------------------------------------------------------------------
(* The gates                                                               *)

LEMMA SetupGates ==
  ASSUME GateInv, (\E reached \in 0..4 : OpenWindow(reached)) \/ NoAcquisition
  PROVE  GateInv'
<1> USE DEF GateInv, CountInv, WindowInv, EndInv, LoopSteps, EndSteps
<1>1. ASSUME NEW reached \in 0..4, OpenWindow(reached)
      PROVE  GateInv'
  <2>1. /\ UNCHANGED <<acq, age, slip, nextTurnTicks, processStop, windowClosed, gate,
                       published>>
        /\ step = "open"
        /\ windowOpened' <=> reached = 4
        /\ loggerFailure' <=> reached < 3
        /\ step' = IF reached = 4 THEN "turn" ELSE "drain"
        /\ late' \in Lateness \cup {late}
    BY <1>1 DEF OpenWindow
  <2>2. reached = 3 => ownerFailure'
    BY <1>1 DEF OpenWindow
  <2>3. late' \in Nat
    BY GateInv, Parameters, <2>1
  <2>4. step' = "turn" => age' <= Period * (Ticks' - 1) + (late' + slip')
    <3>1. ASSUME step' = "turn"
          PROVE  Ticks' = 1 /\ age' = 0 /\ slip' = 0
      BY GateInv, <2>1, <3>1 DEF Ticks, gate
    <3>2. Period * (1 - 1) = 0
      BY Parameters
    <3> QED
      BY <2>3, <3>1, <3>2
  <2> QED
    BY GateInv, Gates, <2>1, <2>2, <2>3, <2>4 DEF gate
<1>2. CASE NoAcquisition
  BY GateInv, <1>2 DEF NoAcquisition, clock, window, gate, publisher
<1> QED
  BY <1>1, <1>2, (\E reached \in 0..4 : OpenWindow(reached)) \/ NoAcquisition

LEMMA TurnGates ==
  ASSUME GateInv, TurnStarts \/ LeavesLoop \/ StoreHead \/ LastSleep
  PROVE  GateInv'
<1> USE DEF GateInv, CountInv, WindowInv, EndInv, LoopSteps, EndSteps, InTurn, gate, clock
<1>1. CASE TurnStarts
  <2>1. /\ step = "turn" /\ step' = "publish" /\ acq = "active"
        /\ acq' = IF age >= WindowTicks * Period THEN "succeeded" ELSE acq
        /\ UNCHANGED <<age, late, slip, nextTurnTicks, processStop, windowOpened,
                       windowClosed, ownerFailure, loggerFailure, tickIndex, lastGate,
                       gatesSkipped, published>>
    BY <1>1 DEF TurnStarts, failures, publisher
  <2>2. Ticks' = Ticks
    BY <2>1 DEF Ticks
  <2> QED
    BY GateInv, Gates, <2>1, <2>2
<1>2. CASE LeavesLoop
  BY GateInv, Gates, <1>2 DEF LeavesLoop
<1>3. CASE StoreHead
  <2>1. /\ step = "head" /\ step' = "sleep"
        /\ UNCHANGED <<acq, age, late, slip, nextTurnTicks, processStop, windowOpened,
                       windowClosed, ownerFailure, loggerFailure, tickIndex, lastGate,
                       gatesSkipped, published>>
    BY <1>3 DEF StoreHead, loop, failures, publisher
  <2>2. Ticks' = Ticks /\ (GatesReached => GatesReached')
    BY <2>1 DEF Ticks, GatesReached, PeriodsBehind, GateAt
  <2> QED
    BY GateInv, Gates, <2>1, <2>2
<1>4. CASE LastSleep
  <2>1. /\ step = "sleep" /\ step' = "drain" /\ acq = "succeeded"
        /\ age' = 0 /\ nextTurnTicks' = 1
        /\ UNCHANGED <<acq, late, slip, processStop, windowOpened, windowClosed,
                       loggerFailure, tickIndex, lastGate, gatesSkipped, published>>
    BY <1>4 DEF LastSleep
  <2>2. GatesReached => GatesReached'
    BY <2>1 DEF GatesReached, PeriodsBehind, GateAt
  <2> QED
    BY GateInv, Gates, <2>1, <2>2
<1> QED
  BY <1>1, <1>2, <1>3, <1>4, TurnStarts \/ LeavesLoop \/ StoreHead \/ LastSleep

LEMMA SleepGates ==
  ASSUME GateInv, Sleep
  PROVE  GateInv'
<1>1. /\ step = "sleep" /\ step' = "turn" /\ acq = "active"
      /\ UNCHANGED <<acq, processStop, windowOpened, windowClosed, failures, gate, published>>
  BY Sleep DEF Sleep, InTurn
<1>2. PICK work \in Work, wake \in Lateness : RT_SleepUntil(late + work, wake)
  BY Sleep DEF Sleep
<1>3. /\ age' \in Nat /\ late' \in Nat /\ slip' \in Nat /\ nextTurnTicks' \in Nat
      /\ age' = age + Period * nextTurnTicks' + (late' + slip') - (late + slip)
  BY GateInv, <1>2, Parameters, SleptClock DEF GateInv
<1>4. ~windowClosed => age' <= Period * (Ticks' - 1) + (late' + slip')
  <2>1. ASSUME ~windowClosed
        PROVE  age <= Period * (tickIndex - 1) + (late + slip)
    <3>1. Ticks = tickIndex
      BY GateInv, <1>1 DEF GateInv, CountInv, Ticks
    <3>2. age <= Period * (Ticks - 1) + (late + slip)
      BY GateInv, <1>1, <2>1 DEF GateInv, WindowInv, LoopSteps
    <3> QED
      BY <3>1, <3>2
  <2>2. /\ age \in Nat /\ late \in Nat /\ slip \in Nat /\ tickIndex \in Nat
        /\ Period \in Nat
    BY GateInv, Parameters DEF GateInv, CountInv
  <2>3. Ticks' = tickIndex + nextTurnTicks'
    BY <1>1 DEF Ticks, gate
  <2>4. Period * (tickIndex - 1) + Period * nextTurnTicks' = Period * (Ticks' - 1)
    BY <1>3, <2>2, <2>3
  <2>5. Period * (tickIndex - 1) \in Int /\ Period * nextTurnTicks' \in Int
    BY <1>3, <2>2
  <2> QED
    BY <1>3, <2>1, <2>2, <2>4, <2>5
<1> QED
  BY GateInv, Gates, <1>1, <1>3, <1>4
  DEF GateInv, CountInv, WindowInv, EndInv, LoopSteps, EndSteps, gate, failures

(* The last gate is at no gate's expense.                                  *)
LEMMA AllGatesReached ==
  ASSUME CountInv, lastGate = maxGate, windowClosed
  PROVE  GatesReached
<1>1. WindowTicks + 1 - PeriodsBehind \in Int
  BY Parameters, DivMod DEF PeriodsBehind, CountInv
<1> QED
  BY <1>1, Gates, GateOrder DEF GatesReached

LEMMA ClosingGates ==
  ASSUME GateInv, WriteFailed \/ NothingToPublish
  PROVE  GateInv'
<1> USE DEF GateInv, CountInv, WindowInv, EndInv, LoopSteps, EndSteps, InTurn, gate, loop,
            clock, publisher
<1>1. CASE WriteFailed
  BY GateInv, Gates, <1>1 DEF WriteFailed
<1>2. CASE NothingToPublish
  <2>1. /\ step = "publish" /\ step' = "sleep" /\ windowClosed /\ windowClosed'
        /\ UNCHANGED <<acq, age, late, slip, nextTurnTicks, processStop, windowOpened,
                       ownerFailure, loggerFailure, tickIndex, lastGate, gatesSkipped,
                       published>>
    BY GateInv, <1>2 DEF NothingToPublish, failures, app_publication_turn_eligible
  <2>2. lastGate = maxGate /\ GatesReached
    BY GateInv, <2>1, AllGatesReached
  <2>3. GatesReached'
    BY <2>1, <2>2 DEF GatesReached, PeriodsBehind, GateAt
  <2> QED
    BY GateInv, Gates, <2>1, <2>2, <2>3
<1> QED
  BY <1>1, <1>2, WriteFailed \/ NothingToPublish

(* The turn that ends the stage serves all the ticks but those the grid is *)
(* behind by.                                                              *)
LEMMA ServedTicks ==
  ASSUME GateInv, Publishes, tickIndex' = tickIndex + nextTurnTicks
  PROVE  /\ tickIndex' \in Nat /\ GateAt(tickIndex') \in 0..maxGate
         /\ lastGate < maxGate /\ windowOpened /\ ~loggerFailure
         /\ acq \in {"active", "succeeded"}
         /\ PeriodsBehind \in Int
         /\ acq = "succeeded" =>
              /\ GateAt(WindowTicks + 1 - PeriodsBehind) \in Int
              /\ GateAt(tickIndex') >= GateAt(WindowTicks + 1 - PeriodsBehind)
<1>1. /\ tickIndex' \in Nat /\ lastGate < maxGate /\ windowOpened /\ ~loggerFailure
      /\ acq \in {"active", "succeeded"}
      /\ age \in Nat /\ late + slip \in Nat
      /\ age <= Period * (tickIndex' - 1) + (late + slip)
      /\ acq = "succeeded" => age >= WindowTicks * Period
  BY GateInv, Publishes, tickIndex' = tickIndex + nextTurnTicks
  DEF GateInv, CountInv, WindowInv, EndInv, LoopSteps, Publishes, InTurn, Ticks
<1>2. PeriodsBehind \in Int
  BY <1>1, Parameters, DivMod DEF PeriodsBehind
<1>3. acq = "succeeded" => tickIndex' >= WindowTicks + 1 - PeriodsBehind
  BY <1>1, TicksHad DEF PeriodsBehind
<1>4. WindowTicks + 1 - PeriodsBehind \in Int
  BY <1>2, Parameters
<1> QED
  BY <1>1, <1>2, <1>3, <1>4, Gates, GateOrder

LEMMA PublishGates ==
  ASSUME GateInv, GateIdle \/ GateDue
  PROVE  GateInv'
<1>1. /\ Publishes /\ step = "publish"
      /\ tickIndex' = tickIndex + nextTurnTicks
      /\ UNCHANGED <<acq, age, late, slip, nextTurnTicks, processStop, ownerFailure,
                     loggerFailure, windowOpened>>
  BY GateIdle \/ GateDue DEF GateIdle, GateDue, Publishes, InTurn, loop, clock, failures
<1>2. /\ tickIndex' \in Nat /\ GateAt(tickIndex') \in 0..maxGate
      /\ lastGate < maxGate /\ windowOpened /\ ~loggerFailure
      /\ acq \in {"active", "succeeded"}
      /\ PeriodsBehind \in Int
      /\ acq = "succeeded" =>
           /\ GateAt(WindowTicks + 1 - PeriodsBehind) \in Int
           /\ GateAt(tickIndex') >= GateAt(WindowTicks + 1 - PeriodsBehind)
  BY <1>1, GateInv, ServedTicks
<1>3. ~windowClosed
  BY <1>1 DEF Publishes
<1>4. PeriodsBehind' = PeriodsBehind
  BY <1>1 DEF PeriodsBehind
<1>5. lastGate' \in Int /\ lastGate' >= GateAt(tickIndex')
        /\ (lastGate' = maxGate => windowClosed') /\ acq = "succeeded" => GatesReached'
  <2>1. GateAt(WindowTicks + 1 - PeriodsBehind') = GateAt(WindowTicks + 1 - PeriodsBehind)
    BY <1>4
  <2>2. GatesReached' <=> /\ lastGate' >= GateAt(WindowTicks + 1 - PeriodsBehind')
                          /\ lastGate' = maxGate => windowClosed'
    BY DEF GatesReached, GateAt
  <2> QED
    BY <1>2, <2>1, <2>2
<1>6. step' \in {"head", "sleep"} => Ticks' = Ticks
  BY <1>1 DEF Ticks
<1> USE DEF GateInv, CountInv, WindowInv, EndInv, LoopSteps, EndSteps
<1>7. CASE GateIdle
  <2>1. /\ UNCHANGED <<lastGate, gatesSkipped, windowClosed, published>>
        /\ step' = "sleep" /\ GateAt(tickIndex') <= lastGate
    BY <1>7 DEF GateIdle, publisher
  <2>2. lastGate' \in Int /\ lastGate' # maxGate
    BY GateInv, Gates, <1>2, <2>1
  <2>3. acq = "succeeded" => GatesReached'
    BY GateInv, <1>2, <1>5, <2>1, <2>2
  <2> QED
    BY GateInv, Gates, <1>1, <1>2, <1>3, <1>6, <2>1, <2>3
<1>8. CASE GateDue
  <2>1. /\ step' \in {"head", "sleep"}
        /\ GateAt(tickIndex') > lastGate /\ lastGate' = GateAt(tickIndex')
        /\ gatesSkipped' = gatesSkipped + (lastGate' - lastGate - 1)
        /\ published' = published + 1
        /\ windowClosed' <=> lastGate' >= maxGate \/ acq # "active"
    BY <1>8 DEF GateDue, SkippedBefore, imu_publish_evaluate_snapshot
  <2>2. /\ lastGate' \in 0..maxGate /\ published' \in Nat /\ gatesSkipped' \in Nat
        /\ published' + gatesSkipped' = lastGate'
    BY GateInv, Gates, <1>2, <2>1
  <2>3. acq = "succeeded" => GatesReached'
    BY Gates, <1>2, <1>5, <2>1, <2>2
  <2>4. CountInv'
    BY GateInv, <1>1, <1>2, <2>1, <2>2
  <2>5. WindowInv'
    BY GateInv, Gates, <1>1, <1>2, <1>3, <1>6, <2>1, <2>2
  <2>6. EndInv'
    BY GateInv, Gates, <1>1, <1>2, <1>3, <2>1, <2>2, <2>3
  <2> QED
    BY <2>4, <2>5, <2>6
<1> QED
  BY <1>7, <1>8, GateIdle \/ GateDue

LEMMA OtherGates ==
  ASSUME GateInv, SensorEvent \/ ChipReset \/ LoggerWorker \/ Finalize \/ UNCHANGED vars
  PROVE  GateInv'
<1>0. UNCHANGED <<loop, window, gate, published, ownerFailure>>
  BY SensorEvent \/ ChipReset \/ LoggerWorker \/ Finalize \/ UNCHANGED vars
  DEF SensorEvent, ChipReset, InTurn, LoggerWorker, ReadStop, ReadHead, QueueEmpty, ProcessRow,
      SyncFile, WorkerStep, Finalize, DrainBegins, DrainEnds, imu_logfile_close_csv, NoCsv,
      imu_logfile_commit_json, Finalizes, vars, publisher, failures, window
<1> USE DEF loop, clock, window, gate
<1>a. (Ticks' = Ticks \/ step' # step) /\ (GatesReached' <=> GatesReached)
  BY <1>0 DEF Ticks, GatesReached, PeriodsBehind, GateAt
<1>1. ASSUME UNCHANGED <<step, loggerFailure>>
      PROVE  GateInv'
  BY GateInv, <1>0, <1>a, <1>1 DEF GateInv, CountInv, WindowInv, EndInv
<1>2. ASSUME step \in EndSteps, step' \in EndSteps, loggerFailure => loggerFailure'
      PROVE  GateInv'
  BY GateInv, <1>0, <1>a, <1>2 DEF GateInv, CountInv, WindowInv, EndInv, LoopSteps, EndSteps
<1>3. CASE SensorEvent \/ ChipReset \/ LoggerWorker \/ UNCHANGED vars
  BY <1>1, <1>3
  DEF SensorEvent, ChipReset, InTurn, LoggerWorker, ReadStop, ReadHead, QueueEmpty, ProcessRow,
      SyncFile, WorkerStep, vars, failures
<1>4. CASE Finalize
  <2>1. step \in EndSteps /\ step' \in EndSteps
    BY <1>4 DEF Finalize, DrainBegins, DrainEnds, imu_logfile_close_csv, NoCsv,
                imu_logfile_commit_json, Finalizes, EndSteps
  <2>2. loggerFailure => loggerFailure'
    BY <1>4 DEF Finalize, DrainBegins, DrainEnds, imu_logfile_close_csv, NoCsv,
                imu_logfile_commit_json
  <2> QED
    BY <1>2, <2>1, <2>2
<1> QED
  BY <1>3, <1>4, SensorEvent \/ ChipReset \/ LoggerWorker \/ Finalize \/ UNCHANGED vars

LEMMA GateKept ==
  ASSUME GateInv, [Next]_vars
  PROVE  GateInv'
<1>1. CASE Turn
  BY GateInv, <1>1, TurnGates, SleepGates, ClosingGates, PublishGates DEF Turn
<1>2. CASE Over
  BY GateInv, <1>2, OtherGates DEF Over
<1> QED
  BY GateInv, [Next]_vars, <1>1, <1>2, SetupGates, OtherGates DEF Next

-----------------------------------------------------------------------------
(* The rows                                                                *)

(* What save_previous keeps of the group.                                  *)
LEMMA SavedGroup ==
  ASSUME RowInv, save_previous
  PROVE  /\ previous' \in [epoch : Nat, seq : Nat, valid : BOOLEAN]
         /\ previous'.epoch = sample.epoch
         /\ previous'.valid = sample.valid
         /\ sample.valid => previous'.seq = sample.seq
<1>1. sample \in [epoch : Nat, seq : Nat, valid : BOOLEAN]
  BY RowInv DEF RowInv
<1>2. CASE sample.valid
  BY <1>1, <1>2, save_previous DEF save_previous
<1>3. CASE ~sample.valid
  BY <1>1, <1>3, save_previous DEF save_previous
<1> QED
  BY <1>2, <1>3

(* A publication says of its group what came since the row before it.      *)
LEMMA RowOfPublication ==
  ASSUME RowInv, GateDue
  PROVE  /\ row' \in {"missing", "fresh", "multi", "stale"}
         /\ row' = "fresh" => arrived >= 1
         /\ row' = "multi" => arrived >= 2
         /\ row' = "stale" => arrived = 0
<1>1. imu_publish_evaluate_snapshot /\ step = "publish"
  BY GateDue DEF GateDue, Publishes, InTurn
<1>2. /\ sample \in [epoch : Nat, seq : Nat, valid : BOOLEAN]
      /\ previous \in [epoch : Nat, seq : Nat, valid : BOOLEAN]
      /\ arrived \in Nat
      /\ comparisonEpoch = previous.epoch
      /\ sample.epoch = previous.epoch =>
           IF previous.valid THEN sample.valid /\ sample.seq = previous.seq + arrived
                             ELSE sample.valid => arrived >= 1
  BY RowInv, <1>1 DEF RowInv, LoopSteps
<1>3. CASE sample.epoch # comparisonEpoch \/ ~sample.valid
  BY <1>1, <1>3 DEF imu_publish_evaluate_snapshot
<1>4. CASE ~(sample.epoch # comparisonEpoch \/ ~sample.valid)
  BY <1>1, <1>2, <1>4 DEF imu_publish_evaluate_snapshot, Comparable
<1> QED
  BY <1>3, <1>4

LEMMA PublishedRows ==
  ASSUME RowInv, GateDue
  PROVE  RowInv'
<1>1. /\ UNCHANGED <<sample, readerState>>
      /\ save_previous /\ comparisonEpoch' = sample.epoch /\ arrived' = 0
  BY GateDue DEF GateDue, imu_publish_evaluate_snapshot, source
<1>2. /\ previous' \in [epoch : Nat, seq : Nat, valid : BOOLEAN]
      /\ previous'.epoch = sample.epoch
      /\ previous'.valid = sample.valid
      /\ sample.valid => previous'.seq = sample.seq
  BY RowInv, <1>1, SavedGroup
<1>3. row' \in {"missing", "fresh", "multi", "stale"}
  BY RowInv, GateDue, RowOfPublication
<1> QED
  BY RowInv, <1>1, <1>2, <1>3 DEF RowInv

LEMMA OpenedRows ==
  ASSUME RowInv, step = "open", NEW reached \in 0..4, OpenWindow(reached)
  PROVE  RowInv'
<1>1. UNCHANGED <<row, readerState, sample>>
  BY OpenWindow(reached) DEF OpenWindow, source
<1>2. CASE reached = 4
  <2>1. save_previous /\ comparisonEpoch' = sample.epoch /\ arrived' = 0
    BY <1>2, OpenWindow(reached) DEF OpenWindow, imu_publish_begin_window
  <2>2. /\ previous' \in [epoch : Nat, seq : Nat, valid : BOOLEAN]
        /\ previous'.epoch = sample.epoch
        /\ previous'.valid = sample.valid
        /\ sample.valid => previous'.seq = sample.seq
    BY RowInv, <2>1, SavedGroup
  <2> QED
    BY RowInv, <1>1, <2>1, <2>2 DEF RowInv
<1>3. CASE reached # 4
  BY RowInv, <1>1, <1>3, OpenWindow(reached) DEF RowInv, OpenWindow, LoopSteps
<1> QED
  BY <1>2, <1>3

LEMMA SensorRows ==
  ASSUME RowInv, SensorEvent \/ ChipReset
  PROVE  RowInv'
<1>0. /\ sample \in [epoch : Nat, seq : Nat, valid : BOOLEAN]
      /\ previous \in [epoch : Nat, seq : Nat, valid : BOOLEAN]
      /\ arrived \in Nat
  BY RowInv DEF RowInv
<1>1. CASE SensorEvent
  <2>1. /\ UNCHANGED <<step, row, readerState, previous, comparisonEpoch>>
        /\ step = "turn" /\ arrived' = arrived + 1
        /\ sample' = [sample EXCEPT !.seq = sample.seq + 1, !.valid = TRUE]
    BY <1>1 DEF SensorEvent, InTurn
  <2>0. sample' = [epoch |-> sample.epoch, seq |-> sample.seq + 1, valid |-> TRUE]
    BY <1>0, <2>1
  <2>2. /\ sample' \in [epoch : Nat, seq : Nat, valid : BOOLEAN]
        /\ sample'.epoch = sample.epoch /\ sample'.seq = sample.seq + 1 /\ sample'.valid
    BY <1>0, <2>0
  <2> QED
    BY RowInv, <1>0, <2>1, <2>2 DEF RowInv
<1>2. CASE ChipReset
  <2>1. /\ UNCHANGED <<step, row, previous, comparisonEpoch, arrived>>
        /\ step = "turn" /\ readerState' = "RECOVERING"
        /\ sample' = [sample EXCEPT !.epoch = sample.epoch + 1, !.valid = FALSE]
    BY <1>2 DEF ChipReset, InTurn, publisher
  <2>0. sample' = [epoch |-> sample.epoch + 1, seq |-> sample.seq, valid |-> FALSE]
    BY <1>0, <2>1
  <2>2. /\ sample' \in [epoch : Nat, seq : Nat, valid : BOOLEAN]
        /\ sample'.epoch = sample.epoch + 1 /\ ~sample'.valid
    BY <1>0, <2>0
  <2> QED
    BY RowInv, <1>0, <2>1, <2>2 DEF RowInv, LoopSteps
<1> QED
  BY <1>1, <1>2, SensorEvent \/ ChipReset

LEMMA SteadyRows ==
  ASSUME RowInv, LeavesLoop \/ Sleep \/ LastSleep \/ LoggerWorker \/ Finalize \/ UNCHANGED vars
  PROVE  RowInv'
<1> USE DEF RowInv, InTurn, source, publisher, LoopSteps
<1>1. CASE LeavesLoop
  BY RowInv, <1>1 DEF LeavesLoop
<1>2. CASE Sleep \/ LastSleep
  BY RowInv, <1>2 DEF Sleep, LastSleep
<1>3. CASE LoggerWorker \/ UNCHANGED vars
  <2>1. UNCHANGED <<step, publisher, source>>
    BY <1>3 DEF LoggerWorker, ReadStop, ReadHead, QueueEmpty, ProcessRow, SyncFile, WorkerStep,
                vars
  <2> QED
    BY RowInv, <2>1
<1>4. CASE Finalize
  <2>1. UNCHANGED <<publisher, source>> /\ step' \notin LoopSteps
    BY <1>4 DEF Finalize, DrainBegins, DrainEnds, imu_logfile_close_csv, NoCsv,
                imu_logfile_commit_json, Finalizes
  <2> QED
    BY RowInv, <2>1
<1> QED
  BY <1>1, <1>2, <1>3, <1>4,
     LeavesLoop \/ Sleep \/ LastSleep \/ LoggerWorker \/ Finalize \/ UNCHANGED vars

LEMMA OtherTurnRows ==
  ASSUME RowInv, NoAcquisition \/ TurnStarts \/ WriteFailed \/ NothingToPublish \/ GateIdle
                   \/ StoreHead
  PROVE  RowInv'
<1>1. /\ UNCHANGED <<publisher, source>>
      /\ step \in LoopSteps \/ step' = "drain"
  BY NoAcquisition \/ TurnStarts \/ WriteFailed \/ NothingToPublish \/ GateIdle \/ StoreHead
  DEF NoAcquisition, TurnStarts, WriteFailed, NothingToPublish, GateIdle, StoreHead, Publishes,
      InTurn, LoopSteps
<1> QED
  BY RowInv, <1>1 DEF RowInv, source, publisher, LoopSteps

LEMMA RowsKept ==
  ASSUME RowInv, [Next]_vars
  PROVE  RowInv'
<1>1. CASE \E reached \in 0..4 : OpenWindow(reached)
  <2>1. PICK reached \in 0..4 : OpenWindow(reached)
    BY <1>1
  <2>2. step = "open"
    BY <2>1 DEF OpenWindow
  <2> QED
    BY RowInv, <2>1, <2>2, OpenedRows
<1>2. CASE Turn
  BY RowInv, <1>2, PublishedRows, SteadyRows, OtherTurnRows DEF Turn
<1>3. CASE Over
  BY RowInv, <1>3, SteadyRows DEF Over
<1> QED
  BY RowInv, [Next]_vars, <1>1, <1>2, <1>3, SensorRows, SteadyRows, OtherTurnRows DEF Next

(* Only a due gate counts a publication.                                   *)
LEMMA PublicationIsGateDue ==
  ASSUME published \in Nat, published' = published + 1, [Next]_vars
  PROVE  GateDue
<1>1. published' # published
  BY published \in Nat, published' = published + 1
<1>2. ~(\E reached \in 0..4 : OpenWindow(reached)) /\ ~NoAcquisition
  BY <1>1 DEF OpenWindow, NoAcquisition, publisher
<1>3. ~SensorEvent /\ ~ChipReset
  BY <1>1 DEF SensorEvent, ChipReset, publisher
<1>4. ~LoggerWorker /\ ~Over /\ ~UNCHANGED vars
  BY <1>1 DEF LoggerWorker, ReadStop, ReadHead, QueueEmpty, ProcessRow, SyncFile, WorkerStep,
              vars, publisher, Over
<1>5. ~Finalize
  BY <1>1 DEF Finalize, DrainBegins, DrainEnds, imu_logfile_close_csv, NoCsv,
              imu_logfile_commit_json, Finalizes, publisher
<1>6. Turn
  BY [Next]_vars, <1>2, <1>3, <1>4, <1>5 DEF Next
<1> QED
  BY <1>1, <1>6 DEF Turn, LeavesLoop, TurnStarts, WriteFailed, NothingToPublish, GateIdle,
                    StoreHead, Sleep, LastSleep, publisher

-----------------------------------------------------------------------------
(* The queue: the steps that leave it alone                                *)

queueState == <<queue, worker, drain, disk, published>>

LEMMA SteadyQueue ==
  ASSUME QueueInv, UNCHANGED queueState, step # "head", step' # "head",
         step' = step \/ step \notin EndSteps
  PROVE  QueueInv'
<1> USE UNCHANGED queueState, QueueInv
    DEF QueueInv, queueState, queue, worker, drain, disk, EndSteps
<1>1. RingInv'
  BY step # "head", step' # "head" DEF RingInv, SlotOf
<1>2. FileInv'
  BY DEF FileInv, RowAt
<1>3. LoggerInv'
  BY step' = step \/ step \notin EndSteps DEF LoggerInv
<1>4. DiskInv'
  BY step' = step \/ step \notin EndSteps DEF DiskInv
<1> QED
  BY <1>1, <1>2, <1>3, <1>4

LEMMA OwnerQueue ==
  ASSUME QueueInv,
         \/ NoAcquisition \/ LeavesLoop \/ TurnStarts \/ WriteFailed
         \/ NothingToPublish \/ GateIdle \/ Sleep \/ LastSleep \/ SensorEvent \/ ChipReset
  PROVE  QueueInv'
<1>1. /\ UNCHANGED queueState
      /\ step # "head" /\ step' # "head"
      /\ step' = step \/ step \notin EndSteps
  BY \/ NoAcquisition \/ LeavesLoop \/ TurnStarts \/ WriteFailed
     \/ NothingToPublish \/ GateIdle \/ Sleep \/ LastSleep \/ SensorEvent \/ ChipReset
  DEF NoAcquisition, LeavesLoop, TurnStarts, WriteFailed, NothingToPublish, GateIdle, Publishes,
      Sleep, LastSleep, SensorEvent, ChipReset, InTurn, queueState, publisher, vars, EndSteps
<1> QED
  BY <1>1, QueueInv, SteadyQueue

LEMMA StutterQueue ==
  ASSUME QueueInv, UNCHANGED vars
  PROVE  QueueInv'
<1>1. UNCHANGED <<ring, head, tail, dropped, published, step, batch, file, written, writeFailed,
                  logger, stopRequested, drained, csv, json>>
  BY UNCHANGED vars DEF vars, queue, worker, drain, disk, publisher
<1> QED
  BY <1>1, QueueInv
  DEF QueueInv, RingInv, FileInv, LoggerInv, DiskInv, SlotOf, RowAt

LEMMA SetupQueue ==
  ASSUME QueueInv, NEW reached \in 0..4, OpenWindow(reached)
  PROVE  QueueInv'
<1>1. /\ step = "open" /\ step' \in {"turn", "drain"}
      /\ UNCHANGED <<queue, drain, tail, written, writeFailed, batch, file, published>>
      /\ csv' \in {"none", "tmp"} /\ json' \in {"none", "running"}
      /\ logger' = [pc |-> "loop"] \/ UNCHANGED logger
  BY OpenWindow(reached) DEF OpenWindow
<1> USE QueueInv, <1>1 DEF QueueInv, queue, drain, EndSteps
<1>2. RingInv'
  BY DEF RingInv, SlotOf
<1>3. FileInv'
  BY DEF FileInv, RowAt
<1>4. LoggerInv'
  BY DEF LoggerInv
<1>5. DiskInv'
  BY DEF DiskInv
<1> QED
  BY <1>2, <1>3, <1>4, <1>5

-----------------------------------------------------------------------------
(* The queue: the owner's side                                             *)

LEMMA QueuedRow ==
  ASSUME GateInv, GateInv', QueueInv, GateDue
  PROVE  QueueInv'
<1>1. /\ step = "publish" /\ step' \in {"head", "sleep"}
      /\ published' = published + 1
      /\ UNCHANGED <<head, worker, drain, disk>>
  BY GateDue DEF GateDue, Publishes, InTurn, imu_publish_evaluate_snapshot
<1>2. /\ ring \in [Slots -> Rows]
      /\ head \in Nat /\ tail \in Nat /\ dropped \in Nat
      /\ tail <= head /\ head - tail <= QueueCapacity
      /\ published = head + dropped
      /\ \A n \in tail..(head - 1) : ring[SlotOf(n)].seq = n + 1 + ring[SlotOf(n)].drops
  BY QueueInv, <1>1 DEF QueueInv, RingInv
<1>3. published' \in 0..maxGate /\ dropped \in 0..maxGate
  <2>1. published' \in Nat /\ gatesSkipped' \in Nat /\ lastGate' \in 0..maxGate
    BY GateInv' DEF GateInv, CountInv
  <2>2. lastGate' = published' + gatesSkipped'
    BY GateInv' DEF GateInv, CountInv
  <2>3. maxGate \in Nat
    BY Gates
  <2>4. lastGate' \in Nat /\ lastGate' <= maxGate
    BY <2>1, <2>3
  <2>5. published' <= lastGate'
    <3>1. \A a, b \in Nat : a <= a + b
      OBVIOUS
    <3> QED
      BY <2>1, <2>2, <3>1, Zenon
  <2>6. published' \in 0..maxGate
    BY <2>1, <2>3, <2>4, <2>5
  <2> QED
    BY <1>1, <1>2, <2>3, <2>6
<1>4. RingInv'
  <2>1. CASE /\ head - tail < QueueCapacity
             /\ ring' = [ring EXCEPT ![head % QueueCapacity] =
                           [seq |-> published', drops |-> dropped]]
             /\ step' = "head"
             /\ UNCHANGED dropped
    <3> DEFINE new == [seq |-> published', drops |-> dropped]
    <3>1. new \in Rows
      BY <1>3 DEF Rows
    <3>2. SlotOf(head) \in Slots
      BY <1>2, Parameters, DivMod DEF SlotOf, Slots
    <3>3. ring' = [ring EXCEPT ![SlotOf(head)] = new]
      BY <2>1 DEF SlotOf
    <3>4. ring' \in [Slots -> Rows] /\ ring'[SlotOf(head)] = new
      BY <1>2, <3>1, <3>2, <3>3
    <3>5. ASSUME NEW n \in tail..(head - 1)
          PROVE  ring'[SlotOf(n)] = ring[SlotOf(n)]
      <4>1. head - tail < QueueCapacity
        BY <2>1
      <4>2. n \in Nat /\ n < head /\ head - n < QueueCapacity
        BY <1>2, <4>1, Parameters
      <4>3. SlotOf(n) # SlotOf(head) /\ SlotOf(n) \in Slots
        BY <1>2, <4>2, SlotsDistinct
      <4> QED
        BY <1>2, <3>3, <4>3
    <3>6. \A n \in tail..(head - 1) : ring'[SlotOf(n)].seq = n + 1 + ring'[SlotOf(n)].drops
      BY <1>2, <3>5
    <3>7. ring'[SlotOf(head)].seq = head + 1 + ring'[SlotOf(head)].drops
      BY <1>1, <1>2, <3>4
    <3>8. UNCHANGED <<head, tail, dropped>>
      BY <1>1, <2>1 DEF worker
    <3> HIDE DEF new
    <3> QED
      BY <1>1, <1>2, <2>1, <3>4, <3>6, <3>7, <3>8 DEF RingInv, SlotOf
  <2>2. CASE /\ dropped' = dropped + 1
             /\ step' = "sleep"
             /\ UNCHANGED ring
    BY <1>1, <1>2, <2>2 DEF RingInv, worker, SlotOf
  <2> QED
    BY <2>1, <2>2, GateDue DEF GateDue
<1>5. FileInv'
  BY <1>1, QueueInv DEF QueueInv, FileInv, worker, RowAt
<1>6. LoggerInv'
  BY <1>1, QueueInv DEF QueueInv, LoggerInv, worker, drain, EndSteps
<1>7. DiskInv'
  BY <1>1, QueueInv DEF QueueInv, DiskInv, worker, drain, disk, EndSteps
<1> QED
  BY <1>4, <1>5, <1>6, <1>7 DEF QueueInv

LEMMA StoredHead ==
  ASSUME QueueInv, StoreHead
  PROVE  QueueInv'
<1>1. /\ step = "head" /\ step' = "sleep" /\ head' = head + 1
      /\ UNCHANGED <<ring, dropped, worker, drain, disk, published>>
  BY StoreHead DEF StoreHead, InTurn, publisher
<1>2. RingInv'
  <2>1. /\ ring \in [Slots -> Rows]
        /\ head \in Nat /\ tail \in Nat /\ dropped \in Nat
        /\ tail <= head /\ head - tail < QueueCapacity
        /\ published = head + dropped + 1
        /\ \A n \in tail..(head - 1) : ring[SlotOf(n)].seq = n + 1 + ring[SlotOf(n)].drops
        /\ ring[SlotOf(head)].seq = head + 1 + ring[SlotOf(head)].drops
    BY QueueInv, <1>1 DEF QueueInv, RingInv
  <2>2. \A n \in tail..(head' - 1) : ring[SlotOf(n)].seq = n + 1 + ring[SlotOf(n)].drops
    BY <1>1, <2>1
  <2>3. UNCHANGED tail
    BY <1>1 DEF worker
  <2>4. head' \in Nat /\ tail <= head' /\ head' - tail <= QueueCapacity
    BY <1>1, <2>1, Parameters
  <2> QED
    BY <1>1, <2>1, <2>2, <2>3, <2>4 DEF RingInv, SlotOf
<1>3. FileInv'
  BY <1>1, QueueInv DEF QueueInv, FileInv, worker, RowAt
<1>4. LoggerInv'
  BY <1>1, QueueInv DEF QueueInv, LoggerInv, RingInv, worker, drain, EndSteps
<1>5. DiskInv'
  BY <1>1, QueueInv DEF QueueInv, DiskInv, worker, drain, disk, EndSteps
<1> QED
  BY <1>2, <1>3, <1>4, <1>5 DEF QueueInv

LEMMA FinalizedQueue ==
  ASSUME QueueInv, Finalize
  PROVE  QueueInv'
<1>1. /\ UNCHANGED <<queue, worker, published>>
      /\ step \in EndSteps \ {"over"} /\ step' \in EndSteps \ {"drain"}
  BY Finalize
  DEF Finalize, DrainBegins, DrainEnds, imu_logfile_close_csv, NoCsv, imu_logfile_commit_json,
      Finalizes, publisher, EndSteps
<1>2. RingInv'
  BY <1>1, QueueInv DEF QueueInv, RingInv, SlotOf, queue, worker, EndSteps
<1>3. FileInv'
  BY <1>1, QueueInv DEF QueueInv, FileInv, worker, RowAt
<1>4. LoggerInv'
  <2>1. stopRequested => stopRequested'
    BY Finalize, QueueInv
    DEF Finalize, DrainBegins, DrainEnds, imu_logfile_close_csv, NoCsv,
        imu_logfile_commit_json, Finalizes, QueueInv, LoggerInv, drain
  <2> QED
    BY <1>1, <2>1, QueueInv DEF QueueInv, LoggerInv, queue, worker
<1>5. DiskInv'
  <2> USE QueueInv, <1>1 DEF QueueInv, DiskInv, worker, drain, disk, Finalizes, EndSteps
  <2>1. CASE DrainBegins
    BY <2>1 DEF DrainBegins
  <2>2. CASE DrainEnds
    BY <2>2 DEF DrainEnds
  <2>3. CASE imu_logfile_close_csv
    BY <2>3 DEF imu_logfile_close_csv, app_csv_finalizes_complete
  <2>4. CASE NoCsv
    BY <2>4 DEF NoCsv
  <2>5. CASE imu_logfile_commit_json
    BY <2>5 DEF imu_logfile_commit_json, Completion
  <2> QED
    BY <2>1, <2>2, <2>3, <2>4, <2>5, Finalize DEF Finalize
<1> QED
  BY <1>2, <1>3, <1>4, <1>5 DEF QueueInv

-----------------------------------------------------------------------------
(* The queue: the logger's worker                                          *)

(* The flushed batch follows the file in order.                            *)
LEMMA FlushedRows ==
  ASSUME NEW f \in Seq(Rows), NEW b \in Seq(Rows),
         \A k \in 1..Len(f) : RowAt(f[k], k),
         \A k \in 1..Len(b) : RowAt(b[k], Len(f) + k)
  PROVE  /\ f \o b \in Seq(Rows)
         /\ Len(f \o b) = Len(f) + Len(b)
         /\ \A k \in 1..Len(f \o b) : RowAt((f \o b)[k], k)
<1>1. f \o b \in Seq(Rows) /\ Len(f \o b) = Len(f) + Len(b)
  BY ConcatProperties
<1>2. Len(f) \in Nat /\ Len(b) \in Nat
  BY LenProperties
<1>3. ASSUME NEW k \in 1..Len(f \o b)
      PROVE  RowAt((f \o b)[k], k)
  <2>1. CASE k <= Len(f)
    <3>1. k \in 1..Len(f) /\ (f \o b)[k] = f[k]
      BY <1>1, <1>2, <1>3, <2>1, ConcatProperties
    <3> QED
      BY <3>1
  <2>2. CASE k > Len(f)
    <3>1. k - Len(f) \in 1..Len(b) /\ (f \o b)[k] = b[k - Len(f)]
      BY <1>1, <1>2, <1>3, <2>2, ConcatProperties
    <3>2. RowAt(b[k - Len(f)], Len(f) + (k - Len(f)))
      BY <3>1
    <3>3. Len(f) + (k - Len(f)) = k
      BY <1>1, <1>2, <1>3
    <3> QED
      BY <3>1, <3>2, <3>3
  <2> QED
    BY <1>1, <1>2, <2>1, <2>2
<1> QED
  BY <1>1, <1>3

(* A row that follows the file and the batch.                              *)
LEMMA AppendedRow ==
  ASSUME NEW b \in Seq(Rows), NEW n \in Nat, NEW r \in Rows,
         \A k \in 1..Len(b) : RowAt(b[k], n + k),
         RowAt(r, n + Len(b) + 1)
  PROVE  /\ Append(b, r) \in Seq(Rows)
         /\ Len(Append(b, r)) = Len(b) + 1
         /\ \A k \in 1..Len(Append(b, r)) : RowAt(Append(b, r)[k], n + k)
<1>1. Append(b, r) \in Seq(Rows) /\ Len(Append(b, r)) = Len(b) + 1 /\ Len(b) \in Nat
  BY AppendProperties, LenProperties
<1>2. ASSUME NEW k \in 1..Len(Append(b, r))
      PROVE  RowAt(Append(b, r)[k], n + k)
  <2>1. CASE k = Len(b) + 1
    <3>1. Append(b, r)[k] = r
      BY <2>1, AppendProperties
    <3>2. n + k = n + Len(b) + 1
      BY <1>1, <2>1
    <3> QED
      BY <3>1, <3>2
  <2>2. CASE k # Len(b) + 1
    <3>1. k \in 1..Len(b)
      BY <1>1, <1>2, <2>2
    <3>2. Append(b, r)[k] = b[k]
      BY <3>1, AppendProperties
    <3> QED
      BY <3>1, <3>2
  <2> QED
    BY <2>1, <2>2
<1> QED
  BY <1>1, <1>2

LEMMA OneRow ==
  ASSUME NEW r \in Rows, NEW n \in Nat, RowAt(r, n + 1)
  PROVE  /\ <<r>> \in Seq(Rows) /\ Len(<<r>>) = 1
         /\ \A k \in 1..Len(<<r>>) : RowAt(<<r>>[k], n + k)
<1>1. <<r>> \in Seq(Rows) /\ Len(<<r>>) = 1 /\ <<r>>[1] = r
  OBVIOUS
<1>2. ASSUME NEW k \in 1..Len(<<r>>)
      PROVE  RowAt(<<r>>[k], n + k)
  <2>1. k = 1
    BY <1>1, <1>2
  <2> QED
    BY <1>1, <2>1
<1> QED
  BY <1>1, <1>2

LEMMA NoRows ==
  /\ <<>> \in Seq(Rows) /\ Len(<<>>) = 0
  /\ \A n : \A k \in 1..Len(<<>>) : RowAt(<<>>[k], n + k)
OBVIOUS

(* The part of FileInv that speaks of a sound file.                        *)
SoundFile ==
  /\ file \in Seq(Rows)
  /\ written = Len(file)
  /\ Len(file) + Len(batch) = tail
  /\ \A k \in 1..Len(file) : RowAt(file[k], k)
  /\ \A k \in 1..Len(batch) : RowAt(batch[k], Len(file) + k)

LEMMA FileParts ==
  FileInv <=> batch \in Seq(Rows) /\ Len(batch) <= BatchRows /\ (~writeFailed => SoundFile)
BY DEF FileInv, SoundFile

(* A flush that succeeds leaves every row taken so far in the file.        *)
LEMMA FlushedFile ==
  ASSUME FileInv, tail \in Nat, ~writeFailed, FlushSucceeds
  PROVE  /\ ~writeFailed'
         /\ file' \in Seq(Rows) /\ written' = Len(file') /\ Len(file') = tail
         /\ \A k \in 1..Len(file') : RowAt(file'[k], k)
<1>1. batch \in Seq(Rows) /\ SoundFile
  BY FileInv, FileParts, ~writeFailed
<1>2. /\ file \in Seq(Rows) /\ written = Len(file) /\ Len(file) + Len(batch) = tail
      /\ \A k \in 1..Len(file) : RowAt(file[k], k)
      /\ \A k \in 1..Len(batch) : RowAt(batch[k], Len(file) + k)
  BY <1>1 DEF SoundFile
<1>3. file' = file \o batch /\ written' = written + Len(batch) /\ ~writeFailed'
  BY FlushSucceeds, ~writeFailed DEF FlushSucceeds, FlushWrites
<1>4. /\ file \o batch \in Seq(Rows)
      /\ Len(file \o batch) = Len(file) + Len(batch)
      /\ \A k \in 1..Len(file \o batch) : RowAt((file \o batch)[k], k)
  BY <1>1, <1>2, FlushedRows
<1> QED
  BY <1>2, <1>3, <1>4

LEMMA WorkerRing ==
  ASSUME RingInv, UNCHANGED <<step, queue, published>>,
         tail' = tail \/ (tail' = tail + 1 /\ tail < head)
  PROVE  RingInv'
<1>1. /\ head \in Nat /\ tail \in Nat /\ dropped \in Nat
      /\ tail <= head /\ head - tail <= QueueCapacity
      /\ \A n \in tail..(head - 1) : ring[SlotOf(n)].seq = n + 1 + ring[SlotOf(n)].drops
  BY RingInv DEF RingInv
<1>2. /\ tail' \in Nat /\ tail' <= head /\ head - tail' <= QueueCapacity
      /\ \A n \in tail'..(head - 1) : n \in tail..(head - 1)
      /\ head - tail < QueueCapacity => head - tail' < QueueCapacity
  BY <1>1, Parameters, tail' = tail \/ (tail' = tail + 1 /\ tail < head)
<1>3. \A n \in tail'..(head - 1) : ring[SlotOf(n)].seq = n + 1 + ring[SlotOf(n)].drops
  BY <1>1, <1>2
<1> QED
  BY <1>1, <1>2, <1>3, RingInv, UNCHANGED <<step, queue, published>>
  DEF RingInv, SlotOf, queue

(* What a step of the worker does not touch.                               *)
LEMMA WorkerDisk ==
  ASSUME DiskInv, logger.pc # "done", UNCHANGED <<step, drain, disk>>
  PROVE  DiskInv'
<1>1. ~drained /\ csv # "csv" /\ json # "complete"
  BY DiskInv, logger.pc # "done" DEF DiskInv
<1>2. UNCHANGED <<step, drained, csv, json>>
  BY UNCHANGED <<step, drain, disk>> DEF drain, disk
<1> QED
  BY DiskInv, <1>1, <1>2 DEF DiskInv

LEMMA ReadingWorker ==
  ASSUME QueueInv, ReadStop \/ ReadHead \/ SyncFile
  PROVE  QueueInv'
<1>1. /\ UNCHANGED <<step, published, queue, drain, disk, tail, written, writeFailed, batch, file>>
      /\ logger.pc # "done"
  BY ReadStop \/ ReadHead \/ SyncFile
  DEF ReadStop, ReadHead, SyncFile, WorkerStep, publisher
<1>2. RingInv'
  <2>1. UNCHANGED <<step, queue, published>> /\ tail' = tail
    BY <1>1
  <2>2. RingInv
    BY QueueInv DEF QueueInv
  <2> QED
    BY <2>1, <2>2, WorkerRing
<1>3. FileInv'
  BY <1>1, QueueInv DEF QueueInv, FileInv, RowAt
<1>4. DiskInv'
  BY <1>1, QueueInv, WorkerDisk DEF QueueInv
<1>5. LoggerInv'
  <2>1. head \in Nat /\ tail \in Nat /\ tail <= head
    BY QueueInv DEF QueueInv, RingInv
  <2> USE <1>1, <2>1, QueueInv DEF QueueInv, LoggerInv, WorkerStep, drain, queue
  <2>2. CASE ReadStop
    BY <2>2 DEF ReadStop
  <2>3. CASE ReadHead
    BY <2>3 DEF ReadHead
  <2>4. CASE SyncFile
    BY <2>4 DEF SyncFile
  <2> QED
    BY <2>2, <2>3, <2>4, ReadStop \/ ReadHead \/ SyncFile
<1> QED
  BY <1>2, <1>3, <1>4, <1>5 DEF QueueInv

LEMMA EmptyWorker ==
  ASSUME QueueInv, QueueEmpty
  PROVE  QueueInv'
<1>1. /\ UNCHANGED <<step, published, queue, drain, disk, tail>>
      /\ logger.pc = "empty" /\ batch' = <<>>
      /\ logger' = [pc |-> IF logger.stop THEN "sync" ELSE "loop"]
  BY QueueEmpty DEF QueueEmpty, WorkerStep, publisher, StopSeen, FlushFails
<1>2. RingInv'
  <2>1. UNCHANGED <<step, queue, published>> /\ tail' = tail
    BY <1>1
  <2>2. RingInv
    BY QueueInv DEF QueueInv
  <2> QED
    BY <2>1, <2>2, WorkerRing
<1>3. tail \in Nat
  BY QueueInv DEF QueueInv, RingInv
<1>4. FileInv'
  <2>1. batch' \in Seq(Rows) /\ Len(batch') = 0 /\ Len(batch') <= BatchRows
    BY <1>1, NoRows, Parameters
  <2>2. CASE writeFailed'
    BY <2>1, <2>2, FileParts DEF FileInv
  <2>3. CASE ~writeFailed'
    <3>1. ~writeFailed /\ FlushSucceeds
      BY <2>3, QueueEmpty DEF QueueEmpty, FlushFails
    <3>2. /\ file' \in Seq(Rows) /\ written' = Len(file') /\ Len(file') = tail
          /\ \A k \in 1..Len(file') : RowAt(file'[k], k)
      BY <1>3, <3>1, QueueInv, FlushedFile DEF QueueInv
    <3>3. \A k \in 1..Len(batch') : RowAt(batch'[k], Len(file') + k)
      BY <1>1, NoRows
    <3>4. Len(file') + Len(batch') = tail'
      BY <1>1, <1>3, <2>1, <3>2
    <3> QED
      BY <2>1, <3>2, <3>3, <3>4 DEF FileInv, RowAt
  <2> QED
    BY <2>2, <2>3
<1>5. LoggerInv'
  BY <1>1, QueueInv DEF QueueInv, LoggerInv, drain, queue
<1>6. DiskInv'
  BY <1>1, QueueInv, WorkerDisk DEF QueueInv
<1> QED
  BY <1>2, <1>4, <1>5, <1>6 DEF QueueInv

LEMMA TakenRow ==
  ASSUME QueueInv, ProcessRow
  PROVE  QueueInv'
<1> DEFINE r == ring[SlotOf(tail)]
<1>1. /\ UNCHANGED <<step, published, queue, drain, disk>>
      /\ logger.pc = "row" /\ tail' = tail + 1
      /\ logger' = IF tail' = logger.head THEN [pc |-> "loop"] ELSE logger
  BY ProcessRow DEF ProcessRow, WorkerStep, publisher
<1>2. /\ head \in Nat /\ tail \in Nat /\ tail <= head
      /\ logger.head \in (tail + 1)..head
  BY <1>1, QueueInv DEF QueueInv, RingInv, LoggerInv
<1>3. tail < head /\ tail \in tail..(head - 1)
  BY <1>2
<1>4. r \in Rows /\ RowAt(r, tail + 1)
  <2>1. SlotOf(tail) \in Slots
    BY <1>2, Parameters, DivMod DEF SlotOf, Slots
  <2> QED
    BY <1>3, <2>1, QueueInv DEF QueueInv, RingInv, RowAt
<1>5. RingInv'
  BY <1>1, <1>3, QueueInv, WorkerRing DEF QueueInv
<1>6. FileInv'
  <2>1. batch \in Seq(Rows) /\ Len(batch) <= BatchRows /\ Len(batch) \in Nat
    BY QueueInv, LenProperties DEF QueueInv, FileInv
  <2>2. CASE writeFailed /\ UNCHANGED <<batch, written, writeFailed, file>>
    BY <2>1, <2>2 DEF FileInv
  <2>3. CASE ~writeFailed /\ Len(batch) < BatchRows /\ batch' = Append(batch, r)
             /\ UNCHANGED <<written, writeFailed, file>>
    <3>1. /\ file \in Seq(Rows) /\ Len(file) \in Nat /\ written = Len(file)
          /\ Len(file) + Len(batch) = tail
          /\ \A k \in 1..Len(file) : RowAt(file[k], k)
          /\ \A k \in 1..Len(batch) : RowAt(batch[k], Len(file) + k)
      BY <2>3, QueueInv, LenProperties DEF QueueInv, FileInv
    <3>2. RowAt(r, Len(file) + Len(batch) + 1)
      BY <1>4, <3>1
    <3>3. /\ Append(batch, r) \in Seq(Rows)
          /\ Len(Append(batch, r)) = Len(batch) + 1
          /\ \A k \in 1..Len(Append(batch, r)) : RowAt(Append(batch, r)[k], Len(file) + k)
      <4> HIDE DEF r
      <4> QED
        BY <1>4, <2>1, <3>1, <3>2, AppendedRow
    <3>4. /\ Len(batch) + 1 <= BatchRows
          /\ Len(file) + (Len(batch) + 1) = tail'
      <4>1. Len(batch) < BatchRows
        BY <2>3
      <4>2. Len(batch) + 1 <= BatchRows
        BY <2>1, <4>1, Parameters
      <4>3. Len(file) + (Len(batch) + 1) = (Len(file) + Len(batch)) + 1
        BY <2>1, <3>1
      <4>4. (Len(file) + Len(batch)) + 1 = tail'
        BY <1>1, <3>1
      <4> QED
        BY <4>2, <4>3, <4>4
    <3> HIDE DEF r
    <3> QED
      BY <2>3, <3>1, <3>3, <3>4 DEF FileInv, RowAt
  <2>4. CASE ~writeFailed /\ FlushSucceeds /\ batch' = <<r>>
    <3>1. /\ ~writeFailed'
          /\ file' \in Seq(Rows) /\ written' = Len(file') /\ Len(file') = tail
          /\ \A k \in 1..Len(file') : RowAt(file'[k], k)
      BY <1>2, <2>4, QueueInv, FlushedFile DEF QueueInv
    <3>2. /\ <<r>> \in Seq(Rows) /\ Len(<<r>>) = 1
          /\ \A k \in 1..Len(<<r>>) : RowAt(<<r>>[k], tail + k)
      <4> HIDE DEF r
      <4> QED
        BY <1>2, <1>4, OneRow
    <3>3. Len(file') + Len(batch') = tail' /\ Len(batch') <= BatchRows
      BY <1>1, <1>2, <2>4, <3>1, <3>2, Parameters
    <3> HIDE DEF r
    <3> QED
      BY <2>4, <3>1, <3>2, <3>3 DEF FileInv, RowAt
  <2>5. CASE FlushFails \/ FormatFails
    <3>1. batch' \in Seq(Rows) /\ Len(batch') <= BatchRows /\ writeFailed'
      <4>1. batch' = <<>> /\ writeFailed'
        BY <2>5 DEF FlushFails, FormatFails
      <4>2. 0 <= BatchRows
        BY Parameters
      <4> QED
        BY <4>1, <4>2, NoRows
    <3> QED
      BY <3>1 DEF FileInv
  <2> QED
    BY <2>2, <2>3, <2>4, <2>5, ProcessRow DEF ProcessRow, SlotOf
<1>7. LoggerInv'
  BY <1>1, <1>2, QueueInv DEF QueueInv, LoggerInv, drain, queue
<1>8. DiskInv'
  BY <1>1, QueueInv, WorkerDisk DEF QueueInv
<1> QED
  BY <1>5, <1>6, <1>7, <1>8 DEF QueueInv

LEMMA QueueKept ==
  ASSUME GateInv, GateInv', QueueInv, [Next]_vars
  PROVE  QueueInv'
<1>1. CASE Turn
  BY GateInv, GateInv', QueueInv, <1>1, OwnerQueue, QueuedRow, StoredHead DEF Turn
<1>2. CASE LoggerWorker
  BY QueueInv, <1>2, ReadingWorker, EmptyWorker, TakenRow DEF LoggerWorker
<1>3. CASE Over
  BY QueueInv, <1>3, StutterQueue DEF Over
<1> QED
  BY QueueInv, [Next]_vars, <1>1, <1>2, <1>3, SetupQueue, OwnerQueue, FinalizedQueue,
     StutterQueue DEF Next

-----------------------------------------------------------------------------
(* The theorems                                                            *)

LEMMA ArchiveStarts ==
  ASSUME Init
  PROVE  ArchiveInv
<1> USE Init DEF Init
<1>1. GateInv
  BY Parameters, Gates DEF GateInv, CountInv, WindowInv, EndInv, LoopSteps, EndSteps
<1>2. RowInv
  <2>1. /\ sample = [epoch |-> 1, seq |-> 1, valid |-> TRUE]
        /\ previous = [epoch |-> 0, seq |-> 0, valid |-> FALSE]
        /\ step = "open" /\ row = "none" /\ readerState = "OPERATIONAL" /\ arrived = 0
    OBVIOUS
  <2> QED
    BY <2>1 DEF RowInv, LoopSteps
<1>3. RingInv
  <2>1. NoRow \in Rows
    BY Gates DEF NoRow, Rows
  <2>2. ring \in [Slots -> Rows]
    BY <2>1 DEF Slots
  <2>3. head = 0 /\ tail = 0 /\ dropped = 0 /\ published = 0 /\ step = "open"
    OBVIOUS
  <2>4. \A n \in tail..(head - 1) : FALSE
    BY <2>3
  <2> QED
    BY <2>2, <2>3, <2>4, Parameters DEF RingInv
<1>4. FileInv
  <2>1. batch = <<>> /\ file = <<>> /\ written = 0 /\ tail = 0
    OBVIOUS
  <2>2. <<>> \in Seq(Rows) /\ Len(<<>>) = 0
    BY NoRows
  <2>3. \A k \in 1..Len(<<>>) : FALSE
    BY <2>2
  <2> QED
    BY <2>1, <2>2, <2>3, Parameters DEF FileInv
<1>5. LoggerInv /\ DiskInv
  BY DEF LoggerInv, DiskInv
<1> QED
  BY <1>1, <1>2, <1>3, <1>4, <1>5 DEF ArchiveInv, QueueInv

(* Every state of an acquisition accounts for its gates, its rows and its  *)
(* queue.                                                                  *)
THEOREM ArchiveInvariant == Spec => []ArchiveInv
<1>1. Init => ArchiveInv
  BY ArchiveStarts
<1>2. ArchiveInv /\ [Next]_vars => ArchiveInv'
  BY GateKept, RowsKept, QueueKept DEF ArchiveInv
<1> QED
  BY <1>1, <1>2, PTL DEF Spec

(* The archive's variables keep their types: the ring is never overrun,    *)
(* the batch never longer than the buffer, and no more rows are published  *)
(* than the window has gates.                                              *)
THEOREM ArchiveTypes == Spec => []TypeOK
<1>1. ArchiveInv => OwnerTypeOK
  <2>1. ASSUME ArchiveInv
        PROVE  published \in 0..maxGate
    <3>1. published \in Nat /\ gatesSkipped \in Nat /\ lastGate \in 0..maxGate
      BY <2>1 DEF ArchiveInv, GateInv, CountInv
    <3>2. lastGate = published + gatesSkipped
      BY <2>1 DEF ArchiveInv, GateInv, CountInv
    <3>3. \A a, b \in Nat : a <= a + b
      OBVIOUS
    <3>4. published <= lastGate
      BY <3>1, <3>2, <3>3, Zenon
    <3> QED
      BY <3>1, <3>4, Gates
  <2>2. ArchiveInv => /\ {late, slip} \subseteq Nat /\ lastGate \in 0..maxGate
                      /\ acq \in {"active", "succeeded", "vetoed"}
    BY DEF ArchiveInv, GateInv, CountInv
  <2>3. ArchiveInv => step \in {"open", "turn", "publish", "head", "sleep", "drain", "join",
                                "close", "commit", "over"}
    BY DEF ArchiveInv, GateInv, CountInv, LoopSteps, EndSteps
  <2>4. ArchiveInv => /\ row \in {"none", "missing", "fresh", "multi", "stale"}
                      /\ readerState \in {"OPERATIONAL", "RECOVERING"}
    BY DEF ArchiveInv, RowInv
  <2> QED
    BY <2>1, <2>2, <2>3, <2>4 DEF OwnerTypeOK
<1>2. ArchiveInv => LoggerTypeOK
  BY DEF ArchiveInv, QueueInv, RingInv, FileInv, DiskInv, LoggerTypeOK, Rows
<1> QED
  BY <1>1, <1>2, ArchiveInvariant, PTL DEF TypeOK

(* Every gate of the window is a row or counted as skipped before one, and *)
(* a run that completes leaves out no more gates than those of the whole   *)
(* periods its last wake-up and its overruns have put the grid behind: a   *)
(* run behind by less than two has every one.                              *)
THEOREM EveryGateCounts == Spec => []GatesAccounted
<1>1. ArchiveInv => GatesAccounted
  <2> SUFFICES ASSUME ArchiveInv
               PROVE  GatesAccounted
    OBVIOUS
  <2>1. published + gatesSkipped = lastGate
    BY DEF ArchiveInv, GateInv, CountInv
  <2>2. ASSUME step = "over", app_termination_reason = "completed"
        PROVE  GatesReached
    <3>1. ~loggerFailure /\ ~ownerFailure /\ ~processStop /\ windowOpened
      BY <2>2 DEF app_termination_reason
    <3>2. acq = "succeeded"
      BY <2>2, <3>1 DEF ArchiveInv, GateInv, EndInv, EndSteps
    <3> QED
      BY <2>2, <3>1, <3>2 DEF ArchiveInv, GateInv, EndInv
  <2> QED
    BY <2>1, <2>2 DEF GatesAccounted, GatesReached
<1> QED
  BY <1>1, ArchiveInvariant, PTL

(* "Completion describes a drained, undamaged CSV archive": whatever is on *)
(* the disk when the program stops, a CSV under its final name holds every *)
(* row that was queued, once and in order, each with the number of drops   *)
(* before it, and a companion that says complete is beside such a file.    *)
THEOREM CompleteFilesAreWhole == Spec => []CompleteIsWhole
<1>1. ArchiveInv => CompleteIsWhole
  <2> SUFFICES ASSUME ArchiveInv
               PROVE  CompleteIsWhole
    OBVIOUS
  <2>1. json = "complete" => csv = "csv"
    BY DEF ArchiveInv, QueueInv, DiskInv
  <2>2. ASSUME csv = "csv"
        PROVE  /\ Len(file) = head
               /\ written = head
               /\ head + dropped = published
               /\ \A k \in DOMAIN file : file[k].seq = k + file[k].drops
    <3>1. step # "head" /\ logger.pc = "done" /\ ~writeFailed
      BY <2>2 DEF ArchiveInv, QueueInv, DiskInv
    <3>2. head = tail /\ batch = <<>>
      BY <3>1 DEF ArchiveInv, QueueInv, LoggerInv
    <3>3. published = head + dropped
      BY <3>1 DEF ArchiveInv, QueueInv, RingInv
    <3>4. /\ file \in Seq(Rows) /\ written = Len(file)
          /\ Len(file) + Len(batch) = tail
          /\ \A k \in 1..Len(file) : file[k].seq = k + file[k].drops
      BY <3>1 DEF ArchiveInv, QueueInv, FileInv, RowAt
    <3>5. Len(file) \in Nat /\ Len(batch) = 0 /\ DOMAIN file = 1..Len(file)
      BY <3>2, <3>4, NoRows, LenProperties
    <3>6. Len(file) = tail
      BY <3>4, <3>5
    <3> QED
      BY <3>2, <3>3, <3>4, <3>5, <3>6
  <2> QED
    BY <2>1, <2>2 DEF CompleteIsWhole
<1> QED
  BY <1>1, ArchiveInvariant, PTL

(* What a row says of its group is about the events since the row before   *)
(* it, across resets of the chip.                                          *)
THEOREM RowsAreHonest == Spec => FreshMeansNew
<1>1. ArchiveInv /\ [Next]_vars =>
        [published' = published + 1 =>
           /\ row' = "fresh" => arrived >= 1
           /\ row' = "multi" => arrived >= 2
           /\ row' = "stale" => arrived = 0]_vars
  <2> SUFFICES ASSUME ArchiveInv, [Next]_vars, published' = published + 1
               PROVE  /\ row' = "fresh" => arrived >= 1
                      /\ row' = "multi" => arrived >= 2
                      /\ row' = "stale" => arrived = 0
    OBVIOUS
  <2>1. GateDue
    BY PublicationIsGateDue DEF ArchiveInv, GateInv, CountInv
  <2> QED
    BY <2>1, RowOfPublication DEF ArchiveInv
<1> QED
  BY <1>1, ArchiveInvariant, PTL DEF Spec, FreshMeansNew
=============================================================================
