# A verification of twg's control logic

TLA+ models, TLC runs and TLAPS proofs of the C programs in this repository:
`bno_app` (a BNO085 inertial unit on SPI), `ms5_app` (an MS5837 pressure sensor on
I2C), and `twg_app`, which integrates both. Paths below are relative to `src/`.

The repository is single-threaded at its core. An *owner loop* calls
nonblocking state machines once per turn of 1 ms; a few worker threads (log
writers, readers of the terminal) sit behind rings or a mutex. The hard part is the order of events: resets that arrive while something else is being
done, stops and lost sessions between two stages, failures in the middle of a bus
sequence, results adopted late, lines typed ahead of the stage they reach.

## 1. Inventory

| Component | State it keeps | Operations | Talks to |
|---|---|---|---|
| Session owner, `bno/app/imu_session.c` | reader state, configuration epoch, pending-reset flag, policy masks, production mailbox with group identities, calibration, tare and check mailboxes | open, configure (production, calibration, tare, check), tare now and clear, save and clear DCD, recover, reopen, restore, settle, close; SH-2 callbacks | SH-2 library (calls, callbacks), the adapters, the owner loops |
| Command coordinator, `bno/app/imu_cmd.c` | the plan, the active stage, per-stage results, request to the owner, veto, stop, warning, completion | init, post (tick, q, confirm, stop, terminal, settle done, lost session), service | the three machines, the owner loops |
| Calibration, tare and check machines with their adapters, `imu_cal*.c`, `imu_tare*.c`, `imu_check*.c` | machine state, deadline, gate clock, rounds and attempts, facts, result | init, post (tick, q, confirm, facts, answers), service; the adapter's pump | coordinator, session |
| Publication gate and publisher, `imu_publish.c` | ticks, gates, identity last published | begin, advance, evaluate | owner loops, loggers |
| IMU logger and log files, `imu_logger.c`, `imu_logfile.c` | ring, batch, stop and failure flags; files | start, enqueue, drain; close, commit | its worker thread, the disk |
| bno_app console, `imu_console.c` | line queue, flush ticket and acknowledgement, stop | dequeue, flush, translate, render, stop, join | its worker thread, the operator |
| bno_app owner loop, `bno/app/main.c` | settle, input gate, acquisition window, failures | the turn, finalize | all of the above |
| TWG stage controller, `integrate/twg_stage.c` | mode, settle deadline, clear-all and pressure requests | init, turn, keys | coordinator, session |
| twg_app owner loop, `integrate/main.c` | pressure capture and reference, window, stop | the turn | stage controller, driver, log |
| TWG terminal, `integrate/twg_term.c` | key ring, flush floor | enqueue, dequeue, flush, render | its reader thread |
| TWG log, `integrate/twg_log.c` | record ring, counters, stop and failure flags | start, enqueue, stop | its worker thread |
| RT scheduler, `rt/realtime.c` | absolute deadline | start, sleep until | every owner loop |
| MS5837 driver, `ms5/app/ms5837_driver.c` | driver state, deadlines, recovery incident, counters, latest sample | init, trigger, service, shutdown | I2C HAL, owner loops |
| MS5837 publisher, logger, application, `ms5/app/main.c` and others | gate, published identity, zero estimator, mutex-guarded queue | start, warm-up, capture phase, stop | driver, its worker thread |
| MS5837 arithmetic, `ms5837_math.c` | none | CRC-4, compensation | driver |
| CSV text, metadata, CLIs, HALs, validation rig | text, file names, device handles | formatting, parsing, system calls | all |

What is hard in each, and what makes it correct:

- **Session owner.** A reset may come at any time the bus is serviced. Correct
  when nothing measured in one configuration epoch is used in another, when
  identities of samples never repeat, and when a reset chip is never used as
  configured.
- **Coordinator.** Stages end by machine result, q, stop, lost session or a host
  terminal, in any order with respect to ticks. Correct when stages run in slot
  order and once each, when nothing runs after a veto or a failed recovery, when
  results and warnings are the machines' own, and when a plan always settles.
- **Machines.** Nested retries, sustained gates, deadlines racing q, resets in
  every state. Correct when success is real, when what was changed and not
  completed is reported, when the session is handed back in production, when no
  evidence of another epoch counts, and when a stage ends.
- **Stage controller and twg_app loop.** Keys, zeroing and stops arrive in every
  mode; mode, plan, session and capture are separate variables moved in different parts of
  the turn. Correct when they agree, when a reference is of one capture, and when q
  leads back to acquisition.
- **bno_app loop and console.** Two threads share the lines. Correct when a line
  reaches only the stage it was typed for, when the settle runs on production
  reports, and when a stop ends both threads.
- **Archives.** Gates, a full queue, failed writes and a drain that times out
  meet in one file name. Correct when a file called complete is complete and
  every gate is a row or counted.
- **Driver.** Any transaction may fail. Correct when pairs and incidents are
  accounted for, when recovery is bounded and leaks no handle, and when the chip
  is never read before it is done.
- **ms5_app.** A mutex, a condition variable and a trylock between owner and writer.
  Correct when exit status 0 means a whole file, and when every capture ends.

## 2. Modules

| Module | Models | Role |
|---|---|---|
| `ImuSession` | `imu_session.c` | session owner |
| `ImuSessionProofs` | | its theorems |
| `ImuCmdTypes` | the enumerations of `imu_cmd.h` | stages, results and what each stage can end with |
| `PlanRun` | what `imu_cmd.h` promises of a plan | abstract specification |
| `ImuCmd` | `imu_cmd.c`, and the machines' results | coordinator; refines `PlanRun` |
| `MCImuCmd` | | twelve plans for TLC |
| `ImuCmdProofs` | | its theorems, and the refinement |
| `ImuMachine` | what the three machines share, and the session as the adapters see it | base of the next three |
| `ImuCal`, `ImuTare`, `ImuCheck` | `imu_cal.c`, `imu_tare.c`, `imu_check.c` and their adapters | the machines |
| `ImuMachines` | the turn that drives them | composition, properties, run |
| `ImuMachinesProofs` | | its theorems |
| `StagePump` | what the two IMU owner loops share: coordinator, phase of the running machine, pump | base of the next two; instantiates `ImuCmd` |
| `TwgStage` | `twg_stage.c` and the turn of `integrate/main.c` | twg_app's owner |
| `TwgStageProofs` | | its theorems |
| `BnoApp`, `MCBnoApp` | the turn of `bno/app/main.c` and `imu_console.c` | bno_app's owner and input worker; two plans |
| `BnoAppProofs` | | its theorems |
| `BnoArchive` | `imu_publish.c`, `imu_logger.c`, `imu_logfile.c` and the acquisition of `bno/app/main.c` | from gate to file name |
| `BnoArchiveProofs` | | its theorems |
| `TwgLog` | `twg_log.c`, and how `integrate/main.c` leaves its loop | log queue and its worker |
| `TwgLogProofs` | | its theorems |
| `PressureDriver` | what the owner of the MS5837 driver relies on | abstract specification |
| `Ms5837Driver` | `ms5837_driver.c` and the chip's timing | driver; refines `PressureDriver` |
| `Ms5App` | `ms5/app/main.c`, `ms5837_publish.c`, `ms5837_logger.c` | the application; built on `PressureDriver` |
| `Ms5837Proofs` | | the driver's theorems and refinement, and the application's theorems |

Names follow the source: `sState`, `s_slot_done`, `enter_recovery` are the
code's. A definition named after a mistake (`BumpKeepsValidity`, `ExhaustedLate`,
`TryAgain`...) is a broken variant of the definition right after it and is used
by no specification; with it in place of its neighbour the property that
guards that code is violated.

Three seams join the modules. `ImuMachines` checks that a machine ends with one
of the results `ImuCmd` chooses from (`ResultPromised`); that each of its steps is a step `StagePump`
has for it is proved (`MachinesArePhases`), so that what is shown of the owner loops holds with
the machines themselves in place. `StagePump` instantiates `ImuCmd`
itself, so the owner loops run the real coordinator and only the machine inside it is
reduced to a phase. `Ms5App` extends `PressureDriver`, which `Ms5837Driver` is
shown, and proved, to implement; that the application touches the driver only as the contract
allows is proved as well (`CaptureKeepsContract`).

### ImuSession

One action per public function that changes state, plus the callbacks
`imu_session_service` delivers: `HandleReset` (`handle_reset`),
`DiagnosticDecode` and `ProductionDecode` (`sensorCallback`). A call's bus
outcome is two parameters: `ok`, did the SH-2 calls succeed, and `r`, did a reset
arrive before they returned. `Applied` is the common part of the
configuration functions: the epoch is taken after the hardware accepted the set.
The calibration mask it stores, `sCalMask`, is what the chip reads back (`ReadBack`), whatever that is:
only check and probe compare it with the request (`imu_session.c:869`), production, restore and
calibration take it as it comes (`imu_session.c:330`, `406`). `EligibleInMode` therefore speaks of
`policyAsked`, the mask of the last request the chip accepted and has not lost to a reset, and not of
what the chip made of it.
`Fault` is `enter_faulted` after a set was applied half way; the chip then
streams anything (`reports = "unknown"`). `BumpBy` is `increment_epoch`, which
also clears validity and the three fact mailboxes.

The constant `ResetInConfigure` separates two worlds. `imu_session.h` says
callbacks fire inside `service()`. The SH-2 library, which is a submodule absent
from this tree, services the bus inside its own calls, and the comment at
`imu_session.c:1267` counts on it. With `FALSE` resets arrive in service, in
`clear_dcd` and in reopens; with `TRUE` in every configuration call as well.

Left out: quaternions, accuracies and intervals; `save_dcd` and `persist_tare`,
which change nothing here; the recovery counters; the accelerometer's two
reports are one group. The code's host-test seams (no HAL: calls succeed) are
kept where the code reaches them, because `begin_recovery` after a failed reopen
goes through them: the session is then CONFIGURING without a HAL.
`VerificationReopen` takes its epoch before the reopen, so that a reset seen
while SH-2 reopens takes another one, where `imu_session.h` speaks of one; no
machine requests that reopen.

### PlanRun, ImuCmd

`PlanRun` knows slots 1 to 5 (calibration, tare, check, settle, acquisition):
which are requested, waiting, running or finished, and whether the plan has
ended. A slot starts only after every requested earlier one has finished; a
failed recovery ends the plan.

`ImuCmd` has an action for `imu_cmd_init`, for each posted event, and for each
branch of `imu_cmd_service`. A call the code answers without changing anything
is a stutter. `machine` is the composed calibration, tare or check machine as
the coordinator sees it: whose stage it serves and its result so far;
`MachineResults` lists the results each can end with. `s_confirmed` and `s_action`
mirror the machines and are left out. `post_terminal`, the host's seam, may bring any terminal
result, and ABANDONED with a stop's reason, which vetoes like a stop. The three `s_*_initialized` flags and
`s_stage_start_ns` are one flag, `s_armed`. A legal plan is one whose slots hold
the right families and whose other fields agree (`fieldsAgree`). The
refinement mapping is `Plan` at the end of the module. `imu_cmd_init` is
enabled where its callers use it: before the first plan, from acquisition and
after completion.

### ImuMachine, ImuCal, ImuTare, ImuCheck, ImuMachines

`ImuMachine` has the variables the three machines keep under the same names
(`s_state`, `s_pending`, the deadline, the gate's clock, the result), the helpers
they share, and the session as their adapters see it: `Call` is one session call
that may be refused, fail, or lose the session; `chip` is what the chip keeps
through it. In each machine module there is one action per posted event, one for the
adapter's pump (the pending request executed and its answer posted, facts
forwarded) and one per branch of the machine's `service`. `ImuMachines` drives
whichever machine serves the stage through the turn both loops share: session,
pump, tick, service, with q and confirmations before the pump (twg_app) and after
the tick (bno_app), and a chip reset in every turn.

A fact carries the epoch it was decoded in and, for `EvidenceIsCurrent`, whether it was decoded in
the frame the tare made; that flag is the model's witness, the code has only the
epoch. Deadlines are the units that remain; `Tick(d)` brings them 0 or 1 nearer.
Left out: accuracies as numbers (a sensor is at its goal or not), the axes of a tare,
the four masks of a check (one gate), reason codes and progress texts.
WAIT_REOPEN, WAIT_VERIFY_CONFIG and the partial clear result
are in the sources and cannot be reached (nothing requests the reopen of
`bno/readme.md`'s step 7; `imu_session_clear_tare` sets both sub-results from one
call): they are no states of the model.

### StagePump, TwgStage

`StagePump` keeps the coordinator whole and reduces a machine to its phase
(confirm, config, prompt, work, commit, verify, restore, done), choosing freely
what the machine may find. A check whose report set was applied but reads back
different is restored from its own mode (`imu_session.c:869`), which is one of the
choices. `TwgStage` cuts `twg_stage_turn` and the loop around it where they call
another component: key, pump, tick and settle, coordinator's
service, the pressure requests, the capture (`ZeroService`), the row. `TARE`
stands for both tare modes, which differ in axes. A sample kept for a reference
carries a tag, of this capture or of an earlier one (`sampleOrigins`).
twg_app never begins an IMU recovery: after a chip reset the session stays
RECOVERING and the survey goes on without inertial samples, as `ModesAgree` allows.
The settle deadline is unset at start, so the first turn finds it passed: Init
says so (`settleLeft = 0`).

### BnoApp

The owner's turn is cut where it touches what the input worker shares: the
line queue, `flushRequested` and `flushAcknowledged`, the input error, the stop.
The worker is `input_worker`, one step per access: top of the loop, `tcflush` and the queue
emptied under its lock, poll, offer. A line remembers the stage during which it was typed
(`at`): that is what `InputIsOfThisStage` compares. A stage "receives" a line typed after the
stage became active; a line typed between `tcflush` and the display of the
prompt is of the stage, and can confirm it.
`Means` is `imu_console_translate`; `LooksLikePrompt` is the pair of states it cannot tell
apart. Left out: everything printed, the deadlines shown; `printed` remembers which results
have been.

Behaviours the model has and the code's texts do not mention: once the console's
input has ended, no flush is acknowledged again and later stages take no input
(only a signal ends them); the path `session_failed` ends without printing the
results; when the production configuration before the settle fails, the run ends
as an owner error, without a restore.

### BnoArchive

One ACQUISITION stage with everything between a gate and the finished files:
the gate (`gate_advance`), the publisher for one group, the ring, the
worker (`worker_main`, stop flag read before `head`), batches, the timed drain, the
CSV's final name and the companion JSON.

The owner's clock is finer than its ticks: a turn takes any time of `Work`, a sleep returns any time of
`Lateness` after its target, and `RT_SleepUntil` is the code's arithmetic on the two. `age` is the clock
read at the turn's start, which ends the stage (`imu_cmd.c:685`); `nextTurnTicks` is what the gates are
counted in. The two part in two ways. A late wake-up (`late`) is counted only by the sleep after it, so the turn that
ends the stage may be several periods ahead of its ticks. And an overrun starts the grid again
from the present, which drops a part of a period each time (`slip`). Either way a run can end before its last
gates are due, and is then called complete although they are missing, or partial when its
window is still open. `GatesAccounted` says what can be relied on: every gate reached is a row or counted as
skipped, and what a completed run leaves out is no more than the whole periods in `late + slip` at its last turn;
at most one period behind, it has every gate.

An event decoded before the row that first meets a new epoch is in no fresh row. A row that fits in no batch
(`FormatFails`) fails the logger like a write that fails.
`Init` starts at `begin_acquisition_window`; the settle before it is `BnoApp`'s.

### TwgLog

A step is what one thread does between two accesses to an atomic the other one
uses: `Offer` (load of `tail`, slot written) and `Publish` (store of `head`) for
the owner, `Poll` (load of `head`), `CheckStop`, `Write`, `Advance` and `Flush`
for the worker. The release and acquire orders in the code make the slot visible
with `head` and free with `tail`, so interleaving these steps is exact. A row in
`file` has been handed to stdio; what the last `fflush`, `fsync` and `fclose` do to
it is the `ok` of `Flush` and `Join`. A row written in part is a failed one.

### PressureDriver, Ms5837Driver

`driver_trigger` and one action per branch of `ms5837_driver_service` and
`service_recovery`. Deadlines are the ticks that remain; `Elapse` is the clock.
`chipIn` is external: the ticks the chip still needs. It is what makes
`NeverReadsEarly` a statement about the code: the deadline is computed from a
time read after the command went out. A service call whose deadline has not
come is a stutter. A failed initialization can be tried again, as `ms5_app` does;
the shutdown is final. `PressureDriver` is what the owner sees between two calls:
NEW, IDLE, PAIR, RECOVERY, STOPPED or SHUT, whether a latest sample is offered, and its
sequence. `OwnersView` and the `WITH` of `Contract` are the mapping.

### Ms5App

`main` from its first initialization attempt to its exit status: one action per
part of the turn between two points where the logger's thread, a signal or the
sleep can come in. The owner's critical sections are single actions; the worker
holds the mutex from `Locks` to `Decides`, which is when `trylock` fails. The condition variable wakes its
waiter on a signal or spuriously. Zero and run phase are the same actions with
another `LastGate`. A row carries what the property reads from it: its gate, which the code
writes as the scheduled time, the gates skipped before it, the driver's status, the
sample offered and whether it is told fresh. Left out: pressures, the trimmed mean and depth (a row says
whether it has one), telemetry, CSV text, the file's name. Files are what was
handed to stdio; a failed flush or close is the `closed` of `JoinLogger`.

Worth knowing: a single contended `trylock`, like a full queue, ends the capture
with exit status 1 (documented, `ms5/readme.md:441`); a stop in the instant between
warm-up or zero and the next phase exits with 0 and no rows of that phase
(`StopBeforePhase`), where any other stop exits with 1; exhaustion in warm-up
writes no row.

## 3. Runs

Every disjunct of each next-state relation fires in the passing runs.

| Run | Instance | Shows |
|---|---|---|
| `session` | 2 groups, masks {0, 7}, epochs to 4, sequences to 2; 48 737 states | the session's invariants with resets in service, clears and reopens |
| `session_reset_in_call` | the same, `ResetInConfigure = TRUE` | violation: finding 1 |
| `coordinator` | 12 plans, three of them illegal; 36 151 states | the coordinator's invariants, its refinement of `PlanRun`, settlement |
| `machines` | every kind of stage; 2 poses, 2 rounds, 2 save attempts, deadlines of 2, sustained gates of 1; 48 584 states | results are promised, real and reported; the session is handed back; evidence is current; a stage ends |
| `stage` | settle of 2 turns, capture of 3, 2 to 3 samples; 41 336 states | mode, plan, session and capture agree; a reference is of one capture; q gets out |
| `bno_app` | 2 plans, 2 lines, queue of 1; 598 970 states | lines of a stage, settle in production, stop ends both threads |
| `bno_app_enter` | the same | violation: finding 3 |
| `bno_archive` | window of 6 ticks of 2 units, gates of 2 ticks, wake-ups 0 or 5 late, turns of 0 or 3, 3 events, queue and batch of 1; 3 207 616 states | complete means whole, gates accounted for, fresh means new |
| `twg_log` | 2 slots, 5 rows; 944 states | prefix, honest verdict, rows reach the file, stop returns |
| `twg_log_stop` | the same | violation: finding 2 |
| `driver` | 2 PROM words, 3 attempts, 2-tick delays, 3 triggers, 3 incidents; 19 451 states | accounting, bounded retries, handles, timing, termination, refinement of `PressureDriver` |
| `ms5_app` | 2 start-up attempts, 1 zero and 2 run gates of 2 ticks, overruns to 2, 1 sample, queue of 1; 365 376 states | exit status and file agree, every capture ends |

Why the bounds are enough.

- *session*: the epoch is compared for equality only; four of them allow open, a
  reset, its recovery and another reset, and a double increment in one call. Two
  groups show that one is cleared with the other; a sequence of two shows a repeat.
- *coordinator*: the plans have a gap before, between and after their stages and
  each kind of stage; slots are handled by the same code.
- *machines*: every counter has a first, a last and an exceeded value
  (`PoseCount`, `AccelRounds`, `MagRounds`, `SaveAttempts` are 2). Durations (`Window`,
  `GateTimeout`, `SustainedGood`, `ProbeTime`) keep the order of the code's; only
  whether one has passed matters. Epochs grow without bound in one stage only as far
  as its retries allow, and are compared for equality.
- *stage*: a settle and a capture of more than one turn can be interrupted in
  the middle; `MinSamples` differs from `MaxSamples`, so a capture may have too few,
  enough or be full.
- *bno_app*: `MaxLines` is 2: one line is wanted, one is typed ahead or too much, and
  a queue of one is full with the second. One plan has the two clears, whose confirmations are the
  same word, the other a calibration, a tare and a check, which q ends or a report set that reads back
  different.
- *bno_archive*: three gates, each of which an overrun can skip. A wake-up is in time or more than
  two periods late, a turn takes no time or more than a period, neither a multiple of the period, so that
  the last turn can be none, one or several periods behind and overruns leave parts of periods; the
  clock stops with the stage. Three events
  (`MaxEvents`) give none, one or several before a row; a queue of one and a batch of one are full
  and empty in turn.
- *driver*: attempts are at the code's own bound of three; two PROM words have a
  first, a last and an end; a second incident after a recovered one and a third
  after that show the counters carry over.
- *twg_log*: two slots make the ring wrap twice in five rows.
- *ms5_app*: a gate is the last of its phase, or not (`RunGates` is 2); an overrun of two ticks
  skips one; the queue is full with one row while the worker writes another.

`MaxEpoch`, `MaxSeq`, `MaxTriggers`, `MaxIncidents`, `MaxRows`, `MaxLines` and `MaxEvents`
bound what is unbounded or 32 or 64 bits wide in the code and cannot wrap in a survey;
they are guards of the actions that count.

The type invariants (`TypeOK`) of the eight modules that have one are theorems, so
no run spends time on them.

Deadlock is not checked where the system stops: a shut driver, a joined
`TwgLog`, a stage that is over (`ImuMachines`), a process that has exited
(`Ms5App`). In the others some step is always possible, or the end is
a stutter of the specification.

### Fairness

- `ImuCmd`: the owner loop posts a tick and calls `imu_cmd_service` every turn, and
  posts settle-done when its settle deadline has passed: weak fairness of each.
  `Finishing` says a composed machine ends, because its adapter is pumped every
  turn and its operator answers or presses q. Stops, losses, q and host
  terminals have no fairness.
- `ImuMachines`: the turn's pump, tick and service are weakly fair, and time passes
  (strongly fair `Tick(1)`). The operator confirms a prompt that keeps coming
  back (strong), and presses q in the two stages that only q ends, the two
  monitors. No call, save or gate is assumed to succeed.
- `TwgStage`: the turn is weakly fair. `QGetsOut` is about an operator who goes on
  pressing q: strong fairness of the three places where q has an effect.
- `BnoApp`: both threads run. Neither the operator nor a signal must act.
- `BnoArchive`, `ImuSession`: no liveness property and no fairness.
- `TwgLog`: both threads are scheduled, and the owner finishes what it has begun.
  It need neither enqueue nor leave its loop.
- `Ms5837Driver`: the owner calls `service` every turn and time passes. No
  transaction is assumed to succeed, ever: `DriverSettles` holds because attempts
  are bounded.
- `Ms5App`: main and the logger's thread run, and `ms5837_logger_stop` gets the mutex
  it waits for (strong), which the other thread holds for a few instructions. The condition
  variable may wake its waiter without a signal; nothing counts on it.

### Findings

1. **A reset inside a configuration call is forgotten** (`imu_session.c:916`
   and the same assignment in the other configuration calls). `bno/readme.md:632`
   has a reset move the reader to RECOVERING. `handle_reset` does, but the call
   it interrupted then assigns its own state over it. `sRecoveryEpochTaken` stays
   set, so the chip is used unconfigured and the next reset takes no epoch.
   Depends on the library delivering events inside calls, as above.
2. **A late row is lost without a drop** (`twg_log.c:321-326`). The worker loads
   `head`, finds the ring empty, and only then loads `stopRequested`; a row
   published in between followed by `twg_log_stop` stays in the ring while stop
   succeeds with zero drops, which `integrate/readme.md:193` reads as a complete
   log. `imu_logger.c` loads the flag first and is not exposed.
3. **Enter typed while the DCD is saved ends the run** (`bno/app/main.c:804`).
   `bno/readme.md:932` has any other line ignored. The save blocks a turn; the same turn's
   pump moves the machine on to its verification, and the line, dequeued
   afterwards, is still translated to a confirmation (`imu_console.c:357-369`)
   that the machine refuses (`imu_cal.c:304-336`), which the owner takes for an
   error.

Differences between text and code met on the way, without a run of their own:

- The host terminal seam is documented for DCD-clear (`bno/readme.md:181`);
  `post_terminal` (`imu_cmd.c:704`) refuses it there and takes it in SETTLE and
  ACQUISITION.
- An archive is called complete although its last gates never came, after a late wake-up or
  overruns (`bno/readme.md:1051`, `rt/realtime.c:152`).
- In production the calibration mask read back is stored and not compared with the flight policy
  (`imu_session.c:406`): a chip that accepts the request and keeps another mask is used.
- In the monitors a reset of the chip leaves `imu_check` with the facts of the
  epoch before; it shows them until new ones come.
- q before the first tick of a twg_app stage, and y before a tare's first tick, are
  refused by the coordinator, and the refusal ends twg_app (`twg_stage.c:662`).
- q in the first of the two clears of clear-all cancels that one; the second is still
  confirmed and executed.
- A stop after a tare or DCD save was executed, before its result is adopted, records
  ABANDONED (`imu_cmd.c:575`); that is how the code is meant.

## 4. Proofs

Every safety property the passing runs check, invariant or action property, is a theorem, and so
are both refinements. The theorems hold for every
value of the constants the modules' assumptions allow: `SessionAssumption` (group and mask
sets, bounds), `PlansAssumption` (any set of plans of the right shape, legal or
not), `DurationsAssumption` and `RoundsAssumption` (positive durations and maxima),
`StageAssumption` (at least one sample wanted, no more than fit), `AppAssumption`,
`LogAssumption` and `ArchiveAssumption` (positive capacities, a window of at least one gate),
`DriverAssumption` (positive counts and times) and `CaptureAssumption` (positive numbers of gates and
ticks, a queue of at least one row, an overrun of any length). They say only what the constants are; any
bound on a count (`MaxEpoch`, `MaxRows`, `MaxLines`...) may be any natural number. Two
theorems have a hypothesis besides, `~ResetInConfigure`, and are marked.

Each proof finds a strengthening that every step preserves; what it adds is what makes the
property true, and is worth reading.

**ImuSessionProofs.** `EpochInv` is inductive: `TypeOK`; `SessionAlive`, an open HAL
has a nonzero epoch and is not closed; `ValidInEpoch`; and `FactsLive`, which
strengthens `FactsInEpoch` to every mailbox, valid or not, because the next epoch
clears by value. Most actions move the epoch through `BumpBy`, so one lemma
(`BumpKeepsEpochs`) carries most cases. It gives `ValidityIsCurrent` and
`FactsAreCurrent` wherever resets arrive. `ParkInv` adds to `ResetParksReader` which report
set the chip has and which mask it was asked for from CONFIGURING to OPERATIONAL, that nothing is
streamed without a HAL or while a reset is pending, and that diagnostics are open only on configured hardware
(why a restore out of a check takes an epoch and retires them); it is inductive only under
`~ResetInConfigure`, which `ResetIsParked` and `EligibleSamples` assume, and finding 1
shows that the first must. `IdentitiesGrow` needs that an adopted number was assigned
(`AdoptedIsAssigned`) and that one callback alone assigns. `ClearTakesOneEpoch` follows
from `ResetParksReader`, with the same hypothesis: a reader in CONFIGURING has no reset pending.

**ImuCmdProofs.** `IInv` joins `VetoEndsPlan` and `RequestNamesActive` to what makes
them inductive: an accepted plan is legal, an uninitialized coordinator is idle,
slots up to `s_slot_done` are finished or empty and those after it have not
started (`SlotDoneSplits`), and the running stage is the next one
(`ActiveIsNext`). `CmdRunsPlan` proves the refinement: initial states map to
initial states, and for each action a lemma shows that it is a `PlanRun` step or
leaves the mapped variables alone. `WarningInv` adds that only an ended stage warns
(`OnlyEndedWarn`), without which adopting a result could drop a warning already counted
(`WarningIsFaithful`); `ResultsAreAdopted` is one case per way a stage ends.

**ImuMachinesProofs.** `MachineInv` has three parts. `ControlInv`: each stage stays among its own
states, the pending request is the one its state waits for, and a verdict held for a restore
is one the machine may end with. `ChipInv`: what the chip has gone through follows the state, so
that a restore begun for a success is begun on a chip that has what is claimed (`Achieved`).
`FactsInv`: the mailbox is of the session's epoch and says of the tare frame what the chip says;
evidence exists only from VERIFY on. The session's calls are analysed once (`CallEffect`, with
`BumpKeeps`), the steps of the machines reduce to a few shapes (`LocalKeeps`, `AnswerKeeps`,
`IdlePump`), and one lemma per machine and step shows its shape. `MachineInvariant` gives
`ResultsArePromised`, which is what `ImuCmd` assumes of its machines, `SuccessesAreReal`,
`MutationsAreReported`, `EvidenceStaysCurrent`, `SessionIsGivenBack` and `VerdictsStand`. `RoundsInv` bounds poses, rounds and save attempts
(`RoundsAreBounded`); the gyroscope gate begins an attempt without looking at the count, which is
harmless because none has been made by then, and the invariant says so. `KindsInv` completes
the types (`MachineTypes`). `MachinesArePhases` maps a state to its phase and the machine to what the
coordinator holds of it, and shows of every action which action of `StagePump` it is: a pump is a pump,
q is a q that ends the stage or begins its restore, a service finds what `MayFind` allows. It needs two
facts more (`SeamInv`): a restore is never begun for a failed recovery, and a DCD-clear that waits has the
session it found or a reset one. The proof holds whichever reports the stage finds on (`AsFound`).

**TwgStageProofs.** The properties speak of the end of a turn; `StageInv` says for every point
of the turn where mode, plan and capture may be apart. `PlanInv`: a plan is running exactly in the modes that
have one. `SlotInv` and `PhaseInv`: the coordinator's position, and that the machine has ended
exactly when its phase says so. `SessionInv`: production is streaming whenever the settle may
take it for granted. `CaptureInv`: between a key and its request, which of capture and
mode is ahead. `SamplesInv`: samples kept are of this capture. They hold while the program runs;
a failing step may leave the parts apart, as the code does. `ModesStayTogether`,
`ReferenceIsOfOneCapture` and `StageTypes` follow.

**BnoAppProofs.** `BoundaryInv` is the argument of the flush handshake: the gate's ticket is the last
flush asked for (`GateInv`), and once that flush is done no line of an earlier stage is in the queue,
in the worker's hand or in the terminal, while it is being done none in the terminal (`LinesInv`).
That is why `tcflush` must come before the queue is emptied and the acknowledgement after both.
It gives `InputStaysInItsStage`. `ProductionInv` is `StageInv`'s argument for bno_app, with
`productionConfigured` and the set of stages that restored, and gives `SettlesInProduction`.

**BnoArchiveProofs.** `GateInv` ties clock, ticks, gates and the end of the window to each other: a gate
passed is a row or was skipped before one; while the window is open the age of the stage is at most the
ticks served, but for `late + slip` (`SleptClock` shows that a sleep keeps it so); and a window closed by its gates
has had the last of them. `EveryGateCounts` follows for every set of latenesses and lengths of turns. `RowInv`: what the owner knows of the group is of the last row or of the opening
of the window, and `arrived` counts what came since (`RowsAreHonest`). `QueueInv`: ring, batch and
file together hold the rows queued, in order and with the drops before each; a worker that has ended
without a failure has left none; the final name is given only after that
(`CompleteFilesAreWhole`). Division is reduced to lemmas about one gate after another
(`DivMod` and those after it), which keeps the arithmetic linear.

**TwgLogProofs.** `QueueInv`: the slots from `tail` to `head` hold their rows (`PublishedIntact`), also while
one more is being offered; the worker's position and the length of the file follow `tail`
until a write fails, and none is added afterwards; a verdict is given once the worker has ended. It gives
`LogIsPrefix`, `NoOverwrite` and `SuccessIsHonest`. Finding 2 is no contradiction: the row
lost there is still in the ring, and `SuccessMeansWritten` is about the rows the worker took.

**Ms5837Proofs.** *The driver.* `PhaseInv` says per driver state what holds of the handle,
`initialized`, the pair and the incident; `CountInv` adds the counters, with
`AttemptsPaid` relating attempts to incidents, which makes the bound
`MaxAttempts * incidents` inductive (`IncidentsAreAccounted`). `ChipDone` (in the waiting states the chip
needs no longer than the deadline) gives `NeverReadsEarly`. `DriverServesOwner`
proves the refinement of `PressureDriver`: `ViewInv` adds that a shut driver is
stopped and that a recovering one offers no sample, and `StepServes` takes each
action to a step of the contract or a stutter. So `Ms5App`, checked over the contract,
says something of the program with the real driver.

*The capture.* `ExitAgreesWithFile` reads the finished file; the invariant has to speak of it from the
first row on. `told` is the file, the row in the worker's hand and the queue, in that order: the worker only
moves rows along it, so only an accepted row changes it (`ToldKept`, `RowTold`). While no
write has failed, `Ledger` holds of it. `Ordered`: row n has number n, gates of a phase are
gapless with the skips told, the zero phase comes before the run, and no sample is told fresh twice, because the
publisher has seen every sample told (`FreshUpTo`). `Progress`: the last gate told is the last gate
passed, with the one about to be told in between, and rows of the run are told after a whole zero phase.
`Ending`: exit status 0 is decided only at the last gate of the run, or by a stop before a
phase's first gate, and exhaustion only after a row that says so. `Course` ties main, the
worker and the status to each other; its part that carries the end is that a worker that is done has been
told to stop and has left the queue empty, so that `told` is then the file, and that a
failed write shows in the exit status. A driver that has given up offers no
sample (`DriverHonest`). `Ledger` is lost when a write fails, and needs not be
inductive then. The property speaks of each row and its predecessor rather than of a sum over the
file: it says more about a wrong row, and what a fold gives when a row is appended would take induction over
data.

Model-checked only:

- liveness (`PlanSettled`, `StageEnds`, `QGetsOut`, `StopEndsRun`, `RowsReachFile`,
  `StopReturns`, `DriverSettles`, `CaptureEnds`): with fairness and ENABLED it is beyond
  the prover.

No module declares a RECURSIVE operator.

## 5. Not modelled

- **TWG terminal** (`twg_term.c`): its ring hands one key to a turn, and
  `TwgStage` takes any key in any turn; its flush is called by nothing in the
  program; the rest renders.
- **MS5837 arithmetic** (`ms5837_math.c`): products of 64 bits, beyond TLC's
  integers, and no control depends on their value.
- **Text**: CSV rows, metadata, CLIs, prompts, views, file naming. No state another
  component depends on.
- **HALs, priorities, affinity**: system calls. Their failures are choices of
  the models.
- **Start of the programs**: opening of files and devices before the loops of `bno_app` and
  `twg_app`; `twg_log_start`'s failure paths.
- **Validation rig and tests**: not deployed; read as evidence of what is meant.

## 6. Plan

1. The seam between `ImuSession` and the session of `ImuMachine`, as the one to `StagePump`: each call
   of the session a `Call`, its callbacks `ChipReset` and `Decode`. Today the two are read from the same
   lines.
2. Lemmas that more than one of the proof modules needs (division, appending to a file) in one place.
