------------------------------ MODULE ImuMachine ------------------------------
(***************************************************************************)
(* What the three command machines of bno/app have in common: the control  *)
(* state of the machine that serves the active stage (imu_cal.c,           *)
(* imu_tare.c and imu_check.c keep the same variables under the same       *)
(* names), the SH-2 session as their adapters see it, and the turn of the  *)
(* owner that drives them.                                                 *)
(*                                                                         *)
(* Time is a count of units.  left is what remains of the deadline of the  *)
(* current state (0 when it is due, or when the state has none); good is   *)
(* how long the current gate has passed.                                   *)
(***************************************************************************)
EXTENDS Integers, ImuCmdTypes

CONSTANTS
  Window,          \* duration of a timed state without a gate
  GateTimeout,     \* duration of a gate
  SustainedGood,   \* how long a gate must pass to be reached
  ProbeTime        \* deadline of a probe, from its start

ASSUME DurationsAssumption ==
  /\ Window \in Nat \ {0}
  /\ GateTimeout \in Nat \ {0}
  /\ SustainedGood \in Nat \ {0}
  /\ ProbeTime \in Nat \ {0}

VARIABLES
  identity,    \* the stage the machine serves
  st,          \* s_state
  pending,     \* s_pending.type
  left,        \* s_deadlineNs - s_nowNs
  good,        \* s_nowNs - s_goodSinceNs, or NotGood
  term,        \* s_termState and s_termWarning
  result,      \* s_result: state, warningRequired, restoredProduction
  facts,       \* s_facts, the facts last forwarded
  verified,    \* s_verified
  sess,        \* sState of the session; COMMAND is the stage's own mode
  reports,     \* the report set the chip streams
  epoch,       \* sEpoch
  mail,        \* the session's facts mailbox for this stage
  chip,        \* what the chip keeps: calibration, active and saved tare
  step         \* where the owner is in its turn

control == <<st, pending, left, good, term, result>>
evidence == <<facts, verified>>
session == <<sess, reports, epoch, mail, chip>>

Sensors == {"accel", "gyro", "mag"}
NotGood == -1
Outcome(r, restored) == [state |-> r.state, warning |-> r.warning, restored |-> restored]
Ended == result.state # "RUNNING"
Due == left = 0

(* A fact: whose epoch it is of, which accuracies are at the goal, and     *)
(* whether it was decoded in the frame the tare of this stage made.        *)
NoFact(e) == [epoch |-> e, valid |-> FALSE, at_goal |-> {}, tared |-> FALSE]

-----------------------------------------------------------------------------
(* enter_state, begin_restore and finish                                   *)

enter_state(s, duration) ==
  /\ st' = s
  /\ left' = duration
  /\ good' = NotGood

begin_restore(r) ==
  /\ enter_state("WAIT_RESTORE", 0)
  /\ pending' = "RESTORE"
  /\ term' = r
  /\ UNCHANGED result

finish(r, restored) ==
  /\ st' = "DONE"
  /\ pending' = "NONE"
  /\ result' = Outcome(r, restored)
  /\ UNCHANGED <<left, good, term>>

Move(s, duration, request) ==
  /\ enter_state(s, duration)
  /\ pending' = request
  /\ UNCHANGED <<term, result>>

(* gate_sustained: a gate that does not pass starts over.                  *)
GateClock(passing) == IF ~passing THEN NotGood ELSE IF good = NotGood THEN 0 ELSE good
Sustained(passing) == GateClock(passing) >= SustainedGood

WaitAtGate(passing) ==
  /\ good' = GateClock(passing)
  /\ UNCHANGED <<st, pending, left, term, result>>

-----------------------------------------------------------------------------
(* The session calls the adapters make.  A refused call changes nothing.   *)

LegalIn(request) ==
  CASE request \in {"CONFIGURE", "CLEAR_DCD"} -> {"CONFIGURING"}
    [] request \in {"VERIFY", "TARE_NOW", "PERSIST", "CLEAR_TARE"} -> {"COMMAND"}
    [] request = "RESTORE" -> {"COMMAND", "CONFIGURING"}
    [] request = "SAVE_DCD" -> {"CONFIGURING", "COMMAND", "RECOVERING", "FAULTED"}

Bump(n) ==
  /\ epoch' = epoch + n
  /\ mail' = IF n > 0 THEN NoFact(epoch + n) ELSE mail

(* A report set applied, or the session faulted part way through it.       *)
ApplySet(set, state, bumps, ok) ==
  /\ sess' = IF ok THEN state ELSE "FAULTED"
  /\ reports' = IF ok THEN set ELSE "unknown"
  /\ Bump(IF ok THEN bumps ELSE 0)
  /\ UNCHANGED chip

(* A check whose policy reads back different fails and stays in its mode.  *)
ConfigureMismatch ==
  /\ sess' = "COMMAND"
  /\ reports' = "command"
  /\ Bump(1)
  /\ UNCHANGED chip

ChipCommand(newChip, bumps, ok) ==
  /\ chip' = IF ok THEN newChip ELSE chip
  /\ Bump(IF ok THEN bumps ELSE 0)
  /\ UNCHANGED <<sess, reports>>

(* clear_dcd: the record is deleted, then the chip cleared and reset, then *)
(* the session recovered; each of the three may fail, and a refused call   *)
(* may have reset the chip all the same.                                   *)
ClearDcd(deleted, cleared, reopened, reset) ==
  /\ chip' = IF deleted THEN [chip EXCEPT !.dcd = "cleared"] ELSE chip
  /\ \/ /\ deleted /\ cleared
        /\ sess' = IF reopened THEN "CONFIGURING" ELSE "FAULTED"
        /\ reports' = "none"
        /\ Bump(1)
     \/ /\ ~(deleted /\ cleared)
        /\ reset
        /\ sess' = "RECOVERING"
        /\ reports' = "none"
        /\ Bump(1)
     \/ /\ ~(deleted /\ cleared)
        /\ ~reset
        /\ UNCHANGED <<sess, reports, epoch, mail>>

(* A restoration opens an epoch when reports were configured: in the       *)
(* command mode they are, after a recovery or a refused set they may not.  *)
RestoreBumps == IF sess = "COMMAND" THEN {1} ELSE {0, 1}

Call(request, ok) ==
  \/ /\ sess \notin LegalIn(request)
     /\ ~ok
     /\ UNCHANGED session
  \/ /\ sess \in LegalIn(request)
     /\ \/ /\ request \in {"CONFIGURE", "VERIFY"}
           /\ ApplySet("command", "COMMAND", 1, ok)
        \/ /\ request = "CONFIGURE"
           /\ identity \in Slot3
           /\ ~ok
           /\ ConfigureMismatch
        \/ /\ request = "RESTORE"
           /\ \E bumps \in RestoreBumps :
                ApplySet("production", "CONFIGURING", bumps, ok)
        \/ /\ request = "SAVE_DCD"
           /\ ChipCommand([chip EXCEPT !.dcd = "saved"], 0, ok)
        \/ /\ request = "TARE_NOW"
           /\ ChipCommand([chip EXCEPT !.active = "new"], 1, ok)
        \/ /\ request = "PERSIST"
           /\ ChipCommand([chip EXCEPT !.stored = chip.active], 0, ok)
        \/ /\ request = "CLEAR_TARE"
           /\ ChipCommand([chip EXCEPT !.active = "cleared", !.stored = "cleared"], 1, ok)
        \/ /\ request = "CLEAR_DCD"
           /\ \E deleted, cleared, reopened, reset \in BOOLEAN :
                /\ ClearDcd(deleted, cleared, reopened, reset)
                /\ ok = (deleted /\ cleared /\ reopened)

(* A reset seen while the session is serviced: one epoch, reader parked.   *)
ChipReset ==
  /\ step = "session"
  /\ ~Ended
  /\ sess # "RECOVERING"
  /\ sess' = "RECOVERING"
  /\ reports' = "none"
  /\ Bump(1)
  /\ UNCHANGED <<identity, control, evidence, chip, step>>

(* A report decoded in the stage's mode goes to its mailbox.               *)
Decode(at_goal) ==
  /\ step = "session"
  /\ ~Ended
  /\ sess = "COMMAND"
  /\ mail' = [epoch |-> epoch, valid |-> TRUE, at_goal |-> at_goal,
              tared |-> chip.active = "new"]
  /\ UNCHANGED <<identity, control, evidence, sess, reports, epoch, chip, step>>

-----------------------------------------------------------------------------
(* TICK                                                                    *)

tick(d) ==
  /\ left' = IF left > d THEN left - d ELSE 0
  /\ good' = IF good = NotGood THEN NotGood
             ELSE IF good + d < SustainedGood THEN good + d ELSE SustainedGood

InitBase(id) ==
  /\ identity = id
  /\ good = NotGood
  /\ term = Result("NOT_REQUESTED", FALSE)
  /\ result = Outcome(Result("RUNNING", FALSE), FALSE)
  /\ facts = NoFact(0)
  /\ verified = FALSE
  /\ sess = "CONFIGURING"
  /\ reports = "asFound"
  /\ epoch = 1
  /\ mail = NoFact(1)
  /\ chip = [dcd |-> "old", active |-> "old", stored |-> "old"]
  /\ step = "session"
=============================================================================
