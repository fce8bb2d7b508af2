-------------------------- MODULE ImuMachinesProofs --------------------------
(***************************************************************************)
(* What the three command machines keep for every duration and number of   *)
(* rounds: the results they end with, what a success says of the chip, the *)
(* epoch of what they judge, the state they leave the session in, and that *)
(* StagePump stands for them.                                              *)
(***************************************************************************)
EXTENDS ImuMachines, TLAPS

-----------------------------------------------------------------------------
(* The inductive invariant, in three parts: where the machine is, what it  *)
(* has done to the chip, and what it knows of the session.                 *)

CalVerify == {"WAIT_VERIFY", "VERIFY_PROMPT", "VERIFY_MOTION", "VERIFY_GATE"}
CalStates ==
  {"WAIT_CONFIG", "ACCEL_PROMPT", "ACCEL_WINDOW", "ACCEL_GATE", "GYRO_PROMPT", "GYRO_GATE",
   "MAG_PROMPT", "MAG_MOTION", "MAG_GATE", "HOLD_WINDOW", "HOLD_GATE", "WAIT_SAVE",
   "SAVE_RETRY_HOLD", "WAIT_RESTORE", "DONE"} \cup CalVerify

(* Every machine stays among the states of its stage.                      *)
StatesOfStage ==
  /\ identity \in Composed
  /\ identity = "CALIBRATION" => st \in CalStates
  /\ identity = "DCD_CLEAR" => st \in {"CLEAR_CONFIRM", "WAIT_CLEAR", "WAIT_RESTORE", "DONE"}
  /\ identity = "TARE" =>
       st \in {"WAIT_CONFIRM", "WAIT_CONFIG", "SETTLE", "WAIT_TARE_NOW", "WAIT_PERSIST",
               "VERIFY", "WAIT_RESTORE", "DONE"}
  /\ identity = "TARE_CLEAR" =>
       st \in {"WAIT_CONFIRM", "WAIT_CONFIG", "WAIT_CLEAR", "WAIT_RESTORE", "DONE"}
  /\ identity = "TARE_CHECK" => st \in {"WAIT_CONFIG", "CHECK", "WAIT_RESTORE", "DONE"}
  /\ identity \in Slot3 => st \in {"WAIT_CONFIG", "MONITOR", "WAIT_RESTORE", "DONE"}

(* The request a state waits for.                                          *)
RequestOf(s) ==
  CASE s = "WAIT_CONFIG" -> "CONFIGURE"
    [] s = "WAIT_VERIFY" -> "VERIFY"
    [] s = "WAIT_SAVE" -> "SAVE_DCD"
    [] s = "WAIT_TARE_NOW" -> "TARE_NOW"
    [] s = "WAIT_PERSIST" -> "PERSIST"
    [] s = "WAIT_CLEAR" -> IF identity = "DCD_CLEAR" THEN "CLEAR_DCD" ELSE "CLEAR_TARE"
    [] s = "WAIT_RESTORE" -> "RESTORE"
    [] OTHER -> "NONE"

(* A verdict held for the restore is one the machine may end with.         *)
ControlInv ==
  /\ StatesOfStage
  /\ pending = RequestOf(st)
  /\ Ended <=> st = "DONE"
  /\ st \in CalVerify \cup {"WAIT_RESTORE"} => term \in MachineResults(identity)
  /\ ResultPromised

Chips == [dcd : {"old", "saved", "cleared"}, active : {"old", "new", "cleared"},
          stored : {"old", "new", "cleared"}]
OldChip == [dcd |-> "old", active |-> "old", stored |-> "old"]
Mutators == Slot1 \cup {"TARE", "TARE_CLEAR"}

(* What a success claims of the chip.                                      *)
Achieved ==
  CASE identity = "CALIBRATION" -> chip.dcd = "saved" /\ s_dcdSaved /\ verified
    [] identity = "DCD_CLEAR" -> chip.dcd = "cleared"
    [] identity = "TARE" -> chip.active = "new" /\ chip.stored = "new" /\ verified
    [] identity = "TARE_CLEAR" -> chip.active = "cleared" /\ chip.stored = "cleared"
    [] OTHER -> FALSE

(* The progress of the chip follows the progress of the machine.           *)
ChipInv ==
  /\ chip \in Chips
  /\ identity \notin Mutators => chip = OldChip
  /\ s_dcdSaved => identity = "CALIBRATION" /\ chip.dcd = "saved"
  /\ st \in CalVerify /\ term.state = "SUCCEEDED" => s_dcdSaved
  /\ st \in {"WAIT_PERSIST", "VERIFY"} => chip.active = "new"
  /\ st = "VERIFY" => chip.stored = "new"
  /\ st = "WAIT_RESTORE" /\ term.state = "SUCCEEDED" => Achieved
  /\ result.state = "SUCCEEDED" => Achieved

(* Nothing has been asked of the session before the first answer.          *)
BeforeFirstRequest == {"WAIT_CONFIRM", "WAIT_CONFIG", "CLEAR_CONFIRM"}
                      \cup (IF identity = "DCD_CLEAR" THEN {"WAIT_CLEAR"} ELSE {})

FactsInv ==
  /\ epoch \in Nat
  /\ mail \in Facts
  /\ facts \in Facts
  /\ mail.epoch = epoch
  /\ mail.valid => mail.tared = (chip.active = "new")
  /\ s_haveEvidence =>
       /\ st \in {"VERIFY", "WAIT_RESTORE", "DONE"}
       /\ chip.active = "new"
       /\ sess = "COMMAND" => facts.tared /\ mail.valid /\ mail.tared
  /\ identity = "CALIBRATION" /\ step \in {"tick", "service"}
       /\ st \in CalGates \cup {"GYRO_PROMPT"} => facts.epoch = epoch
  /\ st \in BeforeFirstRequest => reports \in {"asFound", "none"}

MachineInv == ControlInv /\ ChipInv /\ FactsInv

-----------------------------------------------------------------------------
(* What a call of the session does                                         *)

(* The mailbox is always of the session's epoch, and says of the frame it  *)
(* was decoded in what the chip says now.                                  *)
MailInv ==
  /\ epoch \in Nat
  /\ mail \in Facts
  /\ mail.epoch = epoch
  /\ mail.valid => mail.tared = (chip.active = "new")

(* Emptying the mailbox for a new epoch.                                   *)
LEMMA BumpKeeps ==
  ASSUME MailInv, NEW n \in {0, 1}, Bump(n), n = 0 => chip'.active = chip.active
  PROVE  MailInv' /\ (mail'.valid => mail' = mail /\ epoch' = epoch)
<1>1. CASE n = 0
  <2>1. epoch' = epoch /\ mail' = mail
    BY <1>1 DEF Bump, MailInv
  <2> QED
    BY <1>1, <2>1 DEF MailInv
<1>2. CASE n = 1
  <2>1. epoch' = epoch + 1 /\ mail' = NoFact(epoch + 1)
    BY <1>2 DEF Bump
  <2>2. epoch + 1 \in Nat
    BY DEF MailInv
  <2> QED
    BY <2>1, <2>2 DEF MailInv, NoFact, Facts
<1> QED
  BY <1>1, <1>2

(* A call keeps the mailbox right and changes of the chip what it is for.  *)
LEMMA CallEffect ==
  ASSUME MailInv, chip \in Chips, NEW request \in Requests \ {"NONE"}, NEW ok \in BOOLEAN,
         Call(request, ok)
  PROVE  /\ MailInv'
         /\ chip' \in Chips
         /\ request \in {"CONFIGURE", "VERIFY", "RESTORE"} => chip' = chip
         /\ request \in {"SAVE_DCD", "PERSIST"} => chip'.active = chip.active
         /\ request = "SAVE_DCD" /\ ok => chip'.dcd = "saved"
         /\ request = "TARE_NOW" /\ ok => chip'.active = "new"
         /\ request = "PERSIST" /\ ok => chip'.stored = chip.active
         /\ request = "CLEAR_TARE" /\ ok => chip'.active = "cleared" /\ chip'.stored = "cleared"
         /\ request = "CLEAR_DCD" /\ ok => chip'.dcd = "cleared"
         /\ request = "RESTORE" =>
              /\ sess' # "COMMAND"
              /\ ok => sess' = "CONFIGURING" /\ reports' = "production"
<1> DEFINE Effect ==
       /\ MailInv'
       /\ chip' \in Chips
       /\ request \in {"CONFIGURE", "VERIFY", "RESTORE"} => chip' = chip
       /\ request \in {"SAVE_DCD", "PERSIST"} => chip'.active = chip.active
       /\ request = "SAVE_DCD" /\ ok => chip'.dcd = "saved"
       /\ request = "TARE_NOW" /\ ok => chip'.active = "new"
       /\ request = "PERSIST" /\ ok => chip'.stored = chip.active
       /\ request = "CLEAR_TARE" /\ ok => chip'.active = "cleared" /\ chip'.stored = "cleared"
       /\ request = "CLEAR_DCD" /\ ok => chip'.dcd = "cleared"
       /\ request = "RESTORE" =>
            /\ sess' # "COMMAND"
            /\ ok => sess' = "CONFIGURING" /\ reports' = "production"
<1>1. CASE sess \notin LegalIn(request) /\ ~ok /\ UNCHANGED session
  <2>1. UNCHANGED <<sess, reports, epoch, mail, chip>> /\ ~ok
    BY <1>1 DEF session
  <2>2. request = "RESTORE" => sess # "COMMAND"
    BY <1>1 DEF LegalIn
  <2> QED
    BY <2>1, <2>2 DEF MailInv
<1>2. CASE request \in {"CONFIGURE", "VERIFY"} /\ ApplySet("command", "COMMAND", 1, ok)
  <2>1. MailInv' /\ chip' = chip
    BY <1>2, BumpKeeps DEF ApplySet
  <2> QED
    BY <1>2, <2>1
<1>3. CASE request = "CONFIGURE" /\ ConfigureMismatch
  <2>1. MailInv' /\ chip' = chip
    BY <1>3, BumpKeeps DEF ConfigureMismatch
  <2> QED
    BY <1>3, <2>1
<1>4. CASE /\ request = "RESTORE"
           /\ \E bumps \in RestoreBumps : ApplySet("production", "CONFIGURING", bumps, ok)
  <2>1. PICK bumps \in {0, 1} : ApplySet("production", "CONFIGURING", bumps, ok)
    BY <1>4 DEF RestoreBumps
  <2>2. MailInv' /\ chip' = chip
    BY <2>1, BumpKeeps DEF ApplySet
  <2> QED
    BY <1>4, <2>1, <2>2 DEF ApplySet
<1>5. CASE /\ request = "SAVE_DCD"
           /\ ChipCommand([chip EXCEPT !.dcd = "saved"], 0, ok)
  <2>1. chip' \in Chips /\ chip'.active = chip.active /\ (ok => chip'.dcd = "saved")
    BY <1>5 DEF ChipCommand, Chips
  <2>2. MailInv'
    BY <1>5, <2>1, BumpKeeps DEF ChipCommand
  <2> QED
    BY <1>5, <2>1, <2>2
<1>6. CASE /\ request = "TARE_NOW"
           /\ ChipCommand([chip EXCEPT !.active = "new"], 1, ok)
  <2>1. /\ chip' \in Chips
        /\ ok => chip'.active = "new"
        /\ ~ok => chip'.active = chip.active
    BY <1>6 DEF ChipCommand, Chips
  <2>2. MailInv'
    BY <1>6, <2>1, BumpKeeps DEF ChipCommand
  <2> QED
    BY <1>6, <2>1, <2>2
<1>7. CASE /\ request = "PERSIST"
           /\ ChipCommand([chip EXCEPT !.stored = chip.active], 0, ok)
  <2>1. /\ chip' \in Chips /\ chip'.active = chip.active
        /\ ok => chip'.stored = chip.active
    BY <1>7 DEF ChipCommand, Chips
  <2>2. MailInv'
    BY <1>7, <2>1, BumpKeeps DEF ChipCommand
  <2> QED
    BY <1>7, <2>1, <2>2
<1>8. CASE /\ request = "CLEAR_TARE"
           /\ ChipCommand([chip EXCEPT !.active = "cleared", !.stored = "cleared"], 1, ok)
  <2>1. /\ chip' \in Chips
        /\ ok => chip'.active = "cleared" /\ chip'.stored = "cleared"
        /\ ~ok => chip'.active = chip.active
    BY <1>8 DEF ChipCommand, Chips
  <2>2. MailInv'
    BY <1>8, <2>1, BumpKeeps DEF ChipCommand
  <2> QED
    BY <1>8, <2>1, <2>2
<1>9. ASSUME request = "CLEAR_DCD",
             NEW deleted \in BOOLEAN, NEW cleared \in BOOLEAN,
             NEW reopened \in BOOLEAN, NEW reset \in BOOLEAN,
             ClearDcd(deleted, cleared, reopened, reset),
             ok = (deleted /\ cleared /\ reopened)
      PROVE  Effect
  <2>1. /\ chip' \in Chips /\ chip'.active = chip.active
        /\ deleted => chip'.dcd = "cleared"
    BY <1>9 DEF ClearDcd, Chips
  <2>2. MailInv'
    BY <1>9, <2>1, BumpKeeps DEF ClearDcd, MailInv
  <2> QED
    BY <1>9, <2>1, <2>2
<1>10. Effect
  <2>1. CASE sess \notin LegalIn(request)
    BY <2>1, <1>1 DEF Call
  <2>2. CASE sess \in LegalIn(request)
    BY <2>2, <1>2, <1>3, <1>4, <1>5, <1>6, <1>7, <1>8, <1>9 DEF Call
  <2> QED
    BY <2>1, <2>2
<1> QED
  BY <1>10

-----------------------------------------------------------------------------
(* The shapes of a step                                                    *)

KeepsPlace == UNCHANGED <<st, pending, term, result>>

MovesOn ==
  /\ st \notin {"VERIFY", "WAIT_RESTORE", "DONE"}
  /\ st' \notin {"WAIT_RESTORE", "DONE"}
  /\ StatesOfStage'
  /\ pending' = RequestOf(st)'
  /\ UNCHANGED <<term, result>>

Restores(r) ==
  /\ st \notin {"WAIT_RESTORE", "DONE"}
  /\ st' = "WAIT_RESTORE"
  /\ pending' = "RESTORE"
  /\ term' = r
  /\ UNCHANGED result

Finishes(r, restored) ==
  /\ st # "DONE"
  /\ st' = "DONE"
  /\ pending' = "NONE"
  /\ result' = Outcome(r, restored)
  /\ UNCHANGED term

(* A step without a call of the session: q, confirm or a service.          *)
LocalShape(r) ==
  \/ KeepsPlace /\ UNCHANGED verified
  \/ /\ MovesOn
     /\ st' \in CalVerify => st \in CalVerify
     /\ st' \notin {"WAIT_PERSIST", "VERIFY"}
     /\ st' \in BeforeFirstRequest => st \in BeforeFirstRequest
     /\ UNCHANGED verified
  \/ Restores(r) /\ (r.state = "SUCCEEDED" => Achieved')
  \/ /\ Finishes(r, FALSE)
     /\ st \in BeforeFirstRequest
     /\ r.state # "SUCCEEDED"
     /\ UNCHANGED verified

(* What the two action properties say of one step.                         *)
RestoreStep ==
  ~Ended /\ Ended' =>
    \/ result'.state = "RECOVERY_FAILED" /\ ~result'.restored
    \/ result'.restored /\ sess' = "CONFIGURING" /\ reports' = "production"
    \/ ~result'.restored /\ reports' \in {"asFound", "none"} /\ chip' = chip

VerdictStep ==
  st = "WAIT_RESTORE" =>
    /\ st' \in {"WAIT_RESTORE", "DONE"}
    /\ term' = term
    /\ Ended' => result'.state \in {term.state, "RECOVERY_FAILED"}

(* Every machine may fail, and none ends with a state that is not final.   *)
LEMMA ResultsOfMachines ==
  ASSUME NEW id \in Composed
  PROVE  /\ Result("FAILED", TRUE) \in MachineResults(id)
         /\ Result("RECOVERY_FAILED", TRUE) \in MachineResults(id)
         /\ \A r \in MachineResults(id) :
              /\ r = Result(r.state, r.warning)
              /\ r.state \in Terminal
              /\ r.warning \in BOOLEAN
<1>1. \A state, warning :
        /\ Result(state, warning).state = state
        /\ Result(state, warning).warning = warning
  BY DEF Result
<1>2. SUFFICES ASSUME NEW r \in MachineResults(id)
               PROVE  /\ r = Result(r.state, r.warning)
                      /\ r.state \in Terminal
                      /\ r.warning \in BOOLEAN
  BY DEF MachineResults
<1>3. PICK state \in Terminal, warning \in BOOLEAN : r = Result(state, warning)
  BY DEF MachineResults, Terminal
<1> QED
  BY <1>1, <1>3

(* A result the machine promised may be written down.                      *)
LEMMA ControlKept ==
  ASSUME ControlInv, identity' = identity, NEW r \in MachineResults(identity),
         NEW restored \in BOOLEAN,
         \/ KeepsPlace
         \/ MovesOn /\ (st' \in CalVerify => st \in CalVerify)
         \/ Restores(r)
         \/ Finishes(r, restored)
  PROVE  ControlInv'
<1>1. identity \in Composed
  BY DEF ControlInv, StatesOfStage
<1>2. /\ r = Result(r.state, r.warning) /\ r.state \in Terminal
      /\ r.state # "RUNNING"
  BY <1>1, ResultsOfMachines DEF Terminal
<1>3. CASE KeepsPlace
  BY <1>3 DEF KeepsPlace, ControlInv, StatesOfStage, RequestOf, Ended, ResultPromised
<1>4. CASE MovesOn /\ (st' \in CalVerify => st \in CalVerify)
  <2>1. ~Ended /\ ~Ended' /\ st' # "DONE"
    BY <1>4 DEF MovesOn, ControlInv, Ended
  <2>2. st' \in CalVerify \cup {"WAIT_RESTORE"} => term' \in MachineResults(identity)
    BY <1>4 DEF MovesOn, ControlInv
  <2> QED
    BY <1>4, <2>1, <2>2 DEF MovesOn, ControlInv, ResultPromised
<1>5. CASE Restores(r)
  <2>1. ~Ended /\ ~Ended' /\ st' = "WAIT_RESTORE"
    BY <1>5 DEF Restores, ControlInv, Ended
  <2>2. StatesOfStage'
    BY <1>1, <1>5 DEF Restores, StatesOfStage, CalStates, Composed, Slot1, Slot2, Slot3
  <2>3. pending' = RequestOf(st)'
    BY <1>5 DEF Restores, RequestOf
  <2> QED
    BY <1>5, <2>1, <2>2, <2>3 DEF Restores, ControlInv, ResultPromised
<1>6. CASE Finishes(r, restored)
  <2>1. Ended' /\ st' = "DONE" /\ result'.state = r.state /\ result'.warning = r.warning
    BY <1>2, <1>6 DEF Finishes, Ended, Outcome
  <2>2. StatesOfStage'
    BY <1>1, <1>6 DEF Finishes, StatesOfStage, CalStates, Composed, Slot1, Slot2, Slot3
  <2>3. pending' = RequestOf(st)'
    BY <1>6 DEF Finishes, RequestOf
  <2>4. st' \notin CalVerify \cup {"WAIT_RESTORE"}
    BY <2>1 DEF CalVerify
  <2> QED
    BY <1>2, <2>1, <2>2, <2>3, <2>4 DEF ControlInv, ResultPromised
<1> QED
  BY <1>3, <1>4, <1>5, <1>6

(* Steps without a call keep the invariant and the two action properties.  *)
LEMMA LocalKeeps ==
  ASSUME MachineInv,
         UNCHANGED <<identity, facts, session, s_dcdSaved, s_haveEvidence>>,
         \/ step' = "session"
         \/ /\ step' = step
            /\ st' \in CalGates \cup {"GYRO_PROMPT"} => st \in CalGates \cup {"GYRO_PROMPT"},
         NEW r \in MachineResults(identity), LocalShape(r)
  PROVE  MachineInv' /\ RestoreStep /\ VerdictStep
<1>1. ControlInv'
  BY ControlKept DEF LocalShape, MachineInv
<1>2. UNCHANGED <<sess, reports, epoch, mail, chip>>
  BY DEF session
<1>3. st \in {"VERIFY", "WAIT_RESTORE", "DONE"} => st' \in {"VERIFY", "WAIT_RESTORE", "DONE"}
  BY DEF LocalShape, KeepsPlace, MovesOn, Restores, Finishes
<1>4. st' \in BeforeFirstRequest' => st \in BeforeFirstRequest
  BY DEF LocalShape, KeepsPlace, Restores, Finishes, BeforeFirstRequest
<1>5. FactsInv'
  BY <1>2, <1>3, <1>4 DEF MachineInv, FactsInv
<1>6. ChipInv'
  <2>1. CASE KeepsPlace /\ UNCHANGED verified
    BY <1>2, <2>1 DEF KeepsPlace, MachineInv, ChipInv, Achieved
  <2>2. CASE /\ MovesOn
             /\ st' \in CalVerify => st \in CalVerify
             /\ st' \notin {"WAIT_PERSIST", "VERIFY"}
             /\ UNCHANGED verified
    BY <1>2, <2>2 DEF MovesOn, MachineInv, ChipInv, Achieved
  <2>3. CASE Restores(r) /\ (r.state = "SUCCEEDED" => Achieved')
    <3>1. result'.state # "SUCCEEDED" /\ st' = "WAIT_RESTORE" /\ term' = r
      BY <2>3 DEF Restores, MachineInv, ControlInv, Ended
    <3> QED
      BY <1>2, <2>3, <3>1 DEF MachineInv, ChipInv, CalVerify
  <2>4. CASE Finishes(r, FALSE) /\ r.state # "SUCCEEDED"
    <3>1. result'.state # "SUCCEEDED" /\ st' = "DONE"
      BY <2>4 DEF Finishes, Outcome
    <3> QED
      BY <1>2, <3>1 DEF MachineInv, ChipInv, CalVerify
  <2> QED
    BY <2>1, <2>2, <2>3, <2>4 DEF LocalShape
<1>7. RestoreStep
  <2> SUFFICES ASSUME ~Ended, Ended'
               PROVE  ~result'.restored /\ reports' \in {"asFound", "none"} /\ chip' = chip
    BY DEF RestoreStep
  <2>1. Finishes(r, FALSE) /\ st \in BeforeFirstRequest
    BY DEF LocalShape, KeepsPlace, MovesOn, Restores, Ended
  <2> QED
    BY <1>2, <2>1 DEF Finishes, Outcome, MachineInv, FactsInv
<1>8. VerdictStep
  <2> SUFFICES ASSUME st = "WAIT_RESTORE"
               PROVE  st' = st /\ term' = term /\ ~Ended'
    BY DEF VerdictStep
  <2>1. KeepsPlace
    BY DEF LocalShape, MovesOn, Restores, BeforeFirstRequest
  <2> QED
    BY <2>1 DEF KeepsPlace, MachineInv, ControlInv, Ended
<1> QED
  BY <1>1, <1>5, <1>6, <1>7, <1>8 DEF MachineInv

-----------------------------------------------------------------------------
(* The steps without a call, machine by machine                            *)

(* q ends a stage that has asked for nothing, and restores from any other. *)
LEMMA CalQ ==
  ASSUME MachineInv, identity \in Slot1, UNCHANGED identity, cal_post_q
  PROVE  \E r \in MachineResults(identity) : LocalShape(r)
<1>1. Result("CANCELLED", TRUE) \in MachineResults(identity)
  BY DEF MachineResults
<1>2. Result("CANCELLED", TRUE).state # "SUCCEEDED" /\ UNCHANGED verified
  BY DEF Result, cal_post_q, evidence
<1>3. CASE identity = "DCD_CLEAR" /\ st \in {"CLEAR_CONFIRM", "WAIT_CLEAR"}
  <2>1. finish(Result("CANCELLED", TRUE), FALSE)
    BY <1>3 DEF cal_post_q
  <2>2. Finishes(Result("CANCELLED", TRUE), FALSE) /\ st \in BeforeFirstRequest
    BY <1>3, <2>1 DEF finish, Finishes, BeforeFirstRequest
  <2> QED
    BY <1>1, <1>2, <2>2 DEF LocalShape
<1>4. CASE identity = "CALIBRATION" /\ st \notin {"WAIT_RESTORE", "DONE"}
  <2>1. begin_restore(Result("CANCELLED", TRUE))
    BY <1>4 DEF cal_post_q
  <2>2. Restores(Result("CANCELLED", TRUE))
    BY <1>4, <2>1 DEF begin_restore, enter_state, Restores
  <2> QED
    BY <1>1, <1>2, <2>2 DEF LocalShape
<1> QED
  BY <1>3, <1>4 DEF cal_post_q

(* A confirm leads from a prompt to what it prompts for.                   *)
LEMMA CalConfirm ==
  ASSUME MachineInv, identity \in Slot1, UNCHANGED identity, cal_post_confirm
  PROVE  /\ \E r \in MachineResults(identity) : LocalShape(r)
         /\ st' \in CalGates \cup {"GYRO_PROMPT"} => st = "GYRO_PROMPT"
<1>1. Result("FAILED", TRUE) \in MachineResults(identity)
  BY DEF MachineResults
<1>2. UNCHANGED <<term, result, verified>>
  BY DEF cal_post_confirm, Move, evidence
<1>3. CASE st = "CLEAR_CONFIRM"
  <2>1. st' = "WAIT_CLEAR" /\ pending' = "CLEAR_DCD" /\ identity = "DCD_CLEAR"
    BY <1>3 DEF cal_post_confirm, MachineInv, ControlInv, StatesOfStage, CalStates, CalVerify,
                Slot1
  <2>2. MovesOn
    BY <1>2, <1>3, <2>1 DEF MovesOn, StatesOfStage, Composed, Slot1, Slot2, Slot3, RequestOf
  <2> QED
    BY <1>1, <1>2, <1>3, <2>1, <2>2
    DEF LocalShape, BeforeFirstRequest, CalVerify, CalGates
<1>4. CASE st # "CLEAR_CONFIRM"
  <2>1. /\ <<st, st'>> \in {<<"ACCEL_PROMPT", "ACCEL_WINDOW">>, <<"GYRO_PROMPT", "GYRO_GATE">>,
                            <<"MAG_PROMPT", "MAG_MOTION">>, <<"VERIFY_PROMPT", "VERIFY_MOTION">>}
        /\ pending' = pending
    BY <1>4 DEF cal_post_confirm, Move, enter_state
  <2>2. identity = "CALIBRATION" /\ pending = "NONE"
    BY <2>1 DEF MachineInv, ControlInv, StatesOfStage, RequestOf, Slot1
  <2>3. MovesOn
    BY <1>2, <2>1, <2>2 DEF MovesOn, StatesOfStage, Composed, Slot1, Slot2, Slot3, RequestOf,
                            CalStates, CalVerify
  <2> QED
    BY <1>1, <1>2, <2>1, <2>3 DEF LocalShape, BeforeFirstRequest, CalVerify, CalGates
<1> QED
  BY <1>3, <1>4

(* A turn of the calibration machine.                                      *)
LEMMA CalService ==
  ASSUME MachineInv, identity \in Slot1, UNCHANGED <<identity, chip>>, imu_cal_service
  PROVE  \E r \in MachineResults(identity) : LocalShape(r)
<1> DEFINE F == Result("FAILED", TRUE)
<1>1. F \in MachineResults(identity) /\ F.state # "SUCCEEDED"
  BY DEF MachineResults, Result
<1>2. s_dcdSaved' = s_dcdSaved
  BY DEF imu_cal_service
<1>3. CASE NothingDue
  BY <1>1, <1>3 DEF NothingDue, control, LocalShape, KeepsPlace
<1>4. ASSUME NEW s \in CalStates, NEW t \in CalStates,
             st = s, s \notin {"WAIT_RESTORE", "DONE", "WAIT_CONFIG", "WAIT_SAVE", "WAIT_VERIFY"},
             st' = t, t \notin {"WAIT_RESTORE", "DONE", "WAIT_CONFIG", "WAIT_VERIFY"},
             t \in CalVerify => s \in CalVerify,
             pending' = IF t = "WAIT_SAVE" THEN "SAVE_DCD" ELSE "NONE",
             UNCHANGED <<term, result, verified>>
      PROVE  LocalShape(F)
  <2>1. identity = "CALIBRATION"
    BY <1>4 DEF MachineInv, ControlInv, StatesOfStage, CalStates, CalVerify, Slot1
  <2>2. StatesOfStage'
    BY <1>4, <2>1 DEF StatesOfStage, Composed, Slot1, Slot2, Slot3
  <2>3. pending' = RequestOf(st)'
    BY <1>4 DEF RequestOf, CalStates, CalVerify
  <2>4. /\ s # "VERIFY" /\ t \notin {"WAIT_PERSIST", "VERIFY"}
        /\ st' \notin BeforeFirstRequest
    BY <1>4, <2>1 DEF CalStates, CalVerify, BeforeFirstRequest
  <2> QED
    BY <1>4, <2>2, <2>3, <2>4 DEF LocalShape, MovesOn
<1>5. ASSUME st \in CalGates, begin_restore(F), UNCHANGED verified
      PROVE  LocalShape(F)
  BY <1>1, <1>5 DEF begin_restore, enter_state, LocalShape, Restores, CalGates
<1>6. ASSUME NEW p, WaitAtGate(p), UNCHANGED verified
      PROVE  LocalShape(F)
  BY <1>6 DEF WaitAtGate, LocalShape, KeepsPlace
<1>7. st \in CalGates \cup TimedStates => pending = "NONE" /\ st \in CalStates
  BY DEF CalGates, TimedStates, MachineInv, ControlInv, RequestOf, CalStates, CalVerify
<1>8. CASE UNCHANGED verified /\ (AccelWindow \/ AccelGate \/ GyroGate)
  BY <1>1, <1>4, <1>6, <1>7, <1>8
  DEF AccelWindow, AccelGate, GyroGate, AccelPrompt, begin_outer_attempt, begin_mag_round,
      Move, enter_state, CalGates, TimedStates, CalStates, CalVerify
<1>9. CASE UNCHANGED verified /\ (MagMotion \/ MagGate \/ HoldWindow \/ HoldGate)
  BY <1>1, <1>4, <1>5, <1>6, <1>7, <1>9
  DEF MagMotion, MagGate, HoldWindow, HoldGate, begin_outer_attempt, begin_mag_round,
      Move, enter_state, CalGates, TimedStates, CalStates, CalVerify
<1>10. CASE UNCHANGED verified /\ (SaveRetryHold \/ VerifyMotion)
  BY <1>1, <1>4, <1>7, <1>10
  DEF SaveRetryHold, VerifyMotion, Move, enter_state, TimedStates, CalStates, CalVerify
<1>11. CASE VerifyGate
  <2>1. CASE Sustained(gate_verify)
    <3>1. st = "VERIFY_GATE" /\ verified' = TRUE /\ begin_restore(term)
      BY <1>11, <2>1 DEF VerifyGate
    <3>2. term \in MachineResults(identity) /\ (term.state = "SUCCEEDED" => s_dcdSaved)
      BY <3>1 DEF MachineInv, ControlInv, ChipInv, CalVerify
    <3>3. identity = "CALIBRATION" /\ (s_dcdSaved => chip.dcd = "saved")
      BY <3>1 DEF MachineInv, ControlInv, StatesOfStage, ChipInv, Slot1
    <3>4. Restores(term)
      BY <3>1 DEF begin_restore, enter_state, Restores
    <3>5. term.state = "SUCCEEDED" => Achieved'
      BY <1>2, <3>1, <3>2, <3>3 DEF Achieved
    <3> QED
      BY <3>2, <3>4, <3>5 DEF LocalShape
  <2>2. CASE ~Sustained(gate_verify)
    BY <1>1, <1>5, <1>6, <1>11, <2>2 DEF VerifyGate, CalGates
  <2> QED
    BY <2>1, <2>2
<1> QED
  BY <1>3, <1>8, <1>9, <1>10, <1>11 DEF imu_cal_service

(* q before the first request ends the stage, later it restores.           *)
LEMMA TareQ ==
  ASSUME MachineInv, identity \in Slot2, UNCHANGED identity, tare_post_q
  PROVE  \E r \in MachineResults(identity) : LocalShape(r)
<1> DEFINE C == Result("CANCELLED", q_sets_warning)
<1>1. C \in MachineResults(identity) /\ C.state # "SUCCEEDED"
  <2>1. CASE identity = "TARE_CHECK"
    <3>1. q_sets_warning = FALSE
      BY <2>1 DEF q_sets_warning
    <3> QED
      BY <2>1, <3>1 DEF MachineResults, Result, Slot1
  <2>2. CASE identity \in {"TARE", "TARE_CLEAR"}
    <3>1. q_sets_warning = TRUE
      BY <2>2 DEF q_sets_warning
    <3> QED
      BY <2>2, <3>1 DEF MachineResults, Result
  <2> QED
    BY <2>1, <2>2 DEF Slot2
<1>2. UNCHANGED verified
  BY DEF tare_post_q, evidence
<1>3. CASE st \in Untouched /\ finish(C, FALSE)
  BY <1>1, <1>2, <1>3 DEF finish, Untouched, Finishes, BeforeFirstRequest, LocalShape
<1>4. CASE QRestores /\ begin_restore(C)
  BY <1>1, <1>2, <1>4 DEF begin_restore, enter_state, QRestores, Restores, LocalShape
<1> QED
  BY <1>3, <1>4 DEF tare_post_q

(* A confirm lets the tare ask for its report set.                         *)
LEMMA TareConfirm ==
  ASSUME MachineInv, identity \in Slot2, UNCHANGED identity, tare_post_confirm
  PROVE  /\ \E r \in MachineResults(identity) : LocalShape(r)
         /\ st' \notin CalGates \cup {"GYRO_PROMPT"}
<1>1. Result("FAILED", TRUE) \in MachineResults(identity)
  BY DEF MachineResults
<1>2. /\ st = "WAIT_CONFIRM" /\ st' = "WAIT_CONFIG" /\ pending' = "CONFIGURE"
      /\ UNCHANGED <<term, result, verified>>
  BY DEF tare_post_confirm, Move, enter_state, evidence
<1>3. StatesOfStage' /\ pending' = RequestOf(st)'
  BY <1>2 DEF StatesOfStage, Composed, Slot1, Slot2, Slot3, RequestOf
<1>4. MovesOn /\ st' \notin CalVerify /\ st \in BeforeFirstRequest
  BY <1>2, <1>3 DEF MovesOn, CalVerify, BeforeFirstRequest
<1> QED
  BY <1>1, <1>2, <1>4 DEF LocalShape, CalGates

(* A turn of the tare machine.                                             *)
LEMMA TareService ==
  ASSUME MachineInv, identity \in Slot2, UNCHANGED <<identity, chip>>, imu_tare_service
  PROVE  \E r \in MachineResults(identity) : LocalShape(r)
<1> DEFINE F == Result("FAILED", TRUE)
           S == Result("SUCCEEDED", FALSE)
<1>1. F \in MachineResults(identity) /\ F.state # "SUCCEEDED"
  BY DEF MachineResults, Result
<1>2. S \in MachineResults(identity)
  BY DEF MachineResults, Slot2, Slot3
<1>3. CASE st = "SETTLE" /\ Move("WAIT_TARE_NOW", 0, "TARE_NOW") /\ UNCHANGED verified
  <2>1. identity = "TARE"
    BY <1>3 DEF MachineInv, ControlInv, StatesOfStage, Slot2
  <2>2. StatesOfStage' /\ pending' = RequestOf(st)'
    BY <1>3, <2>1 DEF Move, enter_state, StatesOfStage, Composed, Slot1, Slot2, Slot3, RequestOf
  <2>3. MovesOn /\ st' = "WAIT_TARE_NOW" /\ st' \notin BeforeFirstRequest
    BY <1>3, <2>1, <2>2 DEF Move, enter_state, MovesOn, BeforeFirstRequest
  <2> QED
    BY <1>1, <1>3, <2>3 DEF LocalShape, CalVerify
<1>4. CASE /\ st = "VERIFY"
           /\ verified' = s_haveEvidence
           /\ begin_restore(IF s_haveEvidence THEN S ELSE F)
  <2>1. /\ identity = "TARE" /\ chip'.active = "new" /\ chip'.stored = "new"
    BY <1>4 DEF MachineInv, ControlInv, StatesOfStage, ChipInv, Slot2
  <2>2. CASE s_haveEvidence
    BY <1>2, <1>4, <2>1, <2>2 DEF begin_restore, enter_state, Restores, LocalShape, Achieved
  <2>3. CASE ~s_haveEvidence
    BY <1>1, <1>4, <2>3 DEF begin_restore, enter_state, Restores, LocalShape
  <2> QED
    BY <2>2, <2>3
<1>5. CASE UNCHANGED <<control, verified>>
  BY <1>1, <1>5 DEF control, LocalShape, KeepsPlace
<1> QED
  BY <1>3, <1>4, <1>5 DEF imu_tare_service

(* q ends a check that has asked for nothing, and restores from MONITOR.   *)
LEMMA CheckQ ==
  ASSUME MachineInv, identity \in Slot3, UNCHANGED identity, check_post_q
  PROVE  \E r \in MachineResults(identity) : LocalShape(r)
<1> DEFINE C == Result("CANCELLED", FALSE)
<1>1. C \in MachineResults(identity) /\ C.state # "SUCCEEDED"
  BY DEF MachineResults, Result, Slot1, Slot3
<1>2. UNCHANGED verified
  BY DEF check_post_q, evidence
<1>3. CASE st = "WAIT_CONFIG" /\ finish(C, FALSE)
  BY <1>1, <1>2, <1>3 DEF finish, Finishes, BeforeFirstRequest, LocalShape
<1>4. CASE /\ st = "MONITOR"
           /\ st' = "WAIT_RESTORE" /\ pending' = "RESTORE" /\ term' = C
           /\ UNCHANGED result
  BY <1>1, <1>2, <1>4 DEF Restores, LocalShape
<1> QED
  BY <1>3, <1>4 DEF check_post_q

(* A turn of the check machine; only a probe runs out of time.             *)
LEMMA CheckService ==
  ASSUME MachineInv, identity \in Slot3, UNCHANGED <<identity, chip>>, imu_check_service
  PROVE  \E r \in MachineResults(identity) : LocalShape(r)
<1> DEFINE F == Result("FAILED", TRUE)
           T == Result("TIMED_OUT", FALSE)
<1>1. F \in MachineResults(identity)
  BY DEF MachineResults
<1>2. UNCHANGED verified
  BY DEF imu_check_service, evidence
<1>3. CASE UNCHANGED <<st, pending, term, result>>
  BY <1>1, <1>2, <1>3 DEF LocalShape, KeepsPlace
<1>4. CASE /\ st = "MONITOR" /\ DeadlinePassed
           /\ st' = "WAIT_RESTORE" /\ pending' = "RESTORE" /\ term' = T
           /\ UNCHANGED result
  <2>1. T \in MachineResults(identity) /\ T.state # "SUCCEEDED"
    BY <1>4 DEF DeadlinePassed, MachineResults, Result
  <2> QED
    BY <1>4, <2>1 DEF Restores, LocalShape
<1> QED
  BY <1>3, <1>4 DEF imu_check_service, control

-----------------------------------------------------------------------------
(* The pump: facts, then a call of the session and its answer              *)

(* What a pump keeps, whatever the machine.                                *)
PumpGoal == MachineInv' /\ RestoreStep /\ VerdictStep

(* The answer to a restore is the end of the stage.                        *)
LEMMA RestoreAnswerEnds ==
  ASSUME MachineInv, identity' = identity, NEW ok \in BOOLEAN,
         pending = "RESTORE", Call(pending, ok),
         \/ ok /\ finish(term, TRUE)
         \/ ~ok /\ finish(Result("RECOVERY_FAILED", TRUE), FALSE),
         UNCHANGED <<verified, s_dcdSaved, s_haveEvidence>>,
         facts' \in {facts, mail},
         step' = "tick"
  PROVE  PumpGoal
<1>1. st = "WAIT_RESTORE" /\ term \in MachineResults(identity)
  BY DEF MachineInv, ControlInv, StatesOfStage, RequestOf, CalStates, CalVerify
<1>2. Result("RECOVERY_FAILED", TRUE) \in MachineResults(identity)
  BY DEF MachineResults
<1>3. /\ MailInv' /\ chip' = chip /\ sess' # "COMMAND"
      /\ ok => sess' = "CONFIGURING" /\ reports' = "production"
  BY CallEffect DEF MachineInv, ChipInv, FactsInv, MailInv, Requests
<1>4. CASE ok /\ finish(term, TRUE)
  <2>1. Finishes(term, TRUE)
    BY <1>1, <1>4 DEF finish, Finishes
  <2>2. ControlInv'
    BY <1>1, <2>1, ControlKept DEF MachineInv
  <2>3. result'.state = term.state /\ result'.restored /\ st' = "DONE"
    BY <2>1 DEF Finishes, Outcome
  <2>4. ChipInv'
    BY <1>1, <1>3, <2>3 DEF MachineInv, ChipInv, Achieved, CalVerify
  <2>5. FactsInv'
    BY <1>1, <1>3, <2>3
    DEF MachineInv, FactsInv, MailInv, CalGates, BeforeFirstRequest
  <2>6. RestoreStep /\ VerdictStep
    BY <1>1, <1>3, <1>4, <2>1, <2>3 DEF RestoreStep, VerdictStep, Finishes
  <2> QED
    BY <2>2, <2>4, <2>5, <2>6 DEF PumpGoal, MachineInv
<1>5. CASE ~ok /\ finish(Result("RECOVERY_FAILED", TRUE), FALSE)
  <2>1. Finishes(Result("RECOVERY_FAILED", TRUE), FALSE)
    BY <1>1, <1>5 DEF finish, Finishes
  <2>2. ControlInv'
    BY <1>2, <2>1, ControlKept DEF MachineInv
  <2>3. result'.state = "RECOVERY_FAILED" /\ ~result'.restored /\ st' = "DONE"
    BY <2>1 DEF Finishes, Outcome, Result
  <2>4. ChipInv'
    BY <1>3, <2>3 DEF MachineInv, ChipInv, CalVerify
  <2>5. FactsInv'
    BY <1>1, <1>3, <2>3
    DEF MachineInv, FactsInv, MailInv, CalGates, BeforeFirstRequest
  <2>6. RestoreStep /\ VerdictStep
    BY <1>1, <2>1, <2>3 DEF RestoreStep, VerdictStep, Finishes
  <2> QED
    BY <2>2, <2>4, <2>5, <2>6 DEF PumpGoal, MachineInv
<1> QED
  BY <1>4, <1>5

(* The save is over: this session is verified, the verdict is known.       *)
Verifies(r) ==
  /\ st = "WAIT_SAVE"
  /\ st' = "WAIT_VERIFY"
  /\ pending' = "VERIFY"
  /\ term' = r
  /\ UNCHANGED result

(* The answer to any other request.                                        *)
AnswerShape(r) ==
  \/ MovesOn /\ (st' \in CalVerify => st \in CalVerify /\ UNCHANGED s_dcdSaved)
  \/ Verifies(r) /\ (r.state = "SUCCEEDED" => s_dcdSaved')
  \/ Restores(r) /\ (r.state = "SUCCEEDED" => Achieved')
  \/ Finishes(r, FALSE) /\ r.state = "RECOVERY_FAILED"

(* An answer keeps the invariant when what it claims of the chip is so.    *)
LEMMA AnswerKeeps ==
  ASSUME MachineInv, identity' = identity, MailInv', chip' \in Chips,
         facts' \in {facts, mail},
         st \notin {"WAIT_RESTORE", "VERIFY", "DONE"},
         ~s_haveEvidence',
         st' \notin CalGates \cup {"GYRO_PROMPT"},
         st' \notin BeforeFirstRequest',
         identity \notin Mutators => chip' = chip,
         s_dcdSaved' => identity = "CALIBRATION" /\ chip'.dcd = "saved",
         st' \in {"WAIT_PERSIST", "VERIFY"} => chip'.active = "new",
         st' = "VERIFY" => chip'.stored = "new",
         NEW r \in MachineResults(identity), AnswerShape(r)
  PROVE  PumpGoal
<1>1. ~Ended /\ identity \in Composed
  BY DEF MachineInv, ControlInv, StatesOfStage, Ended
<1>2. ControlInv'
  <2>1. CASE Verifies(r)
    <3>1. identity = "CALIBRATION"
      BY <2>1 DEF Verifies, MachineInv, ControlInv, StatesOfStage, Composed, Slot1, Slot2, Slot3
    <3>2. StatesOfStage' /\ pending' = RequestOf(st)'
      BY <2>1, <3>1 DEF Verifies, StatesOfStage, CalStates, CalVerify, RequestOf, Composed, Slot1,
                        Slot2, Slot3
    <3>3. ~Ended' /\ st' # "DONE"
      BY <1>1, <2>1 DEF Verifies, Ended
    <3> QED
      BY <2>1, <3>2, <3>3 DEF Verifies, ControlInv, ResultPromised
  <2>2. CASE ~Verifies(r)
    BY <2>2, ControlKept DEF AnswerShape, MachineInv
  <2> QED
    BY <2>1, <2>2
<1>3. ChipInv'
  <2>1. CASE MovesOn /\ (st' \in CalVerify => st \in CalVerify /\ UNCHANGED s_dcdSaved)
    <3>1. result'.state # "SUCCEEDED" /\ st' # "WAIT_RESTORE"
      BY <1>1, <2>1 DEF MovesOn, Ended
    <3>2. st' \in CalVerify /\ term'.state = "SUCCEEDED" => s_dcdSaved'
      BY <2>1 DEF MovesOn, MachineInv, ChipInv
    <3> QED
      BY <3>1, <3>2 DEF MachineInv, ChipInv, Mutators
  <2>2. CASE Verifies(r) /\ (r.state = "SUCCEEDED" => s_dcdSaved')
    <3>1. result'.state # "SUCCEEDED" /\ st' = "WAIT_VERIFY" /\ term' = r
      BY <1>1, <2>2 DEF Verifies, Ended
    <3> QED
      BY <2>2, <3>1 DEF MachineInv, ChipInv, Mutators
  <2>3. CASE Restores(r) /\ (r.state = "SUCCEEDED" => Achieved')
    <3>1. result'.state # "SUCCEEDED" /\ st' = "WAIT_RESTORE" /\ term' = r
      BY <1>1, <2>3 DEF Restores, Ended
    <3> QED
      BY <2>3, <3>1 DEF MachineInv, ChipInv, Mutators, CalVerify
  <2>4. CASE Finishes(r, FALSE) /\ r.state = "RECOVERY_FAILED"
    <3>1. result'.state # "SUCCEEDED" /\ st' = "DONE"
      BY <2>4 DEF Finishes, Outcome
    <3> QED
      BY <3>1 DEF MachineInv, ChipInv, Mutators, CalVerify
  <2> QED
    BY <2>1, <2>2, <2>3, <2>4 DEF AnswerShape
<1>4. FactsInv'
  BY DEF MachineInv, FactsInv, MailInv
<1>5. RestoreStep
  <2> SUFFICES ASSUME Ended'
               PROVE  result'.state = "RECOVERY_FAILED" /\ ~result'.restored
    BY DEF RestoreStep
  <2>1. Finishes(r, FALSE) /\ r.state = "RECOVERY_FAILED"
    BY <1>1 DEF AnswerShape, MovesOn, Verifies, Restores, Ended
  <2> QED
    BY <2>1 DEF Finishes, Outcome
<1> QED
  BY <1>2, <1>3, <1>4, <1>5 DEF PumpGoal, MachineInv, VerdictStep

(* A pump with no request forwards facts and moves nothing.                *)
LEMMA IdlePump ==
  ASSUME MachineInv, pending = "NONE", KeepsPlace,
         UNCHANGED <<identity, session, verified, s_dcdSaved>>,
         facts' \in {facts, mail},
         identity = "CALIBRATION" => facts' = mail,
         s_haveEvidence' => s_haveEvidence \/ (st = "VERIFY" /\ mail.valid /\ facts' = mail)
  PROVE  PumpGoal
<1>1. UNCHANGED <<sess, reports, epoch, mail, chip>>
  BY DEF session
<1>2. ControlInv'
  BY DEF KeepsPlace, MachineInv, ControlInv, StatesOfStage, RequestOf, Ended, ResultPromised
<1>3. ChipInv'
  BY <1>1 DEF KeepsPlace, MachineInv, ChipInv, Achieved
<1>4. FactsInv'
  BY <1>1 DEF KeepsPlace, MachineInv, ChipInv, FactsInv, BeforeFirstRequest
<1>5. st # "WAIT_RESTORE"
  BY DEF MachineInv, ControlInv, RequestOf
<1> QED
  BY <1>1, <1>2, <1>3, <1>4, <1>5 DEF PumpGoal, MachineInv, RestoreStep, VerdictStep,
                                      KeepsPlace, Ended

(* The calibration machine's pump.                                         *)
LEMMA CalPump ==
  ASSUME MachineInv, identity \in Slot1, identity' = identity, step' = "tick",
         imu_cal_adapter_pump, UNCHANGED s_haveEvidence
  PROVE  PumpGoal
<1> DEFINE F == Result("FAILED", TRUE)
           R == Result("RECOVERY_FAILED", TRUE)
           S == Result("SUCCEEDED", FALSE)
<1>1. /\ {F, R, S} \subseteq MachineResults(identity)
      /\ F.state = "FAILED" /\ R.state = "RECOVERY_FAILED" /\ S.state = "SUCCEEDED"
  BY DEF MachineResults, Result, Slot1, Slot3
<1>2. /\ verified' = verified
      /\ facts' \in {facts, mail}
      /\ identity = "CALIBRATION" => facts' = mail
  BY DEF imu_cal_adapter_pump, forward_cal_facts
<1>3. CASE pending = "NONE" /\ UNCHANGED <<control, cal, session>>
  BY <1>2, <1>3, IdlePump DEF control, cal, KeepsPlace
<1>4. ASSUME NEW ok \in BOOLEAN, pending # "NONE", Call(pending, ok),
             \/ ClearAnswered(ok)
             \/ ConfigAnswered(ok)
             \/ SaveAnswered(ok)
             \/ VerifyAnswered(ok)
             \/ RestoreAnswered(ok) /\ UNCHANGED cal
      PROVE  PumpGoal
  <2>1. /\ pending \in Requests \ {"NONE"}
        /\ pending = RequestOf(st)
        /\ MailInv /\ chip \in Chips
    BY <1>4 DEF MachineInv, ControlInv, ChipInv, FactsInv, MailInv, Requests, RequestOf
  <2>2. MailInv' /\ chip' \in Chips
    BY <1>4, <2>1, CallEffect
  <2>3. identity \in Mutators
    BY DEF Mutators
  <2>4. /\ st \in {"WAIT_CLEAR", "WAIT_CONFIG", "WAIT_SAVE", "WAIT_VERIFY"} => ~s_haveEvidence'
        /\ s_dcdSaved => identity = "CALIBRATION" /\ chip.dcd = "saved"
    BY DEF MachineInv, ChipInv, FactsInv
  <2>5. st \in {"WAIT_CONFIG", "WAIT_SAVE", "WAIT_VERIFY"} =>
          /\ identity = "CALIBRATION"
          /\ BeforeFirstRequest' = {"WAIT_CONFIRM", "WAIT_CONFIG", "CLEAR_CONFIRM"}
    BY DEF MachineInv, ControlInv, StatesOfStage, Slot1, BeforeFirstRequest
  <2>6. "WAIT_RESTORE" \notin BeforeFirstRequest' /\ "DONE" \notin BeforeFirstRequest'
    BY DEF BeforeFirstRequest
  <2>7. ASSUME NEW t \in CalStates,
               st \in {"WAIT_CONFIG", "WAIT_SAVE", "WAIT_VERIFY"}, st' = t,
               t \notin {"WAIT_RESTORE", "DONE", "WAIT_CONFIG", "WAIT_SAVE", "WAIT_VERIFY"},
               pending' = "NONE", UNCHANGED <<term, result>>
        PROVE  MovesOn
    <3>1. StatesOfStage'
      BY <2>5, <2>7 DEF StatesOfStage, Composed, Slot1, Slot2, Slot3
    <3>2. pending' = RequestOf(st)'
      BY <2>7 DEF RequestOf, CalStates, CalVerify
    <3> QED
      BY <2>7, <3>1, <3>2 DEF MovesOn
  <2>8. CASE ClearAnswered(ok)
    <3>1. st = "WAIT_CLEAR" /\ UNCHANGED cal
      BY <2>8 DEF ClearAnswered
    <3>2. identity = "DCD_CLEAR" /\ pending = "CLEAR_DCD"
      BY <2>1, <3>1 DEF MachineInv, ControlInv, StatesOfStage, CalStates, CalVerify, RequestOf, Slot1
    <3>3. ok => chip'.dcd = "cleared"
      BY <1>4, <2>1, <3>2, CallEffect
    <3>4. ~s_dcdSaved'
      BY <2>4, <3>1, <3>2 DEF cal
    <3>5. CASE finish(R, FALSE)
      <4>1. AnswerShape(R) /\ st' = "DONE"
        BY <1>1, <3>1, <3>5 DEF finish, AnswerShape, Finishes
      <4> QED
        BY <1>1, <1>2, <2>2, <2>3, <2>4, <2>6, <3>1, <3>4, <4>1, AnswerKeeps DEF CalGates
    <3>6. ASSUME NEW r \in {F, S}, begin_restore(r), r = S => ok
          PROVE  PumpGoal
      <4>1. r.state = "SUCCEEDED" => Achieved'
        BY <1>1, <3>2, <3>3, <3>6 DEF Achieved
      <4>2. AnswerShape(r) /\ st' = "WAIT_RESTORE"
        BY <3>1, <3>6, <4>1 DEF begin_restore, enter_state, AnswerShape, Restores
      <4> QED
        BY <1>1, <1>2, <2>2, <2>3, <2>4, <2>6, <3>1, <3>4, <3>6, <4>2, AnswerKeeps DEF CalGates
    <3> QED
      BY <1>1, <2>8, <3>5, <3>6 DEF ClearAnswered
  <2>9. ASSUME st \in {"WAIT_CONFIG", "WAIT_VERIFY"}, UNCHANGED cal,
               \/ /\ Move(IF st = "WAIT_CONFIG" THEN "ACCEL_PROMPT" ELSE "VERIFY_PROMPT", 0,
                          "NONE")
               \/ begin_restore(F)
        PROVE  PumpGoal
    <3>1. pending \in {"CONFIGURE", "VERIFY"}
      BY <2>1, <2>9 DEF RequestOf
    <3>2. chip' = chip /\ s_dcdSaved' = s_dcdSaved
      BY <1>4, <2>1, <2>9, <3>1, CallEffect DEF cal
    <3>3. /\ st' \in {"ACCEL_PROMPT", "VERIFY_PROMPT", "WAIT_RESTORE"}
          /\ AnswerShape(F)
      <4>1. CASE begin_restore(F)
        BY <1>1, <2>9, <4>1 DEF begin_restore, enter_state, AnswerShape, Restores
      <4>2. CASE Move(IF st = "WAIT_CONFIG" THEN "ACCEL_PROMPT" ELSE "VERIFY_PROMPT", 0, "NONE")
        <5>1. /\ st' = IF st = "WAIT_CONFIG" THEN "ACCEL_PROMPT" ELSE "VERIFY_PROMPT"
              /\ pending' = "NONE"
              /\ UNCHANGED <<term, result>>
          BY <4>2 DEF Move, enter_state
        <5>2. MovesOn
          BY <2>7, <2>9, <5>1 DEF CalStates, CalVerify
        <5> QED
          BY <2>9, <3>2, <5>1, <5>2 DEF AnswerShape, CalVerify
      <4> QED
        BY <2>9, <4>1, <4>2
    <3> QED
      BY <1>1, <1>2, <2>2, <2>3, <2>4, <2>5, <2>9, <3>2, <3>3, AnswerKeeps DEF CalGates
  <2>10. CASE SaveAnswered(ok)
    <3>1. st = "WAIT_SAVE" /\ pending = "SAVE_DCD"
      BY <2>1, <2>10 DEF SaveAnswered, RequestOf
    <3>2. ok => chip'.dcd = "saved"
      BY <1>4, <2>1, <3>1, CallEffect
    <3>3. ~ok => s_dcdSaved' = s_dcdSaved
      BY <2>10 DEF SaveAnswered, FirstSaveFailure, SecondSaveFailure, LastSaveFailure
    <3>4. chip.dcd = "saved" => chip'.dcd = "saved"
      BY <1>4, <3>1 DEF Call, session, ChipCommand, ChipInv, MachineInv, Chips
    <3>5. s_dcdSaved' => identity = "CALIBRATION" /\ chip'.dcd = "saved"
      BY <2>4, <2>5, <3>1, <3>2, <3>3, <3>4
    <3>6. ASSUME NEW r \in {F, S}, begin_same_session_verify(r), r = S => s_dcdSaved'
          PROVE  PumpGoal
      <4>1. AnswerShape(r) /\ st' = "WAIT_VERIFY"
        BY <1>1, <3>1, <3>6 DEF begin_same_session_verify, enter_state, AnswerShape, Verifies
      <4> QED
        BY <1>1, <1>2, <2>2, <2>3, <2>4, <2>5, <3>1, <3>5, <3>6, <4>1, AnswerKeeps DEF CalGates
    <3>7. ASSUME NEW t \in {"SAVE_RETRY_HOLD", "MAG_PROMPT"}, Move(t, 0, "NONE")
                 \/ Move(t, Window, "NONE")
          PROVE  PumpGoal
      <4>1. st' = t /\ pending' = "NONE" /\ UNCHANGED <<term, result>>
        BY <3>7 DEF Move, enter_state
      <4>2. MovesOn
        BY <2>7, <3>1, <3>7, <4>1 DEF CalStates, CalVerify
      <4>3. AnswerShape(F)
        BY <3>7, <4>1, <4>2 DEF AnswerShape, CalVerify
      <4> QED
        BY <1>1, <1>2, <2>2, <2>3, <2>4, <2>5, <3>1, <3>5, <3>7, <4>1, <4>3, AnswerKeeps
        DEF CalGates
    <3>8. CASE ok /\ SaveSucceeded
      BY <3>6, <3>8 DEF SaveSucceeded
    <3>9. CASE ~ok /\ (FirstSaveFailure \/ SecondSaveFailure)
      BY <3>7, <3>9 DEF FirstSaveFailure, SecondSaveFailure, begin_outer_attempt, begin_mag_round
    <3>10. CASE ~ok /\ LastSaveFailure
      <4>1. begin_same_session_verify(F) /\ F # S
        BY <1>1, <3>10 DEF LastSaveFailure
      <4> QED
        BY <3>6, <4>1
    <3> QED
      BY <2>10, <3>8, <3>9, <3>10 DEF SaveAnswered
  <2>11. CASE RestoreAnswered(ok) /\ UNCHANGED cal
    <3>1. pending = "RESTORE"
      BY <2>1, <2>11 DEF RestoreAnswered, RequestOf
    <3>2. s_dcdSaved' = s_dcdSaved
      BY <2>11 DEF cal
    <3> QED
      BY <1>2, <1>4, <2>11, <3>1, <3>2, RestoreAnswerEnds DEF RestoreAnswered
  <2> QED
    BY <1>4, <2>8, <2>9, <2>10, <2>11 DEF ConfigAnswered, VerifyAnswered
<1> QED
  BY <1>3, <1>4 DEF imu_cal_adapter_pump

(* The tare machine's pump: evidence is taken from the facts it forwards.  *)
LEMMA TarePump ==
  ASSUME MachineInv, identity \in Slot2, identity' = identity, step' = "tick",
         imu_tare_adapter_pump, UNCHANGED s_dcdSaved
  PROVE  PumpGoal
<1> DEFINE F == Result("FAILED", TRUE)
           S == Result("SUCCEEDED", FALSE)
<1>1. /\ F \in MachineResults(identity)
      /\ S \in MachineResults(identity)
      /\ F.state = "FAILED" /\ S.state = "SUCCEEDED"
  BY DEF MachineResults, Result, Slot2, Slot3
<1>2. verified' = verified /\ facts' = mail
  BY DEF imu_tare_adapter_pump
<1>3. CASE pending = "NONE" /\ s_haveEvidence' = EvidenceWith /\ UNCHANGED <<control, session>>
  <2>1. identity # "CALIBRATION"
    BY DEF Slot2
  <2> QED
    BY <1>2, <1>3, <2>1, IdlePump DEF control, KeepsPlace, EvidenceWith
<1>4. ASSUME NEW ok \in BOOLEAN, pending # "NONE", Call(pending, ok),
             \/ TareConfigAnswered(ok)
             \/ TareNowAnswered(ok)
             \/ PersistAnswered(ok)
             \/ TareClearAnswered(ok)
             \/ TareRestoreAnswered(ok)
      PROVE  PumpGoal
  <2>1. /\ pending \in Requests \ {"NONE"}
        /\ pending = RequestOf(st)
        /\ MailInv /\ chip \in Chips
    BY <1>4 DEF MachineInv, ControlInv, ChipInv, FactsInv, MailInv, Requests, RequestOf
  <2>2. MailInv' /\ chip' \in Chips
    BY <1>4, <2>1, CallEffect
  <2>3. /\ identity # "CALIBRATION" /\ ~s_dcdSaved'
        /\ BeforeFirstRequest' = {"WAIT_CONFIRM", "WAIT_CONFIG", "CLEAR_CONFIRM"}
    BY DEF MachineInv, ChipInv, BeforeFirstRequest, Slot2
  <2>4. st \in {"WAIT_CONFIG", "WAIT_TARE_NOW", "WAIT_PERSIST", "WAIT_CLEAR"} =>
          ~s_haveEvidence
    BY DEF MachineInv, FactsInv
  <2>5. st \in {"WAIT_TARE_NOW", "WAIT_PERSIST"} => identity = "TARE"
    BY DEF MachineInv, ControlInv, StatesOfStage, Slot2
  <2>6. ASSUME st \in {"WAIT_CONFIG", "WAIT_TARE_NOW", "WAIT_PERSIST"},
               begin_restore(F), ~s_haveEvidence',
               identity \notin Mutators => chip' = chip
        PROVE  PumpGoal
    <3>1. AnswerShape(F) /\ st' = "WAIT_RESTORE"
      BY <1>1, <2>6 DEF begin_restore, enter_state, AnswerShape, Restores
    <3> QED
      BY <1>1, <1>2, <2>2, <2>3, <2>6, <3>1, AnswerKeeps DEF CalGates
  <2>7. ASSUME st \in {"WAIT_CONFIG", "WAIT_TARE_NOW", "WAIT_PERSIST"},
               UNCHANGED <<term, result>>, ~s_haveEvidence',
               \/ identity = "TARE" /\ st' \in {"SETTLE", "VERIFY"} /\ pending' = "NONE"
               \/ identity = "TARE" /\ st' = "WAIT_PERSIST" /\ pending' = "PERSIST"
               \/ identity = "TARE_CLEAR" /\ st' = "WAIT_CLEAR" /\ pending' = "CLEAR_TARE"
               \/ identity = "TARE_CHECK" /\ st' = "CHECK" /\ pending' = "NONE",
               identity \notin Mutators => chip' = chip,
               st' \in {"WAIT_PERSIST", "VERIFY"} => chip'.active = "new",
               st' = "VERIFY" => chip'.stored = "new"
        PROVE  PumpGoal
    <3>1. StatesOfStage'
      BY <2>7 DEF StatesOfStage, Composed, Slot1, Slot2, Slot3
    <3>2. pending' = RequestOf(st)'
      BY <2>7 DEF RequestOf
    <3>3. AnswerShape(F)
      BY <2>7, <3>1, <3>2 DEF AnswerShape, MovesOn, CalVerify
    <3> QED
      BY <1>1, <1>2, <2>2, <2>3, <2>7, <3>3, AnswerKeeps DEF CalGates
  <2>8. CASE TareConfigAnswered(ok)
    <3>1. st = "WAIT_CONFIG" /\ pending = "CONFIGURE"
      BY <2>1, <2>8 DEF TareConfigAnswered, RequestOf
    <3>2. chip' = chip
      BY <1>4, <2>1, <3>1, CallEffect
    <3>3. s_haveEvidence' = s_haveEvidence
      BY <2>8 DEF TareConfigAnswered
    <3>4. CASE ok
      <4>1. \/ identity = "TARE" /\ Move("SETTLE", Window, "NONE")
            \/ identity = "TARE_CLEAR" /\ Move("WAIT_CLEAR", 0, "CLEAR_TARE")
            \/ identity = "TARE_CHECK" /\ Move("CHECK", 0, "NONE")
        BY <2>8, <3>4 DEF TareConfigAnswered
      <4>2. /\ UNCHANGED <<term, result>>
            /\ \/ identity = "TARE" /\ st' = "SETTLE" /\ pending' = "NONE"
               \/ identity = "TARE_CLEAR" /\ st' = "WAIT_CLEAR" /\ pending' = "CLEAR_TARE"
               \/ identity = "TARE_CHECK" /\ st' = "CHECK" /\ pending' = "NONE"
        BY <4>1 DEF Move, enter_state
      <4> QED
        BY <2>4, <2>7, <3>1, <3>2, <3>3, <4>2
    <3>5. CASE ~ok
      <4>1. begin_restore(F)
        BY <2>8, <3>5 DEF TareConfigAnswered
      <4> QED
        BY <2>4, <2>6, <3>1, <3>2, <3>3, <4>1
    <3> QED
      BY <3>4, <3>5
  <2>9. CASE TareNowAnswered(ok)
    <3>1. /\ st = "WAIT_TARE_NOW" /\ pending = "TARE_NOW"
          /\ identity = "TARE" /\ identity \in Mutators
      BY <2>1, <2>5, <2>9 DEF TareNowAnswered, RequestOf, Mutators
    <3>2. ok => chip'.active = "new"
      BY <1>4, <2>1, <3>1, CallEffect
    <3>3. s_haveEvidence' = s_haveEvidence
      BY <2>9 DEF TareNowAnswered
    <3>4. CASE ok
      <4>1. Move("WAIT_PERSIST", 0, "PERSIST")
        BY <2>9, <3>4 DEF TareNowAnswered
      <4> QED
        BY <2>4, <2>7, <3>1, <3>2, <3>3, <3>4, <4>1 DEF Move, enter_state
    <3>5. CASE ~ok
      <4>1. begin_restore(F)
        BY <2>9, <3>5 DEF TareNowAnswered
      <4> QED
        BY <2>4, <2>6, <3>1, <3>3, <4>1
    <3> QED
      BY <3>4, <3>5
  <2>10. CASE PersistAnswered(ok)
    <3>1. /\ st = "WAIT_PERSIST" /\ pending = "PERSIST"
          /\ identity = "TARE" /\ identity \in Mutators /\ chip.active = "new"
      BY <2>1, <2>5, <2>10 DEF PersistAnswered, RequestOf, Mutators, MachineInv, ChipInv
    <3>2. chip'.active = "new" /\ (ok => chip'.stored = "new")
      BY <1>4, <2>1, <3>1, CallEffect
    <3>3. CASE ok
      <4>1. Move("VERIFY", Window, "NONE") /\ s_haveEvidence' = FALSE
        BY <2>10, <3>3 DEF PersistAnswered
      <4> QED
        BY <2>7, <3>1, <3>2, <3>3, <4>1 DEF Move, enter_state
    <3>4. CASE ~ok
      <4>1. begin_restore(F) /\ s_haveEvidence' = s_haveEvidence
        BY <2>10, <3>4 DEF PersistAnswered
      <4> QED
        BY <2>4, <2>6, <3>1, <4>1
    <3> QED
      BY <3>3, <3>4
  <2>11. CASE TareClearAnswered(ok)
    <3>1. st = "WAIT_CLEAR" /\ ~s_haveEvidence'
      BY <2>4, <2>11 DEF TareClearAnswered
    <3>2. identity = "TARE_CLEAR" /\ pending = "CLEAR_TARE" /\ identity \in Mutators
      BY <2>1, <3>1 DEF MachineInv, ControlInv, StatesOfStage, RequestOf, Slot2, Mutators
    <3>3. ok => chip'.active = "cleared" /\ chip'.stored = "cleared"
      BY <1>4, <2>1, <3>2, CallEffect
    <3>4. ASSUME NEW r \in {F, S}, begin_restore(r), r = S => ok
          PROVE  PumpGoal
      <4>1. r.state = "SUCCEEDED" => Achieved'
        BY <1>1, <3>2, <3>3, <3>4 DEF Achieved
      <4>2. AnswerShape(r) /\ st' = "WAIT_RESTORE"
        BY <3>1, <3>4, <4>1 DEF begin_restore, enter_state, AnswerShape, Restores
      <4> QED
        BY <1>1, <1>2, <2>2, <2>3, <3>1, <3>2, <3>4, <4>2, AnswerKeeps DEF CalGates
    <3>5. F # S
      BY <1>1
    <3> QED
      BY <2>11, <3>4, <3>5 DEF TareClearAnswered
  <2>12. CASE TareRestoreAnswered(ok)
    <3>1. pending = "RESTORE"
      BY <2>1, <2>12 DEF TareRestoreAnswered, RequestOf
    <3>2. s_haveEvidence' = s_haveEvidence
      BY <2>12 DEF TareRestoreAnswered, tare
    <3> QED
      BY <1>2, <1>4, <2>12, <3>1, <3>2, RestoreAnswerEnds DEF TareRestoreAnswered
  <2> QED
    BY <1>4, <2>8, <2>9, <2>10, <2>11, <2>12
<1> QED
  BY <1>3, <1>4 DEF imu_tare_adapter_pump

(* The check machine's pump changes nothing the chip keeps.                *)
LEMMA CheckPump ==
  ASSUME MachineInv, identity \in Slot3, identity' = identity, step' = "tick",
         imu_check_adapter_pump, UNCHANGED <<s_dcdSaved, s_haveEvidence>>
  PROVE  PumpGoal
<1> DEFINE F == Result("FAILED", TRUE)
<1>1. F \in MachineResults(identity) /\ F.state = "FAILED"
  BY DEF MachineResults, Result
<1>2. verified' = verified /\ facts' \in {facts, mail} /\ identity # "CALIBRATION"
  BY DEF imu_check_adapter_pump, FedFacts, Slot3
<1>3. CASE pending = "NONE" /\ UNCHANGED <<st, pending, term, result, session>>
  BY <1>2, <1>3, IdlePump DEF KeepsPlace
<1>4. ASSUME NEW ok \in BOOLEAN, pending # "NONE", Call(pending, ok),
             CheckConfigAnswered(ok) \/ CheckRestoreAnswered(ok)
      PROVE  PumpGoal
  <2>1. /\ pending \in Requests \ {"NONE"}
        /\ pending = RequestOf(st)
        /\ MailInv /\ chip \in Chips
    BY <1>4 DEF MachineInv, ControlInv, ChipInv, FactsInv, MailInv, Requests, RequestOf
  <2>2. MailInv' /\ chip' \in Chips
    BY <1>4, <2>1, CallEffect
  <2>3. /\ ~s_dcdSaved'
        /\ BeforeFirstRequest' = {"WAIT_CONFIRM", "WAIT_CONFIG", "CLEAR_CONFIRM"}
    BY <1>2 DEF MachineInv, ChipInv, BeforeFirstRequest, Slot3
  <2>4. CASE CheckConfigAnswered(ok)
    <3>1. st = "WAIT_CONFIG" /\ ~s_haveEvidence' /\ pending = "CONFIGURE"
      BY <2>1, <2>4 DEF CheckConfigAnswered, RequestOf, MachineInv, FactsInv
    <3>2. chip' = chip
      BY <1>4, <2>1, <3>1, CallEffect
    <3>3. AnswerShape(F) /\ st' \in {"MONITOR", "WAIT_RESTORE"}
      <4>1. CASE enter_phase("MONITOR", "NONE") /\ UNCHANGED term
        <5>1. st' = "MONITOR" /\ pending' = "NONE" /\ UNCHANGED <<term, result>>
          BY <4>1 DEF enter_phase
        <5>2. StatesOfStage' /\ pending' = RequestOf(st)'
          BY <5>1 DEF StatesOfStage, Composed, Slot1, Slot2, Slot3, RequestOf
        <5> QED
          BY <3>1, <5>1, <5>2 DEF AnswerShape, MovesOn, CalVerify
      <4>2. CASE check_begin_restore(F)
        BY <1>1, <3>1, <4>2 DEF check_begin_restore, enter_phase, AnswerShape, Restores
      <4> QED
        BY <2>4, <4>1, <4>2 DEF CheckConfigAnswered
    <3> QED
      BY <1>1, <1>2, <2>2, <2>3, <3>1, <3>2, <3>3, AnswerKeeps DEF CalGates
  <2>5. CASE CheckRestoreAnswered(ok)
    <3>1. pending = "RESTORE"
      BY <2>1, <2>5 DEF CheckRestoreAnswered, RequestOf
    <3> QED
      BY <1>2, <1>4, <2>5, <3>1, RestoreAnswerEnds DEF CheckRestoreAnswered
  <2> QED
    BY <1>4, <2>4, <2>5
<1> QED
  BY <1>3, <1>4 DEF imu_check_adapter_pump

-----------------------------------------------------------------------------
(* The session's own steps and the clock                                   *)

(* A reset empties the mailbox; nothing that was decoded is evidence yet.  *)
LEMMA ResetKeeps ==
  ASSUME MachineInv, ChipResets
  PROVE  PumpGoal
<1>1. /\ step = "session" /\ sess' = "RECOVERING" /\ reports' = "none" /\ Bump(1)
      /\ UNCHANGED <<identity, control, evidence, chip, step, cal, tare>>
  BY DEF ChipResets, ChipReset
<1>2. MailInv'
  BY <1>1, BumpKeeps DEF MachineInv, FactsInv, MailInv
<1>3. /\ KeepsPlace
      /\ UNCHANGED <<facts, verified, s_dcdSaved, s_haveEvidence>>
  BY <1>1 DEF KeepsPlace, control, evidence, cal, tare
<1>4. ControlInv'
  BY <1>1, <1>3 DEF KeepsPlace, MachineInv, ControlInv, StatesOfStage, RequestOf, Ended,
                    ResultPromised
<1>5. ChipInv'
  BY <1>1, <1>3 DEF KeepsPlace, MachineInv, ChipInv, Achieved
<1>6. FactsInv'
  BY <1>1, <1>2, <1>3 DEF KeepsPlace, MachineInv, FactsInv, MailInv
<1> QED
  BY <1>3, <1>4, <1>5, <1>6
  DEF PumpGoal, MachineInv, ControlInv, RestoreStep, VerdictStep, KeepsPlace, Ended

(* A report decoded is of the session's epoch and of the frame it is in.   *)
LEMMA DecodeKeeps ==
  ASSUME MachineInv, Decodes
  PROVE  PumpGoal
<1>1. PICK at_goal \in SUBSET Sensors :
        /\ mail' = [epoch |-> epoch, valid |-> TRUE, at_goal |-> at_goal,
                    tared |-> chip.active = "new"]
        /\ step = "session"
        /\ UNCHANGED <<identity, control, evidence, sess, reports, epoch, chip, step, cal, tare>>
  BY DEF Decodes, Decode
<1>2. /\ mail' \in Facts /\ mail'.epoch = epoch /\ mail'.valid
      /\ mail'.tared = (chip.active = "new")
  BY <1>1 DEF MachineInv, FactsInv, Facts
<1>3. /\ KeepsPlace
      /\ UNCHANGED <<facts, verified, s_dcdSaved, s_haveEvidence>>
  BY <1>1 DEF KeepsPlace, control, evidence, cal, tare
<1>4. ControlInv'
  BY <1>1, <1>3 DEF KeepsPlace, MachineInv, ControlInv, StatesOfStage, RequestOf, Ended,
                    ResultPromised
<1>5. ChipInv'
  BY <1>1, <1>3 DEF KeepsPlace, MachineInv, ChipInv, Achieved
<1>6. FactsInv'
  BY <1>1, <1>2, <1>3 DEF KeepsPlace, MachineInv, FactsInv, BeforeFirstRequest
<1> QED
  BY <1>3, <1>4, <1>5, <1>6
  DEF PumpGoal, MachineInv, ControlInv, RestoreStep, VerdictStep, KeepsPlace, Ended

(* The clock, and a step that changes nothing.                             *)
LEMMA ClockKeeps ==
  ASSUME MachineInv, (\E d \in 0..1 : Tick(d)) \/ UNCHANGED vars
  PROVE  PumpGoal
<1>1. /\ step' = step \/ (step = "tick" /\ step' = "service")
      /\ KeepsPlace
      /\ UNCHANGED <<identity, facts, verified, sess, reports, epoch, mail, chip, s_dcdSaved,
                     s_haveEvidence>>
  BY DEF Tick, vars, control, evidence, session, cal, tare, KeepsPlace
<1>2. ControlInv'
  BY <1>1 DEF KeepsPlace, MachineInv, ControlInv, StatesOfStage, RequestOf, Ended,
              ResultPromised
<1>3. ChipInv'
  BY <1>1 DEF KeepsPlace, MachineInv, ChipInv, Achieved
<1>4. FactsInv'
  BY <1>1 DEF KeepsPlace, MachineInv, FactsInv, BeforeFirstRequest
<1> QED
  BY <1>1, <1>2, <1>3, <1>4
  DEF PumpGoal, MachineInv, ControlInv, RestoreStep, VerdictStep, KeepsPlace, Ended

-----------------------------------------------------------------------------
(* The three machines together                                             *)

(* Every step keeps the invariant and what the action properties say.      *)
LEMMA StepKeeps ==
  ASSUME MachineInv, [Next]_vars
  PROVE  PumpGoal
<1>1. CASE Pump
  <2>1. CASE Cal(imu_cal_adapter_pump)
    BY <1>1, <2>1, CalPump DEF Pump, Cal, tare
  <2>2. CASE Tare(imu_tare_adapter_pump)
    BY <1>1, <2>2, TarePump DEF Pump, Tare, cal
  <2>3. CASE Check(imu_check_adapter_pump)
    BY <1>1, <2>3, CheckPump DEF Pump, Check, cal, tare
  <2> QED
    BY <1>1, <2>1, <2>2, <2>3 DEF Pump
<1>2. CASE OperatorQ
  <2>1. \E r \in MachineResults(identity) : LocalShape(r)
    BY <1>2, CalQ, TareQ, CheckQ DEF OperatorQ, InputStep, Cal, Tare, Check
  <2>2. UNCHANGED <<identity, session, step, facts, s_dcdSaved, s_haveEvidence>>
    BY <1>2 DEF OperatorQ, InputStep, Cal, Tare, Check, cal_post_q, tare_post_q, check_post_q,
                evidence, cal, tare
  <2>3. st' \in {"DONE", "WAIT_RESTORE"}
    BY <1>2 DEF OperatorQ, Cal, Tare, Check, cal_post_q, tare_post_q, check_post_q, finish,
                begin_restore, enter_state
  <2> QED
    BY <2>1, <2>2, <2>3, LocalKeeps DEF PumpGoal, CalGates
<1>3. CASE OperatorConfirm
  <2>1. /\ \E r \in MachineResults(identity) : LocalShape(r)
        /\ st' \in CalGates \cup {"GYRO_PROMPT"} => st = "GYRO_PROMPT"
    BY <1>3, CalConfirm, TareConfirm DEF OperatorConfirm, InputStep, Cal, Tare
  <2>2. UNCHANGED <<identity, session, step, facts, s_dcdSaved, s_haveEvidence>>
    BY <1>3 DEF OperatorConfirm, InputStep, Cal, Tare, cal_post_confirm, tare_post_confirm,
                evidence, cal, tare
  <2> QED
    BY <2>1, <2>2, LocalKeeps DEF PumpGoal
<1>4. CASE Service
  <2>1. UNCHANGED <<identity, session, chip>> /\ step' = "session"
    BY <1>4 DEF Service, session
  <2>2. \E r \in MachineResults(identity) : LocalShape(r)
    BY <1>4, <2>1, CalService, TareService, CheckService DEF Service, Cal, Tare, Check
  <2>3. UNCHANGED <<facts, s_dcdSaved, s_haveEvidence>>
    BY <1>4 DEF Service, Cal, Tare, Check, imu_cal_service, imu_tare_service,
                imu_check_service, evidence, cal, tare
  <2> QED
    BY <2>1, <2>2, <2>3, LocalKeeps DEF PumpGoal
<1> QED
  BY <1>1, <1>2, <1>3, <1>4, ResetKeeps, DecodeKeeps, ClockKeeps DEF Next

(* A machine starts with the chip as it was and no result.                 *)
LEMMA StartHolds == ASSUME Init PROVE MachineInv
<1>1. /\ result.state = "RUNNING" /\ term.state = "NOT_REQUESTED"
      /\ chip = OldChip /\ mail = NoFact(1) /\ facts = NoFact(0) /\ epoch = 1
      /\ reports = "asFound" /\ step = "session"
      /\ ~s_haveEvidence /\ ~s_dcdSaved
  BY DEF Init, InitCalVars, InitTareVars, imu_cal_init, imu_cal_init_dcd_clear, imu_tare_init,
         imu_check_init, InitBase, Outcome, Result, OldChip
<1>2. /\ StatesOfStage
      /\ st \in {"WAIT_CONFIG", "WAIT_CONFIRM", "CLEAR_CONFIRM"}
      /\ pending = IF st = "WAIT_CONFIG" THEN "CONFIGURE" ELSE "NONE"
  BY DEF Init, imu_cal_init, imu_cal_init_dcd_clear, imu_tare_init, imu_check_init, InitBase,
         StatesOfStage, CalStates, CalVerify, Composed, Slot1, Slot2, Slot3
<1>3. ControlInv
  BY <1>1, <1>2 DEF ControlInv, RequestOf, Ended, CalVerify, ResultPromised
<1>4. ChipInv
  BY <1>1, <1>2 DEF ChipInv, Chips, OldChip, CalVerify
<1>5. FactsInv
  BY <1>1, <1>2 DEF FactsInv, Facts, NoFact
<1> QED
  BY <1>3, <1>4, <1>5 DEF MachineInv

(* The inductive invariant holds in every reachable state.                 *)
THEOREM MachineInvariant == Spec => []MachineInv
<1>1. MachineInv /\ [Next]_vars => MachineInv'
  BY StepKeeps DEF PumpGoal
<1> QED
  BY <1>1, StartHolds, PTL DEF Spec

(* Every machine ends with a result the coordinator was promised.          *)
THEOREM ResultsArePromised == Spec => []ResultPromised
<1>1. MachineInv => ResultPromised
  BY DEF MachineInv, ControlInv
<1> QED
  BY <1>1, MachineInvariant, PTL

(* A success is real, whatever failed, was retried or was reset before it. *)
THEOREM SuccessesAreReal == Spec => []SuccessIsReal
<1>1. MachineInv => SuccessIsReal
  BY DEF MachineInv, ChipInv, Achieved, SuccessIsReal
<1> QED
  BY <1>1, MachineInvariant, PTL

(* No result hides that the chip was changed.                              *)
THEOREM MutationsAreReported == Spec => []MutationReported
<1>1. MachineInv => MutationReported
  <2> SUFFICES ASSUME MachineInv, Ended, chip # OldChip
               PROVE  result.state = "SUCCEEDED" \/ result.warning
    BY DEF MutationReported, OldChip
  <2>1. identity \in Mutators
    BY DEF MachineInv, ChipInv
  <2>2. Result(result.state, result.warning) \in MachineResults(identity)
    BY DEF MachineInv, ControlInv, ResultPromised
  <2>3. \A r \in MachineResults(identity) : r.state = "SUCCEEDED" \/ r.warning
    BY <2>1 DEF MachineResults, Result, Mutators, Slot1, Slot3
  <2> QED
    BY <2>2, <2>3 DEF Result
<1> QED
  BY <1>1, MachineInvariant, PTL

(* Tares and gates are judged on facts of now.                             *)
THEOREM EvidenceStaysCurrent == Spec => []EvidenceIsCurrent
<1>1. MachineInv => EvidenceIsCurrent
  BY DEF MachineInv, FactsInv, EvidenceIsCurrent
<1> QED
  BY <1>1, MachineInvariant, PTL

(* A stage gives the session back restored, or untouched by it.            *)
THEOREM SessionIsGivenBack == Spec => RestoredOrUntouched
<1>1. MachineInv /\ [Next]_vars => [RestoreStep]_vars
  BY StepKeeps DEF PumpGoal
<1>2. Spec => [][RestoreStep]_vars
  BY <1>1, MachineInvariant, PTL DEF Spec
<1> QED
  BY <1>2 DEF RestoredOrUntouched, RestoreStep

(* The verdict a restore was begun for is the one the stage ends with.     *)
THEOREM VerdictsStand == Spec => VerdictStands
<1>1. MachineInv /\ [Next]_vars => [VerdictStep]_vars
  BY StepKeeps DEF PumpGoal
<1>2. Spec => [][VerdictStep]_vars
  BY <1>1, MachineInvariant, PTL DEF Spec
<1> QED
  BY <1>2 DEF VerdictStands, VerdictStep

-----------------------------------------------------------------------------
(* The rounds of a calibration                                             *)

BeforeOuterAttempt ==
  {"WAIT_CONFIG", "ACCEL_PROMPT", "ACCEL_WINDOW", "ACCEL_GATE", "GYRO_PROMPT", "GYRO_GATE"}

(* No round, pose or attempt is past its maximum.                          *)
RoundsBounded ==
  /\ s_poseIndex \in 0..(PoseCount - 1)
  /\ s_accelRound \in 1..AccelRounds
  /\ s_magRound \in 0..MagRounds
  /\ s_saveAttempt \in 0..SaveAttempts

(* The attempt that the gyroscope's gate begins, without asking how many   *)
(* there were, is the first.                                               *)
RoundsInv ==
  /\ RoundsBounded
  /\ identity # "CALIBRATION" \/ st \in BeforeOuterAttempt => s_saveAttempt = 0

LEMMA RoundLimits ==
  /\ PoseCount \in Nat /\ PoseCount >= 1
  /\ AccelRounds \in Nat /\ AccelRounds >= 1
  /\ MagRounds \in Nat /\ MagRounds >= 1
  /\ SaveAttempts \in Nat /\ SaveAttempts >= 1
BY RoundsAssumption DEF RoundsAssumption

(* A new outer attempt is allowed when there is one left.                  *)
LEMMA OuterAttemptBounded ==
  ASSUME RoundsInv, identity = "CALIBRATION", identity' = identity, begin_outer_attempt,
         s_saveAttempt < SaveAttempts
  PROVE  RoundsInv'
<1>1. /\ s_saveAttempt' = s_saveAttempt + 1 /\ s_magRound' = 1 /\ st' = "MAG_PROMPT"
      /\ UNCHANGED <<s_poseIndex, s_accelRound>>
  BY DEF begin_outer_attempt, begin_mag_round, Move, enter_state
<1> QED
  BY <1>1, RoundLimits DEF RoundsInv, RoundsBounded, BeforeOuterAttempt

(* Steps that count nothing.                                               *)
LEMMA NothingCounted ==
  ASSUME RoundsInv, identity' = identity,
         UNCHANGED <<s_poseIndex, s_accelRound, s_magRound, s_saveAttempt>>,
         identity = "CALIBRATION" /\ st' \in BeforeOuterAttempt => st \in BeforeOuterAttempt
  PROVE  RoundsInv'
BY DEF RoundsInv, RoundsBounded

LEMMA CalPumpRounds ==
  ASSUME MachineInv, RoundsInv, identity' = identity, identity \in Slot1, imu_cal_adapter_pump
  PROVE  RoundsInv'
<1> USE DEF cal, rounds, BeforeOuterAttempt, Move, enter_state, begin_restore, finish
<1>1. CASE pending = "NONE" /\ UNCHANGED <<control, cal, session>>
  BY <1>1, NothingCounted DEF control
<1>2. ASSUME NEW ok \in BOOLEAN, ClearAnswered(ok)
      PROVE  RoundsInv'
  BY <1>2, NothingCounted DEF ClearAnswered
<1>3. ASSUME NEW ok \in BOOLEAN, ConfigAnswered(ok)
      PROVE  RoundsInv'
  BY <1>3, NothingCounted DEF ConfigAnswered
<1>4. ASSUME NEW ok \in BOOLEAN, SaveAnswered(ok)
      PROVE  RoundsInv'
  <2>1. identity = "CALIBRATION"
    BY <1>4 DEF SaveAnswered, MachineInv, ControlInv, StatesOfStage, Slot1
  <2>2. CASE SecondSaveFailure
    BY <2>1, <2>2, OuterAttemptBounded DEF SecondSaveFailure
  <2>3. CASE SaveSucceeded \/ FirstSaveFailure \/ LastSaveFailure
    BY <2>3, NothingCounted
    DEF SaveSucceeded, FirstSaveFailure, LastSaveFailure, begin_same_session_verify
  <2> QED
    BY <1>4, <2>2, <2>3 DEF SaveAnswered
<1>5. ASSUME NEW ok \in BOOLEAN, VerifyAnswered(ok)
      PROVE  RoundsInv'
  BY <1>5, NothingCounted DEF VerifyAnswered
<1>6. ASSUME NEW ok \in BOOLEAN, RestoreAnswered(ok) /\ UNCHANGED cal
      PROVE  RoundsInv'
  BY <1>6, NothingCounted DEF RestoreAnswered
<1> QED
  BY <1>1, <1>2, <1>3, <1>4, <1>5, <1>6 DEF imu_cal_adapter_pump

LEMMA CalServiceRounds ==
  ASSUME MachineInv, RoundsInv, identity' = identity, identity \in Slot1, imu_cal_service
  PROVE  RoundsInv'
<1> USE DEF rounds, BeforeOuterAttempt, Move, enter_state, begin_restore, WaitAtGate
<1>1. CASE AccelWindow
  BY <1>1, RoundLimits DEF AccelWindow, AccelPrompt, RoundsInv, RoundsBounded
<1>2. CASE AccelGate
  BY <1>2, RoundLimits DEF AccelGate, AccelPrompt, RoundsInv, RoundsBounded
<1>3. CASE GyroGate
  <2>1. identity = "CALIBRATION" /\ st = "GYRO_GATE"
    BY <1>3 DEF GyroGate, MachineInv, ControlInv, StatesOfStage, Slot1
  <2>2. s_saveAttempt < SaveAttempts
    BY <2>1, RoundLimits DEF RoundsInv
  <2>3. CASE begin_outer_attempt
    BY <2>1, <2>2, <2>3, OuterAttemptBounded
  <2>4. CASE WaitAtGate(gate_gyro) /\ UNCHANGED rounds
    BY <2>4, NothingCounted
  <2> QED
    BY <1>3, <2>3, <2>4 DEF GyroGate
<1>4. CASE MagMotion \/ HoldWindow \/ SaveRetryHold \/ VerifyMotion
  BY <1>4, NothingCounted DEF MagMotion, HoldWindow, SaveRetryHold, VerifyMotion
<1>5. CASE MagGate
  <2>1. CASE UNCHANGED rounds /\ st' \in {"HOLD_WINDOW", "WAIT_RESTORE", st}
    BY <1>5, <2>1, NothingCounted DEF MagGate
  <2>2. CASE /\ s_magRound < MagRounds
             /\ begin_mag_round(s_magRound + 1)
             /\ UNCHANGED <<s_poseIndex, s_accelRound, s_saveAttempt, s_saveRetryUsed>>
    <3>1. s_magRound' = s_magRound + 1 /\ st' = "MAG_PROMPT"
      BY <2>2 DEF begin_mag_round
    <3> QED
      BY <2>2, <3>1, RoundLimits DEF RoundsInv, RoundsBounded
  <2> QED
    BY <1>5, <2>1, <2>2 DEF MagGate
<1>6. CASE HoldGate
  <2>1. identity = "CALIBRATION"
    BY <1>6 DEF HoldGate, MachineInv, ControlInv, StatesOfStage, Slot1
  <2>2. CASE s_saveAttempt < SaveAttempts /\ begin_outer_attempt
    BY <2>1, <2>2, OuterAttemptBounded
  <2>3. CASE UNCHANGED rounds /\ st' \in {"WAIT_SAVE", "WAIT_RESTORE", st}
    BY <1>6, <2>3, NothingCounted DEF HoldGate
  <2> QED
    BY <1>6, <2>2, <2>3 DEF HoldGate
<1>7. CASE VerifyGate
  BY <1>7, NothingCounted DEF VerifyGate
<1>8. CASE NothingDue
  BY <1>8, NothingCounted DEF NothingDue, control
<1> QED
  BY <1>1, <1>2, <1>3, <1>4, <1>5, <1>6, <1>7, <1>8 DEF imu_cal_service

LEMMA RoundsKept ==
  ASSUME MachineInv, RoundsInv, [Next]_vars
  PROVE  RoundsInv'
<1>0. identity' = identity
  BY DEF Next, ChipResets, ChipReset, Decodes, Decode, Pump, Tick, OperatorQ, OperatorConfirm,
         InputStep, Service, vars
<1>1. CASE Pump
  <2>1. CASE identity \in Slot1
    BY <1>0, <1>1, <2>1, CalPumpRounds DEF Pump, Cal, Tare, Check, Slot1, Slot2, Slot3
  <2>2. CASE identity \notin Slot1
    BY <1>0, <1>1, <2>2, NothingCounted DEF Pump, Cal, Tare, Check, Slot1, cal, rounds
  <2> QED
    BY <2>1, <2>2
<1>2. CASE Service
  <2>1. CASE identity \in Slot1
    BY <1>0, <1>2, <2>1, CalServiceRounds DEF Service, Cal, Tare, Check, Slot1, Slot2, Slot3
  <2>2. CASE identity \notin Slot1
    BY <1>0, <1>2, <2>2, NothingCounted DEF Service, Cal, Tare, Check, Slot1, cal, rounds
  <2> QED
    BY <2>1, <2>2
<1>3. CASE OperatorQ \/ OperatorConfirm
  <2>1. UNCHANGED cal
    BY <1>3 DEF OperatorQ, OperatorConfirm, Cal, Tare, Check, cal_post_q, cal_post_confirm
  <2>2. identity = "CALIBRATION" /\ st' \in BeforeOuterAttempt => st \in BeforeOuterAttempt
    BY <1>3 DEF OperatorQ, OperatorConfirm, Cal, Tare, Check, cal_post_q, cal_post_confirm,
                Slot2, Slot3, begin_restore, finish, Move, enter_state, BeforeOuterAttempt
  <2> QED
    BY <1>0, <2>1, <2>2, NothingCounted DEF cal, rounds
<1>4. CASE ChipResets \/ Decodes \/ (\E d \in 0..1 : Tick(d)) \/ UNCHANGED vars
  <2>1. UNCHANGED <<cal, st>>
    BY <1>4 DEF ChipResets, ChipReset, Decodes, Decode, Tick, vars, control
  <2> QED
    BY <1>0, <2>1, NothingCounted DEF cal, rounds
<1> QED
  BY <1>1, <1>2, <1>3, <1>4 DEF Next

(* A calibration repeats no round more often than its maximum              *)
(* (imu_cal.c's ACCEL, MAG and SAVE limits), the attempt that the          *)
(* gyroscope's gate begins without looking at the count included.          *)
THEOREM RoundsAreBounded == Spec => []RoundsBounded
<1>1. Init => RoundsInv
  BY RoundLimits DEF Init, InitCalVars, RoundsInv, RoundsBounded
<1>2. MachineInv /\ RoundsInv /\ [Next]_vars => RoundsInv'
  BY RoundsKept
<1>3. Spec => []RoundsInv
  BY <1>1, <1>2, MachineInvariant, PTL DEF Spec
<1>4. RoundsInv => RoundsBounded
  BY DEF RoundsInv
<1> QED
  BY <1>3, <1>4, PTL

-----------------------------------------------------------------------------
(* Types                                                                   *)

Kinds ==
  [state : Terminal \cup {"RUNNING"}, warning : BOOLEAN, restored : BOOLEAN]

(* The types that the invariants above leave open.                         *)
KindsInv ==
  /\ left \in Nat
  /\ good \in Nat \cup {NotGood}
  /\ term \in Results
  /\ result \in Kinds
  /\ step \in {"session", "tick", "service"}
  /\ sess \in SessionStates
  /\ verified \in BOOLEAN /\ s_haveEvidence \in BOOLEAN
  /\ s_expectedEpoch \in Nat /\ s_configEpoch \in Nat

(* How a step changes the control variables, whatever the machine.         *)
ClockShape ==
  /\ left' \in {left, 0, Window, GateTimeout}
  /\ good' \in {good, 0, NotGood}

(* A restore is begun for a verdict of the machine's own.                  *)
OwnVerdicts == MachineResults(identity) \ {Result("RECOVERY_FAILED", TRUE)}

VerdictShape ==
  \/ UNCHANGED <<term, result>>
  \/ (\E r \in OwnVerdicts : term' = r) /\ UNCHANGED result
  \/ /\ \E r \in MachineResults(identity) : \E b \in BOOLEAN : result' = Outcome(r, b)
     /\ UNCHANGED term

LEMMA ClockOf ==
  ASSUME NEW passing \in BOOLEAN
  PROVE  GateClock(passing) \in {good, 0, NotGood}
BY DEF GateClock

LEMMA MoveClocks ==
  /\ \A s, d, q : Move(s, d, q) => left' = d /\ good' = NotGood /\ UNCHANGED <<term, result>>
  /\ \A r : begin_restore(r) => left' = 0 /\ good' = NotGood /\ term' = r /\ UNCHANGED result
  /\ \A r, b : finish(r, b) => UNCHANGED <<left, good, term>> /\ result' = Outcome(r, b)
BY DEF Move, enter_state, begin_restore, finish

(* A step whose control has these shapes keeps the types of the control.   *)
LEMMA ShapesKeepKinds ==
  ASSUME KindsInv, identity \in Composed, ClockShape, VerdictShape
  PROVE  /\ left' \in Nat /\ good' \in Nat \cup {NotGood}
         /\ term' \in Results /\ result' \in Kinds
<1>1. left' \in Nat /\ good' \in Nat \cup {NotGood}
  BY DurationsAssumption DEF DurationsAssumption, KindsInv, ClockShape
<1>2. \A r \in MachineResults(identity) : r \in Results /\ r.state \in Terminal
                                            /\ r.warning \in BOOLEAN
  <2>1. \A r \in MachineResults(identity) :
          /\ r = Result(r.state, r.warning)
          /\ r.state \in Terminal
          /\ r.warning \in BOOLEAN
    BY ResultsOfMachines
  <2>2. \A state \in Terminal, warning \in BOOLEAN : Result(state, warning) \in Results
    BY DEF Result, Results
  <2> QED
    BY <2>1, <2>2
<1>3. term' \in Results
  BY <1>2 DEF KindsInv, VerdictShape, OwnVerdicts
<1>4. result' \in Kinds
  <2>1. \A r \in MachineResults(identity), b \in BOOLEAN : Outcome(r, b) \in Kinds
    BY <1>2 DEF Outcome, Kinds
  <2> QED
    BY <2>1 DEF KindsInv, VerdictShape
<1> QED
  BY <1>1, <1>3, <1>4

(* The control of each handler.                                            *)
LEMMA OperatorShapes ==
  ASSUME MachineInv, OperatorQ \/ OperatorConfirm
  PROVE  ClockShape /\ VerdictShape
<1>1. identity \in Composed
  BY DEF MachineInv, ControlInv, StatesOfStage
<1>2. /\ identity \in Slot1 \cup {"TARE", "TARE_CLEAR"} =>
           Result("CANCELLED", TRUE) \in OwnVerdicts
      /\ identity \in {"TARE_CHECK"} \cup Slot3 =>
           Result("CANCELLED", FALSE) \in OwnVerdicts
  BY DEF MachineResults, OwnVerdicts, Result, Slot1, Slot3
<1>3. CASE Cal(cal_post_q) \/ Cal(cal_post_confirm)
  BY <1>2, <1>3, MoveClocks
  DEF Cal, cal_post_q, cal_post_confirm, ClockShape, VerdictShape, OwnVerdicts, Slot1
<1>4. CASE Tare(tare_post_q) \/ Tare(tare_post_confirm)
  <2>1. Result("CANCELLED", q_sets_warning) \in OwnVerdicts
    <3>1. CASE identity = "TARE_CHECK"
      <4>1. q_sets_warning = FALSE
        BY <3>1 DEF q_sets_warning
      <4> QED
        BY <1>2, <3>1, <4>1
    <3>2. CASE identity \in {"TARE", "TARE_CLEAR"}
      <4>1. q_sets_warning = TRUE
        BY <3>2 DEF q_sets_warning
      <4> QED
        BY <1>2, <3>2, <4>1
    <3> QED
      BY <1>4, <3>1, <3>2 DEF Tare, Slot2
  <2> QED
    BY <1>4, <2>1, MoveClocks
    DEF Tare, tare_post_q, tare_post_confirm, ClockShape, VerdictShape, OwnVerdicts
<1>5. CASE Check(check_post_q)
  <2>1. Result("CANCELLED", FALSE) \in OwnVerdicts
    BY <1>2, <1>5 DEF Check
  <2>2. CASE finish(Result("CANCELLED", FALSE), FALSE)
    BY <2>1, <2>2, MoveClocks DEF ClockShape, VerdictShape, OwnVerdicts
  <2>3. CASE /\ update_gate(facts)
             /\ term' = Result("CANCELLED", FALSE)
             /\ UNCHANGED <<left, result>>
    BY <2>1, <2>3, ClockOf DEF update_gate, ClockShape, VerdictShape, GatePassing, GateClock
  <2> QED
    BY <1>5, <2>2, <2>3 DEF Check, check_post_q
<1> QED
  BY <1>3, <1>4, <1>5 DEF OperatorQ, OperatorConfirm

LEMMA CalServiceShapes ==
  ASSUME MachineInv, identity \in Slot1, imu_cal_service
  PROVE  ClockShape /\ VerdictShape
<1>1. Result("FAILED", TRUE) \in OwnVerdicts
  BY DEF MachineResults, OwnVerdicts, Result
<1>2. \A p : WaitAtGate(p) => good' \in {good, 0, NotGood} /\ UNCHANGED <<left, term, result>>
  BY DEF WaitAtGate, GateClock
<1> USE MoveClocks DEF ClockShape, VerdictShape
<1>3. CASE AccelWindow \/ MagMotion \/ HoldWindow \/ SaveRetryHold \/ VerifyMotion
  BY <1>3 DEF AccelWindow, AccelPrompt, MagMotion, HoldWindow, SaveRetryHold, VerifyMotion
<1>4. CASE AccelGate \/ GyroGate
  BY <1>2, <1>4 DEF AccelGate, AccelPrompt, GyroGate, begin_outer_attempt, begin_mag_round
<1>5. CASE MagGate \/ HoldGate
  BY <1>1, <1>2, <1>5 DEF MagGate, HoldGate, begin_outer_attempt, begin_mag_round
<1>6. CASE VerifyGate
  BY <1>1, <1>2, <1>6 DEF VerifyGate
<1>7. CASE NothingDue
  BY <1>7 DEF NothingDue, control
<1> QED
  BY <1>3, <1>4, <1>5, <1>6, <1>7 DEF imu_cal_service

LEMMA OtherServiceShapes ==
  ASSUME MachineInv,
         (identity \in Slot2 /\ imu_tare_service) \/ (identity \in Slot3 /\ imu_check_service)
  PROVE  ClockShape /\ VerdictShape
<1>1. /\ Result("FAILED", TRUE) \in OwnVerdicts
      /\ identity = "PROBE" => Result("TIMED_OUT", FALSE) \in OwnVerdicts
      /\ identity \notin Slot3 => Result("SUCCEEDED", FALSE) \in OwnVerdicts
  BY DEF MachineResults, OwnVerdicts, Result
<1>2. CASE identity \in Slot2 /\ imu_tare_service
  <2>1. identity \notin Slot3
    BY <1>2 DEF Slot2, Slot3
  <2>2. CASE UNCHANGED control
    BY <2>2 DEF control, ClockShape, VerdictShape
  <2>3. CASE Move("WAIT_TARE_NOW", 0, "TARE_NOW")
    BY <2>3, MoveClocks DEF ClockShape, VerdictShape
  <2>4. CASE begin_restore(Result("SUCCEEDED", FALSE)) \/ begin_restore(Result("FAILED", TRUE))
    BY <1>1, <2>1, <2>4, MoveClocks DEF ClockShape, VerdictShape
  <2> QED
    BY <1>2, <2>2, <2>3, <2>4 DEF imu_tare_service
<1>3. CASE identity \in Slot3 /\ imu_check_service
  <2>1. CASE UNCHANGED control
    BY <2>1 DEF control, ClockShape, VerdictShape
  <2>2. CASE /\ update_gate(facts)
             /\ UNCHANGED <<left, result>>
             /\ \/ identity = "PROBE" /\ term' = Result("TIMED_OUT", FALSE)
                \/ UNCHANGED term
    <3>1. good' \in {good, 0, NotGood}
      BY <2>2 DEF update_gate, GateClock
    <3> QED
      BY <1>1, <2>2, <3>1 DEF ClockShape, VerdictShape
  <2> QED
    BY <1>3, <2>1, <2>2 DEF imu_check_service, DeadlinePassed
<1> QED
  BY <1>2, <1>3

LEMMA PumpShapes ==
  ASSUME MachineInv, Pump
  PROVE  ClockShape /\ VerdictShape
<1>1. /\ Result("FAILED", TRUE) \in OwnVerdicts
      /\ Result("RECOVERY_FAILED", TRUE) \in MachineResults(identity)
      /\ identity \notin Slot3 => Result("SUCCEEDED", FALSE) \in OwnVerdicts
      /\ st = "WAIT_RESTORE" => term \in MachineResults(identity)
  BY DEF MachineResults, OwnVerdicts, Result, MachineInv, ControlInv
<1> USE DEF ClockShape, VerdictShape
<1>2. CASE Cal(imu_cal_adapter_pump)
  <2>1. identity \notin Slot3
    BY <1>2 DEF Cal, Slot1, Slot3
  <2>2. CASE UNCHANGED control
    BY <2>2 DEF control
  <2>3. ASSUME NEW ok \in BOOLEAN, ClearAnswered(ok) \/ ConfigAnswered(ok) \/ VerifyAnswered(ok)
        PROVE  ClockShape /\ VerdictShape
    BY <1>1, <2>1, <2>3, MoveClocks DEF ClearAnswered, ConfigAnswered, VerifyAnswered
  <2>4. ASSUME NEW ok \in BOOLEAN, SaveAnswered(ok)
        PROVE  ClockShape /\ VerdictShape
    BY <1>1, <2>1, <2>4, MoveClocks
    DEF SaveAnswered, SaveSucceeded, FirstSaveFailure, SecondSaveFailure, LastSaveFailure,
        begin_same_session_verify, enter_state, begin_outer_attempt, begin_mag_round
  <2>5. ASSUME NEW ok \in BOOLEAN, RestoreAnswered(ok)
        PROVE  ClockShape /\ VerdictShape
    BY <1>1, <2>5, MoveClocks DEF RestoreAnswered
  <2> QED
    BY <1>2, <2>2, <2>3, <2>4, <2>5 DEF Cal, imu_cal_adapter_pump
<1>3. CASE Tare(imu_tare_adapter_pump)
  <2>1. identity \notin Slot3
    BY <1>3 DEF Tare, Slot2, Slot3
  <2>2. CASE UNCHANGED control
    BY <2>2 DEF control
  <2>3. ASSUME NEW ok \in BOOLEAN, TareConfigAnswered(ok) \/ TareNowAnswered(ok)
        PROVE  ClockShape /\ VerdictShape
    BY <1>1, <2>3, MoveClocks DEF TareConfigAnswered, TareNowAnswered
  <2>4. ASSUME NEW ok \in BOOLEAN, PersistAnswered(ok) \/ TareClearAnswered(ok)
        PROVE  ClockShape /\ VerdictShape
    BY <1>1, <2>1, <2>4, MoveClocks DEF PersistAnswered, TareClearAnswered
  <2>5. ASSUME NEW ok \in BOOLEAN, TareRestoreAnswered(ok)
        PROVE  ClockShape /\ VerdictShape
    BY <1>1, <2>5, MoveClocks DEF TareRestoreAnswered
  <2> QED
    BY <1>3, <2>2, <2>3, <2>4, <2>5 DEF Tare, imu_tare_adapter_pump
<1>4. CASE Check(imu_check_adapter_pump)
  <2>1. CASE /\ UNCHANGED good \/ update_gate(FedFacts)
             /\ UNCHANGED <<left, term, result>>
    BY <2>1 DEF update_gate, GateClock
  <2>2. ASSUME NEW ok \in BOOLEAN, CheckConfigAnswered(ok)
        PROVE  ClockShape /\ VerdictShape
    BY <1>1, <2>2 DEF CheckConfigAnswered, enter_phase, check_begin_restore
  <2>3. ASSUME NEW ok \in BOOLEAN, CheckRestoreAnswered(ok)
        PROVE  ClockShape /\ VerdictShape
    BY <1>1, <2>3, MoveClocks DEF CheckRestoreAnswered
  <2> QED
    BY <1>4, <2>1, <2>2, <2>3 DEF Check, imu_check_adapter_pump
<1> QED
  BY <1>2, <1>3, <1>4 DEF Pump

(* What a call leaves of the session.                                      *)
LEMMA CallKeepsState ==
  ASSUME NEW request, NEW ok \in BOOLEAN, Call(request, ok), sess \in SessionStates
  PROVE  sess' \in SessionStates
BY DEF Call, session, ApplySet, RestoreBumps, ConfigureMismatch, ChipCommand, ClearDcd,
       SessionStates

(* The variables that are of one machine only.                             *)
FlagShape ==
  /\ verified' \in {verified, TRUE, s_haveEvidence}
  /\ s_haveEvidence' = s_haveEvidence \/ s_haveEvidence' \in BOOLEAN
  /\ s_expectedEpoch' \in {s_expectedEpoch, epoch'}
  /\ s_configEpoch' \in {s_configEpoch, epoch'}

LEMMA PumpFlags ==
  ASSUME MachineInv, KindsInv, Pump
  PROVE  FlagShape /\ sess' \in SessionStates
<1>1. sess' \in SessionStates
  <2>1. CASE UNCHANGED session
    BY <2>1 DEF session, KindsInv
  <2>2. CASE \E ok \in BOOLEAN : Call(pending, ok)
    BY <2>2, CallKeepsState DEF KindsInv
  <2> QED
    BY <2>1, <2>2
    DEF Pump, Cal, Tare, Check, imu_cal_adapter_pump, imu_tare_adapter_pump,
        imu_check_adapter_pump
<1>2. CASE Cal(imu_cal_adapter_pump)
  BY <1>1, <1>2 DEF Cal, imu_cal_adapter_pump, FlagShape, tare, check
<1>3. CASE Tare(imu_tare_adapter_pump)
  <2>1. UNCHANGED <<verified, s_configEpoch>>
    BY <1>3 DEF Tare, imu_tare_adapter_pump, check
  <2>2. CASE s_haveEvidence' = EvidenceWith /\ UNCHANGED s_expectedEpoch
    <3>1. EvidenceWith \in BOOLEAN
      BY DEF EvidenceWith
    <3> QED
      BY <1>1, <2>1, <2>2, <3>1 DEF FlagShape
  <2>3. ASSUME NEW ok \in BOOLEAN,
               \/ TareConfigAnswered(ok) \/ TareNowAnswered(ok) \/ PersistAnswered(ok)
               \/ TareClearAnswered(ok) \/ TareRestoreAnswered(ok)
        PROVE  FlagShape /\ sess' \in SessionStates
    BY <1>1, <2>1, <2>3
    DEF FlagShape, TareConfigAnswered, TareNowAnswered, PersistAnswered, TareClearAnswered,
        TareRestoreAnswered, tare
  <2> QED
    BY <1>3, <2>2, <2>3 DEF Tare, imu_tare_adapter_pump
<1>4. CASE Check(imu_check_adapter_pump)
  BY <1>1, <1>4
  DEF Check, imu_check_adapter_pump, CheckConfigAnswered, CheckRestoreAnswered, FlagShape, tare
<1> QED
  BY <1>1, <1>2, <1>3, <1>4 DEF Pump

LEMMA OtherFlags ==
  ASSUME MachineInv, Service \/ OperatorQ \/ OperatorConfirm
  PROVE  FlagShape /\ UNCHANGED sess
<1>1. UNCHANGED sess
  BY DEF Service, OperatorQ, OperatorConfirm, InputStep, session
<1>2. CASE OperatorQ \/ OperatorConfirm
  BY <1>1, <1>2
  DEF OperatorQ, OperatorConfirm, Cal, Tare, Check, cal_post_q, cal_post_confirm, tare_post_q,
      tare_post_confirm, check_post_q, evidence, tare, check, FlagShape
<1>3. CASE Service
  <2>1. CASE Cal(imu_cal_service)
    <3>1. UNCHANGED <<tare, check>>
      BY <2>1 DEF Cal
    <3>2. verified' \in {verified, TRUE}
      BY <2>1 DEF Cal, imu_cal_service, VerifyGate, NothingDue
    <3> QED
      BY <1>1, <3>1, <3>2 DEF FlagShape, tare, check
  <2>2. CASE Tare(imu_tare_service)
    BY <1>1, <2>2 DEF Tare, imu_tare_service, FlagShape, tare, check
  <2>3. CASE Check(imu_check_service)
    BY <1>1, <2>3 DEF Check, imu_check_service, FlagShape, tare, evidence
  <2> QED
    BY <1>3, <2>1, <2>2, <2>3 DEF Service
<1> QED
  BY <1>1, <1>2, <1>3

(* TICK counts the two clocks on, within their range.                      *)
LEMMA TickKinds ==
  ASSUME KindsInv, NEW d \in 0..1, tick(d)
  PROVE  left' \in Nat /\ good' \in Nat \cup {NotGood}
<1>1. left' \in Nat
  BY DEF tick, KindsInv
<1>2. SustainedGood \in Nat
  BY DurationsAssumption DEF DurationsAssumption
<1>3. good' \in Nat \cup {NotGood}
  <2>1. CASE good = NotGood
    BY <2>1 DEF tick
  <2>2. CASE good # NotGood
    <3>1. good \in Nat
      BY <2>2 DEF KindsInv
    <3> QED
      BY <1>2, <2>2, <3>1 DEF tick
  <2> QED
    BY <2>1, <2>2
<1> QED
  BY <1>1, <1>3

LEMMA KindsKept ==
  ASSUME MachineInv, MachineInv', KindsInv, [Next]_vars
  PROVE  KindsInv'
<1>1. identity \in Composed /\ identity' = identity /\ epoch' \in Nat
  <2>1. identity' = identity
    BY DEF Next, ChipResets, ChipReset, Decodes, Decode, Pump, Tick, OperatorQ,
           OperatorConfirm, InputStep, Service, vars
  <2> QED
    BY <2>1 DEF MachineInv, ControlInv, StatesOfStage, FactsInv
<1>2. step' \in {"session", "tick", "service"}
  BY DEF Next, ChipResets, ChipReset, Decodes, Decode, Pump, Tick, OperatorQ,
         OperatorConfirm, InputStep, Service, vars, KindsInv
<1>3. CASE Pump \/ Service \/ OperatorQ \/ OperatorConfirm
  <2>1. ClockShape /\ VerdictShape
    <3>1. CASE Service
      BY <3>1, CalServiceShapes, OtherServiceShapes DEF Service, Cal, Tare, Check
    <3> QED
      BY <1>3, <3>1, PumpShapes, OperatorShapes
  <2>2. FlagShape /\ sess' \in SessionStates
    <3>1. CASE Pump
      BY <3>1, PumpFlags
    <3>2. CASE Service \/ OperatorQ \/ OperatorConfirm
      BY <3>2, OtherFlags DEF KindsInv
    <3> QED
      BY <1>3, <3>1, <3>2
  <2>3. /\ left' \in Nat /\ good' \in Nat \cup {NotGood}
        /\ term' \in Results /\ result' \in Kinds
    BY <1>1, <2>1, ShapesKeepKinds
  <2>4. /\ verified' \in BOOLEAN /\ s_haveEvidence' \in BOOLEAN
        /\ s_expectedEpoch' \in Nat /\ s_configEpoch' \in Nat
    BY <1>1, <2>2 DEF FlagShape, KindsInv
  <2> QED
    BY <1>2, <2>2, <2>3, <2>4 DEF KindsInv
<1>4. CASE \E d \in 0..1 : Tick(d)
  <2>1. left' \in Nat /\ good' \in Nat \cup {NotGood}
    BY <1>4, TickKinds DEF Tick
  <2>2. UNCHANGED <<term, result, sess, verified, tare, check>>
    BY <1>4 DEF Tick, evidence, session
  <2> QED
    BY <1>2, <2>1, <2>2 DEF KindsInv, tare, check
<1>5. CASE ChipResets \/ Decodes \/ UNCHANGED vars
  <2>1. UNCHANGED <<control, verified, tare, check>> /\ sess' \in {sess, "RECOVERING"}
    BY <1>5 DEF ChipResets, ChipReset, Decodes, Decode, vars, evidence, session
  <2>2. sess' \in SessionStates
    BY <2>1 DEF KindsInv, SessionStates
  <2> QED
    BY <1>2, <2>1, <2>2 DEF KindsInv, control, tare, check
<1> QED
  BY <1>3, <1>4, <1>5 DEF Next

LEMMA StartKinds == ASSUME Init PROVE KindsInv
<1>1. /\ good = NotGood /\ ~verified /\ sess = "CONFIGURING" /\ step = "session"
      /\ verified = FALSE
      /\ term = Result("NOT_REQUESTED", FALSE)
      /\ result = Outcome(Result("RUNNING", FALSE), FALSE)
  BY DEF Init, imu_cal_init, imu_cal_init_dcd_clear, imu_tare_init, imu_check_init, InitBase
<1>2. left \in Nat
  BY DurationsAssumption
  DEF Init, imu_cal_init, imu_cal_init_dcd_clear, imu_tare_init, imu_check_init,
      DurationsAssumption
<1>3. s_haveEvidence = FALSE /\ s_expectedEpoch = 0 /\ s_configEpoch = 0
  BY DEF Init, InitTareVars, InitCheckVars
<1>4. term \in Results
  BY <1>1 DEF Results, Result, Terminal
<1>5. result \in Kinds
  BY <1>1 DEF Kinds, Outcome, Result
<1> QED
  BY <1>1, <1>2, <1>3, <1>4, <1>5 DEF KindsInv, SessionStates

(* The machines' variables keep their types, and the rounds of a           *)
(* calibration their ranges (imu_cal.c's, imu_tare.c's and imu_check.c's   *)
(* static state).                                                          *)
THEOREM MachineTypes == Spec => []TypeOK
<1>1. Init => KindsInv
  BY StartKinds
<1>2. MachineInv /\ MachineInv' /\ KindsInv /\ [Next]_vars => KindsInv'
  BY KindsKept
<1>3. Spec => []KindsInv
  BY <1>1, <1>2, MachineInvariant, PTL DEF Spec
<1>4. MachineInv /\ RoundsBounded /\ KindsInv => TypeOK
  <2> SUFFICES ASSUME MachineInv, RoundsBounded, KindsInv PROVE TypeOK
    OBVIOUS
  <2>1. pending \in Requests /\ identity \in Composed
    BY DEF MachineInv, ControlInv, StatesOfStage, RequestOf, Requests
  <2>2. ControlTypeOK
    BY <2>1 DEF KindsInv, Kinds, ControlTypeOK
  <2>3. SessionTypeOK
    BY DEF MachineInv, FactsInv, KindsInv, SessionTypeOK
  <2>4. CountersTypeOK
    BY RoundLimits DEF RoundsBounded, KindsInv, CountersTypeOK
  <2> QED
    BY <2>2, <2>3, <2>4 DEF TypeOK
<1> QED
  BY <1>3, <1>4, MachineInvariant, RoundsAreBounded, PTL

-----------------------------------------------------------------------------
(* The machines as the owner loops have them                               *)
(*                                                                         *)
(* StagePump reduces the machine of the running stage to a phase.  Phase   *)
(* is the phase of a state; the coordinator has armed the stage, and moves *)
(* nothing of its own until the machine ends.                              *)

CONSTANT AsFound     \* the reports that are on when the stage starts, whichever

PhaseAt(id, s) ==
  CASE s \in {"CLEAR_CONFIRM", "WAIT_CONFIRM"} -> "confirm"
    [] s = "WAIT_CONFIG" -> "config"
    [] s = "WAIT_CLEAR" -> IF id = "DCD_CLEAR" THEN "config" ELSE "commit"
    [] s \in {"ACCEL_PROMPT", "GYRO_PROMPT", "MAG_PROMPT", "VERIFY_PROMPT"} -> "prompt"
    [] s \in {"WAIT_SAVE", "WAIT_TARE_NOW", "WAIT_PERSIST"} -> "commit"
    [] s = "WAIT_VERIFY" -> "verify"
    [] s = "WAIT_RESTORE" -> "restore"
    [] s = "DONE" -> "done"
    [] OTHER -> "work"

Phase == PhaseAt(identity, st)
Stream == IF reports = "asFound" THEN AsFound ELSE reports
Machine == [id |-> identity, result |-> Result(result.state, result.warning)]

Owner == INSTANCE StagePump WITH
  phase <- Phase, reports <- Stream, machine <- Machine,
  s_inited <- TRUE, s_plan <- <<>>, s_active <- identity, s_armed <- TRUE,
  s_request <- "RUN_COMMAND", s_do_not_acquire <- FALSE, s_process_stop <- FALSE,
  s_warning <- FALSE, s_complete <- FALSE, s_unrestorable <- FALSE, s_slot_done <- 0,
  s_results <- <<>>

(* Each step of a machine is the step of StagePump that stands for it.     *)
OwnerSees ==
  /\ ChipResets => Owner!ResetNoticed /\ UNCHANGED <<Phase, Machine>>
  /\ Pump => Owner!PumpOther \/ Owner!RestoreSucceeds
  /\ OperatorQ => Owner!MachineTakesQ /\ UNCHANGED Owner!session
  /\ OperatorConfirm => Owner!MachineTakesConfirm /\ UNCHANGED Owner!session
  /\ Service => Owner!MachineServed /\ UNCHANGED <<Owner!session, Owner!coordinator>>
  /\ Decodes \/ (\E d \in 0..1 : Tick(d)) => UNCHANGED <<Phase, Machine, Owner!session>>

(* A machine starts in the first phase of its stage and moves as StagePump *)
(* lets it (the adapters and services of imu_cal.c, imu_tare.c and         *)
(* imu_check.c, as imu_cmd.c and the owner loops see them).                *)
MachineIsPhase == Phase = Owner!FirstPhase /\ [][OwnerSees]_vars

(* A restore is begun for a verdict of the machine's own, never for a      *)
(* failed recovery; a DCD-clear waits in the session it found.             *)
SeamInv ==
  /\ term.state # "RECOVERY_FAILED"
  /\ identity = "DCD_CLEAR" /\ st \in {"CLEAR_CONFIRM", "WAIT_CLEAR"} =>
       sess \in {"CONFIGURING", "RECOVERING"}

LEMMA CallSeen ==
  ASSUME NEW request, NEW ok \in BOOLEAN, Call(request, ok)
  PROVE  /\ request \in {"SAVE_DCD", "TARE_NOW", "PERSIST", "CLEAR_TARE"} =>
              UNCHANGED <<sess, reports>>
         /\ request \in {"CONFIGURE", "VERIFY", "RESTORE"} /\ sess \notin LegalIn(request) =>
              ~ok /\ UNCHANGED <<sess, reports>>
         /\ request \in {"CONFIGURE", "VERIFY", "RESTORE"} /\ sess \in LegalIn(request) =>
              \/ ~ok /\ sess' = "FAULTED" /\ reports' = "unknown"
              \/ /\ request = "RESTORE" /\ ok
                 /\ sess' = "CONFIGURING" /\ reports' = "production"
              \/ /\ request # "RESTORE"
                 /\ ok \/ (request = "CONFIGURE" /\ identity \in Slot3)
                 /\ sess' = "COMMAND" /\ reports' = "command"
         /\ request = "CLEAR_DCD" =>
              \/ ~ok /\ UNCHANGED <<sess, reports>>
              \/ sess = "CONFIGURING" /\ reports' = "none"
                   /\ sess' \in {"CONFIGURING", "FAULTED", "RECOVERING"}
<1>1. CASE sess \notin LegalIn(request) /\ ~ok /\ UNCHANGED session
  BY <1>1 DEF session, LegalIn
<1>2. CASE sess \in LegalIn(request) /\ request # "CLEAR_DCD"
  BY <1>2 DEF Call, ApplySet, ConfigureMismatch, ChipCommand, LegalIn
<1>3. CASE sess \in LegalIn(request) /\ request = "CLEAR_DCD"
  <2>1. PICK deleted, cleared, reopened, reset \in BOOLEAN :
          ClearDcd(deleted, cleared, reopened, reset) /\ ok = (deleted /\ cleared /\ reopened)
    BY <1>3 DEF Call
  <2>2. sess = "CONFIGURING"
    BY <1>3 DEF LegalIn
  <2> QED
    BY <1>3, <2>1, <2>2 DEF ClearDcd
<1> QED
  BY <1>1, <1>2, <1>3 DEF Call

(* The instance has the identities and results of its own.                 *)
LEMMA SameStages ==
  /\ Owner!Composed = Composed /\ Owner!Cmd!Composed = Composed
  /\ Owner!Slot3 = Slot3
  /\ \A state, warning : Owner!Result(state, warning) = Result(state, warning)
  /\ \A id : Owner!MachineResults(id) = MachineResults(id)
  /\ \A id : Owner!Cmd!MachineResults(id) = MachineResults(id)
BY DEF Owner!Composed, Owner!Cmd!Composed, Composed, Owner!Slot1, Owner!Cmd!Slot1, Slot1,
       Owner!Slot2, Owner!Cmd!Slot2, Slot2, Owner!Slot3, Owner!Cmd!Slot3, Slot3,
       Owner!Result, Owner!Cmd!Result, Result,
       Owner!MachineResults, Owner!Cmd!MachineResults, MachineResults

(* What the coordinator sees of a machine that goes on, and of one that    *)
(* ends.                                                                   *)
LEMMA GoesOn ==
  ASSUME UNCHANGED <<identity, result>>
  PROVE  UNCHANGED Owner!coordinator /\ UNCHANGED Machine
BY DEF Owner!coordinator, Machine

LEMMA EndsSeen ==
  ASSUME MachineInv, ~Ended, identity' = identity, NEW r \in MachineResults(identity), NEW b,
         finish(r, b)
  PROVE  Owner!MachineEnds(r)
<1>1. identity \in Composed
  BY DEF MachineInv, ControlInv, StatesOfStage
<1>2. r = Result(r.state, r.warning)
  BY <1>1, ResultsOfMachines
<1>3. Machine' = [Machine EXCEPT !.result = r]
  BY <1>2 DEF finish, Outcome, Machine
<1>4. Machine.id = identity /\ Machine.result.state = "RUNNING"
  BY DEF Machine, Result, Ended
<1>5. Phase' = "done"
  BY DEF finish, Phase, PhaseAt
<1> QED
  BY <1>1, <1>3, <1>4, <1>5, SameStages
  DEF Owner!MachineEnds, Owner!Cmd!MachineFinishes, Owner!Cmd!MachineRunning

(* The phases of the states that wait for an answer.                       *)
LEMMA PhaseKnown ==
  ASSUME StatesOfStage
  PROVE  /\ identity \in Composed
         /\ st = "WAIT_CONFIG" => Phase = "config" /\ identity # "DCD_CLEAR"
         /\ st = "WAIT_RESTORE" => Phase = "restore"
         /\ st = "WAIT_VERIFY" => Phase = "verify" /\ identity = "CALIBRATION"
         /\ st = "WAIT_SAVE" => Phase = "commit" /\ identity = "CALIBRATION"
         /\ st \in {"WAIT_TARE_NOW", "WAIT_PERSIST"} => Phase = "commit" /\ identity = "TARE"
         /\ st = "WAIT_CLEAR" =>
              \/ Phase = "config" /\ identity = "DCD_CLEAR"
              \/ Phase = "commit" /\ identity = "TARE_CLEAR"
BY DEF StatesOfStage, Phase, PhaseAt, CalStates, CalVerify, Composed, Slot1, Slot2, Slot3

(* The stage's report set, asked for and answered: to state s, or to the   *)
(* restore.                                                                *)
LEMMA ConfigureSeen ==
  ASSUME MachineInv, st \in {"WAIT_CONFIG", "WAIT_VERIFY"}, NEW ok \in BOOLEAN,
         Call(pending, ok), UNCHANGED <<identity, result>>,
         ok => Phase' \in Owner!AfterConfigure,
         ~ok => st' = "WAIT_RESTORE"
  PROVE  Owner!PumpConfigure
<1>1. /\ Phase = (IF st = "WAIT_CONFIG" THEN "config" ELSE "verify")
      /\ identity # "DCD_CLEAR"
  BY PhaseKnown DEF MachineInv, ControlInv
<1>2. pending = (IF st = "WAIT_CONFIG" THEN "CONFIGURE" ELSE "VERIFY")
  BY DEF MachineInv, ControlInv, RequestOf
<1>3. Owner!InMode <=> sess \in LegalIn(pending)
  BY <1>1, <1>2 DEF Owner!InMode, LegalIn
<1>4. UNCHANGED Owner!coordinator
  BY GoesOn
<1>5. ~ok => Phase' = "restore"
  BY DEF Phase, PhaseAt
<1>6. CASE sess \notin LegalIn(pending)
  <2>1. ~ok /\ UNCHANGED <<sess, reports>>
    BY <1>2, <1>6, CallSeen
  <2>2. UNCHANGED Owner!session
    BY <2>1 DEF Owner!session, Stream
  <2> QED
    BY <1>1, <1>3, <1>4, <1>5, <1>6, <2>1, <2>2 DEF Owner!PumpConfigure
<1>7. CASE sess \in LegalIn(pending)
  <2>1. \/ ~ok /\ sess' = "FAULTED" /\ reports' = "unknown"
        \/ /\ ok \/ (st = "WAIT_CONFIG" /\ identity \in Slot3)
           /\ sess' = "COMMAND" /\ reports' = "command"
    BY <1>2, <1>7, CallSeen
  <2>2. CASE ~ok /\ sess' = "FAULTED" /\ reports' = "unknown"
    <3>1. Owner!Faults
      BY <2>2 DEF Owner!Faults, Owner!NewReports, Stream
    <3> QED
      BY <1>1, <1>3, <1>4, <1>5, <1>7, <2>2, <3>1 DEF Owner!PumpConfigure
  <2>3. CASE /\ ok \/ (st = "WAIT_CONFIG" /\ identity \in Slot3)
             /\ sess' = "COMMAND" /\ reports' = "command"
    <3>1. Owner!NewReports("command", "COMMAND")
      BY <2>3 DEF Owner!NewReports, Stream
    <3>2. Phase' \in Owner!AfterConfigure
      <4>1. CASE ok
        BY <4>1
      <4>2. CASE ~ok
        BY <1>5, <2>3, <4>2, SameStages DEF Owner!AfterConfigure, Slot3
      <4> QED
        BY <4>1, <4>2
    <3> QED
      BY <1>1, <1>3, <1>4, <1>7, <3>1, <3>2 DEF Owner!PumpConfigure
  <2> QED
    BY <2>1, <2>2, <2>3
<1> QED
  BY <1>6, <1>7

(* A save, a tare or its clear, answered.                                  *)
LEMMA CommitSeen ==
  ASSUME MachineInv, NEW ok \in BOOLEAN, Call(pending, ok), UNCHANGED <<identity, result>>,
         \/ st \in {"WAIT_SAVE", "WAIT_TARE_NOW", "WAIT_PERSIST"}
         \/ st = "WAIT_CLEAR" /\ identity = "TARE_CLEAR",
         Phase' \in Owner!AfterCommit
  PROVE  Owner!PumpCommit
<1>1. Phase = "commit"
  BY PhaseKnown DEF MachineInv, ControlInv
<1>2. pending \in {"SAVE_DCD", "TARE_NOW", "PERSIST", "CLEAR_TARE"}
  BY DEF MachineInv, ControlInv, RequestOf
<1>3. UNCHANGED <<sess, reports>>
  BY <1>2, CallSeen
<1>4. UNCHANGED Owner!session
  BY <1>3 DEF Owner!session, Stream
<1> QED
  BY <1>1, <1>4, GoesOn DEF Owner!PumpCommit

(* The restore, answered.                                                  *)
LEMMA RestoreSeen ==
  ASSUME MachineInv, SeamInv, st = "WAIT_RESTORE", identity' = identity,
         NEW ok \in BOOLEAN, Call(pending, ok),
         \/ ok /\ finish(term, TRUE)
         \/ ~ok /\ finish(Result("RECOVERY_FAILED", TRUE), FALSE)
  PROVE  Owner!RestoreSucceeds \/ Owner!RestoreFails
<1>1. /\ Phase = "restore" /\ ~Ended /\ pending = "RESTORE" /\ identity \in Composed
      /\ term \in MachineResults(identity)
  BY PhaseKnown DEF MachineInv, ControlInv, RequestOf
<1>2. sess \in LegalIn(pending) <=> sess \in {"COMMAND", "CONFIGURING"}
  BY <1>1 DEF LegalIn
<1>3. CASE ok
  <2>1. /\ sess \in {"COMMAND", "CONFIGURING"}
        /\ sess' = "CONFIGURING" /\ reports' = "production"
    BY <1>1, <1>2, <1>3, CallSeen
  <2>2. Owner!NewReports("production", "CONFIGURING")
    BY <2>1 DEF Owner!NewReports, Stream
  <2>3. term \in Owner!Verdicts
    <3>1. term # Result("RECOVERY_FAILED", TRUE)
      BY DEF SeamInv, Result
    <3> QED
      BY <1>1, <3>1, SameStages DEF Owner!Verdicts
  <2>4. Owner!MachineEnds(term)
    BY <1>1, <1>3, EndsSeen
  <2> QED
    BY <1>1, <2>1, <2>2, <2>3, <2>4 DEF Owner!RestoreSucceeds
<1>4. CASE ~ok
  <2>1. IF sess \in {"COMMAND", "CONFIGURING"}
        THEN sess' = "FAULTED" /\ reports' = "unknown"
        ELSE UNCHANGED <<sess, reports>>
    BY <1>1, <1>2, <1>4, CallSeen
  <2>2. IF sess \in {"COMMAND", "CONFIGURING"} THEN Owner!Faults ELSE UNCHANGED Owner!session
    BY <2>1 DEF Owner!Faults, Owner!NewReports, Owner!session, Stream
  <2>3. Owner!MachineEnds(Result("RECOVERY_FAILED", TRUE))
    <3>1. Result("RECOVERY_FAILED", TRUE) \in MachineResults(identity)
      BY <1>1, ResultsOfMachines
    <3>2. finish(Result("RECOVERY_FAILED", TRUE), FALSE)
      BY <1>4
    <3> QED
      BY <1>1, <3>1, <3>2, EndsSeen
  <2> QED
    BY <1>1, <2>2, <2>3, SameStages DEF Owner!RestoreFails
<1> QED
  BY <1>3, <1>4

(* The clear of DCD, answered.                                             *)
LEMMA ClearSeen ==
  ASSUME MachineInv, SeamInv, st = "WAIT_CLEAR", identity = "DCD_CLEAR", identity' = identity,
         NEW ok \in BOOLEAN, Call(pending, ok), ClearAnswered(ok)
  PROVE  Owner!PumpClearDcd
<1>1. /\ Phase = "config" /\ ~Ended /\ pending = "CLEAR_DCD" /\ identity \in Composed
      /\ sess \in {"CONFIGURING", "RECOVERING"}
  BY PhaseKnown DEF MachineInv, ControlInv, RequestOf, SeamInv
<1>2. \/ ~ok /\ UNCHANGED <<sess, reports>>
      \/ sess = "CONFIGURING" /\ reports' = "none"
           /\ sess' \in {"CONFIGURING", "FAULTED", "RECOVERING"}
  BY <1>1, CallSeen
<1>3. CASE sess' \in {"FAULTED", "RECOVERING"} /\ finish(Result("RECOVERY_FAILED", TRUE), FALSE)
  <2>1. Owner!MachineEnds(Owner!Result("RECOVERY_FAILED", TRUE))
    <3>1. Result("RECOVERY_FAILED", TRUE) \in MachineResults(identity)
      BY <1>1, ResultsOfMachines
    <3> QED
      BY <1>1, <1>3, <3>1, EndsSeen, SameStages
  <2>2. \/ sess = "CONFIGURING" /\ \E s \in {"FAULTED", "RECOVERING"} : Owner!NewReports("none", s)
        \/ sess = "RECOVERING" /\ UNCHANGED Owner!session
    <3>1. CASE UNCHANGED <<sess, reports>>
      BY <1>1, <1>3, <3>1 DEF Owner!session, Stream
    <3>2. CASE sess = "CONFIGURING" /\ reports' = "none"
      BY <1>3, <3>2 DEF Owner!NewReports, Stream
    <3> QED
      BY <1>2, <3>1, <3>2
  <2> QED
    BY <1>1, <2>1, <2>2 DEF Owner!PumpClearDcd
<1>4. CASE /\ sess' \notin {"FAULTED", "RECOVERING"}
           /\ begin_restore(IF ok THEN Result("SUCCEEDED", FALSE) ELSE Result("FAILED", TRUE))
  <2>1. Phase' = "restore" /\ UNCHANGED Owner!coordinator
    BY <1>4, GoesOn DEF begin_restore, enter_state, Phase, PhaseAt
  <2>2. sess = "CONFIGURING"
    BY <1>1, <1>2, <1>4
  <2>3. Owner!NewReports("none", "CONFIGURING") \/ UNCHANGED Owner!session
    <3>1. CASE UNCHANGED <<sess, reports>>
      BY <3>1 DEF Owner!session, Stream
    <3>2. CASE reports' = "none" /\ sess' = "CONFIGURING"
      BY <3>2 DEF Owner!NewReports, Stream
    <3> QED
      BY <1>2, <1>4, <3>1, <3>2
  <2> QED
    BY <1>1, <2>1, <2>2, <2>3 DEF Owner!PumpClearDcd
<1> QED
  BY <1>3, <1>4 DEF ClearAnswered

(* A pump that finds no request.                                           *)
LEMMA NothingPumped ==
  ASSUME MachineInv, pending = "NONE", UNCHANGED <<identity, st, result, session>>
  PROVE  Owner!PumpNothing
<1>1. Phase \in {"none", "confirm", "prompt", "work", "done"}
  BY DEF MachineInv, ControlInv, StatesOfStage, RequestOf, Phase, PhaseAt
<1>2. UNCHANGED <<Phase, Owner!session>> /\ UNCHANGED Owner!coordinator
  BY GoesOn DEF Phase, session, Owner!session, Stream
<1> QED
  BY <1>1, <1>2 DEF Owner!PumpNothing

(* The answers of the three machines                                       *)

Pumped == Owner!PumpOther \/ Owner!RestoreSucceeds

LEMMA CalPumpSeen ==
  ASSUME MachineInv, SeamInv, identity' = identity, Cal(imu_cal_adapter_pump)
  PROVE  Pumped
<1>1. CASE pending = "NONE" /\ UNCHANGED <<control, session>>
  BY <1>1, NothingPumped DEF control, Pumped, Owner!PumpOther
<1>2. ASSUME NEW ok \in BOOLEAN, Call(pending, ok),
             \/ ClearAnswered(ok) \/ ConfigAnswered(ok) \/ SaveAnswered(ok)
             \/ VerifyAnswered(ok) \/ RestoreAnswered(ok)
      PROVE  Pumped
  <2> USE DEF Pumped, Owner!PumpOther
  <2>1. StatesOfStage /\ identity \in Slot1
    BY DEF MachineInv, ControlInv, Cal
  <2>2. CASE ClearAnswered(ok)
    <3>1. st = "WAIT_CLEAR" /\ identity = "DCD_CLEAR"
      BY <2>1, <2>2, PhaseKnown DEF ClearAnswered, Slot1
    <3> QED
      BY <1>2, <2>2, <3>1, ClearSeen
  <2>3. CASE ConfigAnswered(ok) \/ VerifyAnswered(ok)
    <3>1. st \in {"WAIT_CONFIG", "WAIT_VERIFY"} /\ identity = "CALIBRATION"
      BY <2>1, <2>3, PhaseKnown DEF ConfigAnswered, VerifyAnswered, Slot1
    <3>2. UNCHANGED result
      BY <2>3 DEF ConfigAnswered, VerifyAnswered, Move, begin_restore
    <3>3. ok => Phase' \in Owner!AfterConfigure
      <4>1. ok => Phase' = "prompt"
        BY <2>3 DEF ConfigAnswered, VerifyAnswered, Move, enter_state, Phase, PhaseAt
      <4>2. "prompt" \in Owner!AfterConfigure
        BY <3>1 DEF Owner!AfterConfigure, Owner!Slot3
      <4> QED
        BY <4>1, <4>2
    <3>4. ~ok => st' = "WAIT_RESTORE"
      BY <2>3 DEF ConfigAnswered, VerifyAnswered, begin_restore, enter_state
    <3> QED
      BY <1>2, <3>1, <3>2, <3>3, <3>4, ConfigureSeen
  <2>4. CASE SaveAnswered(ok)
    <3>1. st = "WAIT_SAVE" /\ identity = "CALIBRATION"
      BY <2>1, <2>4, PhaseKnown DEF SaveAnswered
    <3>2. UNCHANGED result /\ st' \in {"WAIT_VERIFY", "SAVE_RETRY_HOLD", "MAG_PROMPT"}
      BY <2>4
      DEF SaveAnswered, SaveSucceeded, FirstSaveFailure, SecondSaveFailure, LastSaveFailure,
          begin_same_session_verify, begin_outer_attempt, begin_mag_round, Move, enter_state
    <3>3. Phase' \in Owner!AfterCommit
      BY <3>1, <3>2 DEF Phase, PhaseAt, Owner!AfterCommit
    <3> QED
      BY <1>2, <3>1, <3>2, <3>3, CommitSeen
  <2>5. CASE RestoreAnswered(ok)
    BY <1>2, <2>5, RestoreSeen DEF RestoreAnswered
  <2> QED
    BY <1>2, <2>2, <2>3, <2>4, <2>5
<1> QED
  BY <1>1, <1>2 DEF Cal, imu_cal_adapter_pump

LEMMA TarePumpSeen ==
  ASSUME MachineInv, SeamInv, identity' = identity, Tare(imu_tare_adapter_pump)
  PROVE  Pumped
<1>1. CASE pending = "NONE" /\ UNCHANGED <<control, session>>
  BY <1>1, NothingPumped DEF control, Pumped, Owner!PumpOther
<1>2. ASSUME NEW ok \in BOOLEAN, Call(pending, ok),
             \/ TareConfigAnswered(ok) \/ TareNowAnswered(ok) \/ PersistAnswered(ok)
             \/ TareClearAnswered(ok) \/ TareRestoreAnswered(ok)
      PROVE  Pumped
  <2> USE DEF Pumped, Owner!PumpOther
  <2>1. StatesOfStage /\ identity \in Slot2
    BY DEF MachineInv, ControlInv, Tare
  <2>2. CASE TareConfigAnswered(ok)
    <3>1. st = "WAIT_CONFIG"
      BY <2>2 DEF TareConfigAnswered
    <3>2. UNCHANGED result
      BY <2>2 DEF TareConfigAnswered, Move, begin_restore
    <3>3. ok => Phase' \in Owner!AfterConfigure
      BY <2>1, <2>2, SameStages
      DEF TareConfigAnswered, Move, enter_state, Phase, PhaseAt, Owner!AfterConfigure, Slot2, Slot3
    <3>4. ~ok => st' = "WAIT_RESTORE"
      BY <2>2 DEF TareConfigAnswered, begin_restore, enter_state
    <3> QED
      BY <1>2, <3>1, <3>2, <3>3, <3>4, ConfigureSeen
  <2>3. CASE TareNowAnswered(ok) \/ PersistAnswered(ok)
    <3>1. st \in {"WAIT_TARE_NOW", "WAIT_PERSIST"} /\ identity = "TARE"
      BY <2>1, <2>3, PhaseKnown DEF TareNowAnswered, PersistAnswered
    <3>2. UNCHANGED result /\ st' \in {"WAIT_PERSIST", "VERIFY", "WAIT_RESTORE"}
      BY <2>3 DEF TareNowAnswered, PersistAnswered, Move, enter_state, begin_restore
    <3>3. Phase' \in Owner!AfterCommit
      BY <3>1, <3>2 DEF Phase, PhaseAt, Owner!AfterCommit
    <3> QED
      BY <1>2, <3>1, <3>2, <3>3, CommitSeen
  <2>4. CASE TareClearAnswered(ok)
    <3>1. st = "WAIT_CLEAR" /\ identity = "TARE_CLEAR"
      BY <2>1, <2>4, PhaseKnown DEF TareClearAnswered, Slot2
    <3>2. UNCHANGED result /\ st' = "WAIT_RESTORE"
      BY <2>4 DEF TareClearAnswered, begin_restore, enter_state
    <3>3. Phase' \in Owner!AfterCommit
      BY <3>1, <3>2 DEF Phase, PhaseAt, Owner!AfterCommit
    <3> QED
      BY <1>2, <3>1, <3>2, <3>3, CommitSeen
  <2>5. CASE TareRestoreAnswered(ok)
    BY <1>2, <2>5, RestoreSeen DEF TareRestoreAnswered
  <2> QED
    BY <1>2, <2>2, <2>3, <2>4, <2>5
<1> QED
  BY <1>1, <1>2 DEF Tare, imu_tare_adapter_pump

LEMMA CheckPumpSeen ==
  ASSUME MachineInv, SeamInv, identity' = identity, Check(imu_check_adapter_pump)
  PROVE  Pumped
<1>1. CASE pending = "NONE" /\ UNCHANGED <<st, result, session>>
  BY <1>1, NothingPumped DEF Pumped, Owner!PumpOther
<1>2. ASSUME NEW ok \in BOOLEAN, Call(pending, ok),
             CheckConfigAnswered(ok) \/ CheckRestoreAnswered(ok)
      PROVE  Pumped
  <2> USE DEF Pumped, Owner!PumpOther
  <2>1. identity \in Slot3
    BY DEF Check
  <2>2. CASE CheckConfigAnswered(ok)
    <3>1. st = "WAIT_CONFIG"
      BY <2>2 DEF CheckConfigAnswered
    <3>2. UNCHANGED result
      BY <2>2 DEF CheckConfigAnswered, check_begin_restore, enter_phase
    <3>3. ok => Phase' \in Owner!AfterConfigure
      BY <2>1, <2>2, SameStages
      DEF CheckConfigAnswered, enter_phase, Phase, PhaseAt, Owner!AfterConfigure, Slot3
    <3>4. ~ok => st' = "WAIT_RESTORE"
      BY <2>2 DEF CheckConfigAnswered, check_begin_restore, enter_phase
    <3> QED
      BY <1>2, <3>1, <3>2, <3>3, <3>4, ConfigureSeen
  <2>3. CASE CheckRestoreAnswered(ok)
    BY <1>2, <2>3, RestoreSeen DEF CheckRestoreAnswered
  <2> QED
    BY <1>2, <2>2, <2>3
<1> QED
  BY <1>1, <1>2 DEF Check, imu_check_adapter_pump

LEMMA PumpSeen ==
  ASSUME MachineInv, SeamInv, Pump
  PROVE  Pumped
BY CalPumpSeen, TarePumpSeen, CheckPumpSeen DEF Pump

-----------------------------------------------------------------------------
(* The operator, the clock and the machines' service                       *)

(* A q that ends the stage is a cancel the coordinator takes at once.      *)
LEMMA CancelSeen ==
  ASSUME MachineInv, ~Ended, identity' = identity, UNCHANGED session,
         Phase \in {"confirm", "config"},
         Phase = "config" => identity # "CALIBRATION",
         NEW r \in MachineResults(identity), r.state = "CANCELLED", finish(r, FALSE)
  PROVE  Owner!MachineTakesQ /\ UNCHANGED Owner!session
<1>1. identity \in Composed \ {"CALIBRATION"}
  BY DEF MachineInv, ControlInv, StatesOfStage, Phase, PhaseAt, CalStates, CalVerify
<1>2. Owner!MachineEnds(r)
  BY EndsSeen
<1>3. \A c \in MachineResults(identity) : c.state = "CANCELLED" => c = r
  <2> DEFINE Cancels(c) == c = Result("CANCELLED", TRUE) \/ c = Result("CANCELLED", FALSE)
  <2>1. \A c \in MachineResults(identity) : c.state = "CANCELLED" => Cancels(c)
    BY DEF MachineResults, Result
  <2>2. Result("CANCELLED", TRUE) \in MachineResults(identity) =>
          Result("CANCELLED", FALSE) \notin MachineResults(identity)
    BY DEF MachineResults, Result
  <2> QED
    BY <2>1, <2>2
<1>4. r = CHOOSE c \in Owner!Cmd!MachineResults(identity) : c.state = "CANCELLED"
  BY <1>3, SameStages
<1>5. Owner!Cmd!post_q /\ Phase' = "done"
  BY <1>1, <1>2, <1>4, SameStages
  DEF Owner!MachineEnds, Owner!Cmd!MachineFinishes, Owner!Cmd!post_q
<1>6. Owner!Untouched
  BY DEF Owner!Untouched
<1>7. UNCHANGED Owner!session
  BY DEF session, Owner!session, Stream
<1> QED
  BY <1>5, <1>6, <1>7 DEF Owner!MachineTakesQ, Owner!Unarmed

(* Any other q goes on to the restore.                                     *)
LEMMA RestoreBegunSeen ==
  ASSUME MachineInv, ~Ended, UNCHANGED <<identity, result, session>>, st' = "WAIT_RESTORE",
         Phase # "confirm", Phase = "config" => identity = "CALIBRATION"
  PROVE  Owner!MachineTakesQ /\ UNCHANGED Owner!session
<1>1. Phase # "done" /\ identity \in Composed
  BY DEF MachineInv, ControlInv, StatesOfStage, Phase, PhaseAt
<1>2. ~Owner!Untouched
  BY DEF Owner!Untouched
<1>3. Phase' = "restore"
  BY DEF Phase, PhaseAt
<1>4. UNCHANGED Owner!session
  BY DEF session, Owner!session, Stream
<1> QED
  BY <1>1, <1>2, <1>3, <1>4, GoesOn, SameStages DEF Owner!MachineTakesQ, Owner!Unarmed

LEMMA QSeen ==
  ASSUME MachineInv, OperatorQ
  PROVE  Owner!MachineTakesQ /\ UNCHANGED Owner!session
<1>1. /\ ~Ended /\ UNCHANGED <<identity, session>> /\ StatesOfStage
  BY DEF OperatorQ, InputStep, MachineInv, ControlInv
<1>2. CASE Cal(cal_post_q)
  <2>1. CASE /\ identity = "DCD_CLEAR"
             /\ st \in {"CLEAR_CONFIRM", "WAIT_CLEAR"}
             /\ finish(Result("CANCELLED", TRUE), FALSE)
    <3>1. Phase \in {"confirm", "config"}
      BY <2>1 DEF Phase, PhaseAt
    <3>2. /\ Result("CANCELLED", TRUE) \in MachineResults(identity)
          /\ Result("CANCELLED", TRUE).state = "CANCELLED"
      BY <2>1 DEF MachineResults, Slot1, Result
    <3> QED
      BY <1>1, <2>1, <3>1, <3>2, CancelSeen
  <2>2. CASE /\ identity = "CALIBRATION"
             /\ st \notin {"WAIT_RESTORE", "DONE"}
             /\ begin_restore(Result("CANCELLED", TRUE))
    <3>1. Phase # "confirm"
      BY <1>1, <2>2 DEF StatesOfStage, CalStates, CalVerify, Phase, PhaseAt
    <3>2. st' = "WAIT_RESTORE" /\ UNCHANGED result
      BY <2>2 DEF begin_restore, enter_state
    <3> QED
      BY <1>1, <2>2, <3>1, <3>2, RestoreBegunSeen
  <2> QED
    BY <1>2, <2>1, <2>2 DEF Cal, cal_post_q
<1>3. CASE Tare(tare_post_q)
  <2>1. identity \in Slot2
    BY <1>3 DEF Tare
  <2>2. CASE st \in Untouched /\ finish(Result("CANCELLED", q_sets_warning), FALSE)
    <3>1. Phase \in {"confirm", "config"} /\ identity # "CALIBRATION"
      BY <2>1, <2>2 DEF Phase, PhaseAt, Untouched, Slot2
    <3>2. /\ Result("CANCELLED", q_sets_warning) \in MachineResults(identity)
          /\ Result("CANCELLED", q_sets_warning).state = "CANCELLED"
      <4>1. q_sets_warning = (identity \in Slot1 \cup {"TARE", "TARE_CLEAR"})
        BY <2>1 DEF q_sets_warning, Slot1, Slot2
      <4>2. CASE identity \in {"TARE", "TARE_CLEAR"}
        <5>1. q_sets_warning = TRUE
          BY <4>2 DEF q_sets_warning
        <5> QED
          BY <4>2, <5>1 DEF MachineResults, Result
      <4>3. CASE identity = "TARE_CHECK"
        <5>1. q_sets_warning = FALSE
          BY <4>3 DEF q_sets_warning
        <5> QED
          BY <4>3, <5>1 DEF MachineResults, Result, Slot1
      <4> QED
        BY <2>1, <4>2, <4>3 DEF Slot2
    <3> QED
      BY <1>1, <2>2, <3>1, <3>2, CancelSeen
  <2>3. CASE QRestores /\ begin_restore(Result("CANCELLED", q_sets_warning))
    <3>1. Phase \notin {"confirm", "config"}
      BY <1>1, <2>1, <2>3
      DEF QRestores, Untouched, Phase, PhaseAt, StatesOfStage, Slot2
    <3>2. st' = "WAIT_RESTORE" /\ UNCHANGED result
      BY <2>3 DEF begin_restore, enter_state
    <3> QED
      BY <1>1, <3>1, <3>2, RestoreBegunSeen
  <2> QED
    BY <1>3, <2>2, <2>3 DEF Tare, tare_post_q
<1>4. CASE Check(check_post_q)
  <2>1. identity \in Slot3 /\ identity # "CALIBRATION"
    BY <1>4 DEF Check, Slot3
  <2>2. CASE st = "WAIT_CONFIG" /\ finish(Result("CANCELLED", FALSE), FALSE)
    <3>1. Phase = "config"
      BY <2>2 DEF Phase, PhaseAt
    <3>2. /\ Result("CANCELLED", FALSE) \in MachineResults(identity)
          /\ Result("CANCELLED", FALSE).state = "CANCELLED"
      BY <2>1 DEF MachineResults, Result, Slot1, Slot3
    <3> QED
      BY <1>1, <2>1, <2>2, <3>1, <3>2, CancelSeen
  <2>3. CASE st = "MONITOR" /\ st' = "WAIT_RESTORE" /\ UNCHANGED result
    <3>1. Phase = "work"
      BY <2>3 DEF Phase, PhaseAt
    <3> QED
      BY <1>1, <2>3, <3>1, RestoreBegunSeen
  <2> QED
    BY <1>4, <2>2, <2>3 DEF Check, check_post_q
<1> QED
  BY <1>2, <1>3, <1>4 DEF OperatorQ

LEMMA ConfirmSeen ==
  ASSUME MachineInv, OperatorConfirm
  PROVE  Owner!MachineTakesConfirm /\ UNCHANGED Owner!session
<1>1. UNCHANGED <<identity, result, session>> /\ StatesOfStage
  BY DEF OperatorConfirm, InputStep, MachineInv, ControlInv, Cal, Tare, cal_post_confirm,
         tare_post_confirm, Move
<1>2. UNCHANGED Owner!session
  BY <1>1 DEF session, Owner!session, Stream
<1>3. \/ Phase = "confirm" /\ Phase' = "config"
      \/ Phase = "prompt" /\ Phase' = "work"
  <2>1. CASE Cal(cal_post_confirm)
    BY <1>1, <2>1 DEF Cal, cal_post_confirm, Move, enter_state, Phase, PhaseAt, StatesOfStage, Slot1,
         CalStates, CalVerify
  <2>2. CASE Tare(tare_post_confirm)
    BY <1>1, <2>2 DEF Tare, tare_post_confirm, Move, enter_state, Phase, PhaseAt
  <2> QED
    BY <2>1, <2>2 DEF OperatorConfirm
<1> QED
  BY <1>1, <1>2, <1>3, GoesOn
  DEF Owner!MachineTakesConfirm, Owner!Unarmed, Owner!RefusesConfirm

(* What a machine may find in its service.                                 *)
LEMMA FoundWhileWorking ==
  ASSUME StatesOfStage, Phase = "work", identity' = identity, StatesOfStage',
         \/ st' = st
         \/ identity = "CALIBRATION" /\ Phase' \in {"work", "prompt", "commit", "restore"}
         \/ identity = "TARE" /\ Phase' \in {"work", "commit", "restore"}
         \/ identity = "PROBE" /\ Phase' \in {"work", "restore"}
  PROVE  Owner!MachineServed
<1>1. st' = st => Phase' = "work"
  BY DEF Phase
<1>2. Phase' \in Owner!MayFind
  BY <1>1 DEF Owner!MayFind
<1> QED
  BY <1>2 DEF Owner!MachineServed

LEMMA RestingSeen ==
  ASSUME UNCHANGED <<identity, st>>
  PROVE  Owner!MachineServed
BY DEF Phase, Owner!MachineServed, Owner!MayFind

LEMMA CalServiceSeen ==
  ASSUME MachineInv, MachineInv', Cal(imu_cal_service), UNCHANGED <<identity, session>>
  PROVE  Owner!MachineServed /\ UNCHANGED result
<1>1. CASE NothingDue
  BY <1>1, RestingSeen DEF NothingDue, control
<1>2. CASE AccelWindow \/ AccelGate \/ GyroGate \/ MagMotion \/ MagGate \/ HoldWindow
           \/ HoldGate \/ SaveRetryHold \/ VerifyMotion \/ VerifyGate
  <2>1. /\ StatesOfStage /\ StatesOfStage'
        /\ identity \in Slot1
    BY DEF MachineInv, ControlInv, Cal
  <2>2. st \in CalGates \cup TimedStates
    BY <1>2
    DEF AccelWindow, AccelGate, GyroGate, MagMotion, MagGate, HoldWindow, HoldGate,
        SaveRetryHold, VerifyMotion, VerifyGate, CalGates, TimedStates
  <2>3. Phase = "work" /\ identity = "CALIBRATION"
    BY <2>1, <2>2 DEF CalGates, TimedStates, Phase, PhaseAt, StatesOfStage, Slot1
  <2>4. /\ UNCHANGED result
        /\ st' \in CalGates \cup TimedStates
                   \cup {"ACCEL_PROMPT", "GYRO_PROMPT", "MAG_PROMPT", "WAIT_SAVE", "WAIT_RESTORE"}
    <3>1. CASE AccelWindow \/ AccelGate
      BY <2>2, <3>1
      DEF AccelWindow, AccelGate, AccelPrompt, Move, enter_state, WaitAtGate, CalGates
    <3>2. CASE GyroGate \/ MagMotion \/ MagGate
      BY <2>2, <3>2
      DEF GyroGate, MagMotion, MagGate, begin_outer_attempt, begin_mag_round, begin_restore,
          Move, enter_state, WaitAtGate, CalGates, TimedStates
    <3>3. CASE HoldWindow \/ HoldGate \/ SaveRetryHold
      BY <2>2, <3>3
      DEF HoldWindow, HoldGate, SaveRetryHold, begin_outer_attempt, begin_mag_round,
          begin_restore, Move, enter_state, WaitAtGate, CalGates, TimedStates
    <3>4. CASE VerifyMotion \/ VerifyGate
      BY <2>2, <3>4
      DEF VerifyMotion, VerifyGate, begin_restore, Move, enter_state, WaitAtGate, CalGates
    <3> QED
      BY <1>2, <3>1, <3>2, <3>3, <3>4
  <2>5. Phase' \in {"work", "prompt", "commit", "restore"}
    BY <2>4 DEF Phase, PhaseAt, CalGates, TimedStates
  <2> QED
    BY <2>1, <2>3, <2>4, <2>5, FoundWhileWorking
<1> QED
  BY <1>1, <1>2 DEF Cal, imu_cal_service

LEMMA OtherServiceSeen ==
  ASSUME MachineInv, MachineInv', Tare(imu_tare_service) \/ Check(imu_check_service),
         UNCHANGED <<identity, session>>
  PROVE  Owner!MachineServed /\ UNCHANGED result
<1>1. StatesOfStage /\ StatesOfStage'
  BY DEF MachineInv, ControlInv
<1>2. CASE Tare(imu_tare_service)
  <2>1. CASE UNCHANGED control
    BY <2>1, RestingSeen DEF control
  <2>2. CASE st = "SETTLE" /\ Move("WAIT_TARE_NOW", 0, "TARE_NOW")
    <3>1. identity = "TARE" /\ Phase = "work" /\ Phase' = "commit" /\ UNCHANGED result
      BY <1>1, <2>2
      DEF Move, enter_state, Phase, PhaseAt, StatesOfStage, Composed, Slot1, Slot2, Slot3, CalStates,
          CalVerify
    <3> QED
      BY <1>1, <3>1, FoundWhileWorking
  <2>3. ASSUME NEW r, st = "VERIFY", begin_restore(r)
        PROVE  Owner!MachineServed /\ UNCHANGED result
    <3>1. identity = "TARE" /\ Phase = "work" /\ Phase' = "restore" /\ UNCHANGED result
      BY <1>1, <2>3
      DEF begin_restore, enter_state, Phase, PhaseAt, StatesOfStage, Composed, Slot1, Slot2, Slot3,
          CalStates, CalVerify
    <3> QED
      BY <1>1, <3>1, FoundWhileWorking
  <2> QED
    BY <1>2, <2>1, <2>2, <2>3 DEF Tare, imu_tare_service
<1>3. CASE Check(imu_check_service)
  <2>1. CASE UNCHANGED <<st, result>>
    BY <2>1, RestingSeen
  <2>2. CASE st = "MONITOR" /\ identity = "PROBE" /\ st' = "WAIT_RESTORE" /\ UNCHANGED result
    <3>1. Phase = "work" /\ Phase' = "restore"
      BY <2>2 DEF Phase, PhaseAt
    <3> QED
      BY <1>1, <2>2, <3>1, FoundWhileWorking
  <2> QED
    BY <1>3, <2>1, <2>2 DEF Check, imu_check_service, DeadlinePassed, control
<1> QED
  BY <1>2, <1>3

LEMMA ServiceSeen ==
  ASSUME MachineInv, MachineInv', Service
  PROVE  Owner!MachineServed /\ UNCHANGED <<Owner!session, Owner!coordinator>>
<1>1. UNCHANGED <<identity, session>>
  BY DEF Service
<1>2. Owner!MachineServed /\ UNCHANGED result
  BY <1>1, CalServiceSeen, OtherServiceSeen DEF Service
<1>3. UNCHANGED Owner!session
  BY <1>1 DEF session, Owner!session, Stream
<1> QED
  BY <1>1, <1>2, <1>3, GoesOn

LEMMA QuietSeen ==
  /\ ChipResets => Owner!ResetNoticed /\ UNCHANGED <<Phase, Machine>>
  /\ Decodes \/ (\E d \in 0..1 : Tick(d)) => UNCHANGED <<Phase, Machine, Owner!session>>
<1>1. ASSUME ChipResets PROVE Owner!ResetNoticed /\ UNCHANGED <<Phase, Machine>>
  BY <1>1 DEF ChipResets, ChipReset, control, Phase, Machine, Stream, Owner!ResetNoticed
<1>2. ASSUME Decodes \/ (\E d \in 0..1 : Tick(d))
      PROVE  UNCHANGED <<Phase, Machine, Owner!session>>
  <2>1. UNCHANGED <<identity, st, result, sess, reports>>
    BY <1>2 DEF Decodes, Decode, Tick, control, session
  <2> QED
    BY <2>1 DEF Phase, Machine, Owner!session, Stream
<1> QED
  BY <1>1, <1>2

-----------------------------------------------------------------------------
(* The seam                                                                *)

(* A step sets no verdict of a failed recovery.                            *)
LEMMA VerdictKept ==
  ASSUME MachineInv, term.state # "RECOVERY_FAILED", Next
  PROVE  term'.state # "RECOVERY_FAILED"
<1>1. \A r \in OwnVerdicts : r.state # "RECOVERY_FAILED"
  BY DEF OwnVerdicts, MachineResults, Result
<1>2. CASE Pump \/ Service \/ OperatorQ \/ OperatorConfirm
  <2>1. VerdictShape
    <3>1. CASE Service
      BY <3>1, CalServiceShapes, OtherServiceShapes DEF Service, Cal, Tare, Check
    <3> QED
      BY <1>2, <3>1, PumpShapes, OperatorShapes
  <2> QED
    BY <1>1, <2>1 DEF VerdictShape
<1>3. CASE ChipResets \/ Decodes \/ (\E d \in 0..1 : Tick(d))
  BY <1>3 DEF ChipResets, ChipReset, Decodes, Decode, Tick, control
<1> QED
  BY <1>2, <1>3 DEF Next

(* The clear of DCD is the stage's first call: until then only a reset     *)
(* moves the session.                                                      *)
LEMMA ClearWaits ==
  ASSUME MachineInv, MachineInv', SeamInv, Next, identity' = "DCD_CLEAR",
         st' \in {"CLEAR_CONFIRM", "WAIT_CLEAR"}
  PROVE  sess' \in {"CONFIGURING", "RECOVERING"}
<1>1. identity = "DCD_CLEAR"
  BY DEF Next, ChipResets, ChipReset, Decodes, Decode, Pump, Tick, OperatorQ,
         OperatorConfirm, InputStep, Service
<1>2. st \in {"CLEAR_CONFIRM", "WAIT_CLEAR", "WAIT_RESTORE", "DONE"}
  BY <1>1 DEF MachineInv, ControlInv, StatesOfStage
<1>3. CASE Pump
  <2>1. Cal(imu_cal_adapter_pump)
    BY <1>1, <1>3 DEF Pump, Tare, Check, Slot2, Slot3
  <2>2. CASE UNCHANGED <<control, session>>
    BY <1>1, <2>2 DEF control, session, SeamInv
  <2>3. ASSUME NEW ok \in BOOLEAN, ClearAnswered(ok) \/ RestoreAnswered(ok)
        PROVE  FALSE
    BY <2>3 DEF ClearAnswered, RestoreAnswered, finish, begin_restore, enter_state
  <2>4. ASSUME NEW ok \in BOOLEAN, ConfigAnswered(ok) \/ SaveAnswered(ok) \/ VerifyAnswered(ok)
        PROVE  FALSE
    BY <1>2, <2>4 DEF ConfigAnswered, SaveAnswered, VerifyAnswered
  <2> QED
    BY <2>1, <2>2, <2>3, <2>4 DEF Cal, imu_cal_adapter_pump
<1>4. CASE ~Pump
  <2>1. sess' \in {sess, "RECOVERING"}
    BY <1>4 DEF Next, ChipResets, ChipReset, Decodes, Decode, Tick, OperatorQ,
           OperatorConfirm, InputStep, Service, session
  <2>2. st \in {"CLEAR_CONFIRM", "WAIT_CLEAR"}
    BY <1>1, <1>2, <1>4
    DEF Next, ChipResets, ChipReset, Decodes, Decode, Tick, OperatorQ, OperatorConfirm, Service,
        control, Cal, Tare, Check, Slot2, Slot3, cal_post_q, cal_post_confirm, finish, begin_restore,
        enter_state, imu_cal_service, NothingDue, AccelWindow, AccelGate, GyroGate, MagMotion,
        MagGate, HoldWindow, HoldGate, SaveRetryHold, VerifyMotion, VerifyGate
  <2> QED
    BY <1>1, <2>1, <2>2 DEF SeamInv
<1> QED
  BY <1>3, <1>4

(* What StagePump says of a stage's machine is true of the machines: each  *)
(* of their steps is the step of StagePump that stands for it, so that     *)
(* what is shown of the owner loops over StagePump is shown of them with   *)
(* imu_cal.c, imu_tare.c and imu_check.c in place.                         *)
THEOREM MachinesArePhases == Spec => MachineIsPhase
<1>1. Init => SeamInv /\ Phase = Owner!FirstPhase
  <2> SUFFICES ASSUME Init PROVE SeamInv /\ Phase = Owner!FirstPhase
    OBVIOUS
  <2>1. sess = "CONFIGURING" /\ term = Result("NOT_REQUESTED", FALSE)
    BY DEF Init, imu_cal_init, imu_cal_init_dcd_clear, imu_tare_init, imu_check_init, InitBase
  <2>2. Phase = Owner!FirstPhase
    <3>1. /\ identity \in Composed
          /\ IF identity \in {"DCD_CLEAR", "TARE", "TARE_CLEAR"}
             THEN st \in {"CLEAR_CONFIRM", "WAIT_CONFIRM"} ELSE st = "WAIT_CONFIG"
      BY DEF Init, imu_cal_init, imu_cal_init_dcd_clear, imu_tare_init, imu_check_init, InitBase,
             Composed, Slot1, Slot2, Slot3
    <3>2. Phase = IF identity \in {"DCD_CLEAR", "TARE", "TARE_CLEAR"} THEN "confirm" ELSE "config"
      BY <3>1 DEF Phase, PhaseAt
    <3> QED
      BY <3>1, <3>2 DEF Owner!FirstPhase, Composed, Slot1, Slot2, Slot3
  <2> QED
    BY <2>1, <2>2 DEF SeamInv, Result
<1>2. MachineInv /\ MachineInv' /\ SeamInv /\ [Next]_vars => SeamInv'
  <2>1. CASE UNCHANGED vars
    BY <2>1 DEF vars, control, session, SeamInv
  <2>2. ASSUME MachineInv, MachineInv', SeamInv, Next PROVE SeamInv'
    BY <2>2, VerdictKept, ClearWaits DEF SeamInv
  <2> QED
    BY <2>1, <2>2
<1>3. MachineInv /\ MachineInv' /\ SeamInv /\ [Next]_vars => [OwnerSees]_vars
  BY PumpSeen, QSeen, ConfirmSeen, ServiceSeen, QuietSeen DEF OwnerSees, Pumped
<1> QED
  BY <1>1, <1>2, <1>3, MachineInvariant, PTL DEF Spec, MachineIsPhase
=============================================================================
