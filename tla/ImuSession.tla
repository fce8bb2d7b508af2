----------------------------- MODULE ImuSession -----------------------------
(***************************************************************************)
(* The sole owner of the BNO085 SH-2 session, bno/app/imu_session.c: the   *)
(* reader state, the configuration epoch, the production mailbox with its  *)
(* per-group identities, and the three diagnostic fact mailboxes.          *)
(*                                                                         *)
(* Every public call of the module is one action.  An SH-2 library call    *)
(* may fail, and may deliver SH2_RESET to asyncEventCallback before it     *)
(* returns; the parameters ok and r of an action are those two outcomes.   *)
(* ResetInConfigure says whether a reset may arrive inside the report and  *)
(* policy calls as well (imu_session.h says callbacks fire inside          *)
(* service(); the library's own calls service the bus too).                *)
(***************************************************************************)
EXTENDS Integers

CONSTANTS
  Groups,            \* production report groups, a subset of the three
  CalMasks,          \* dynamic-calibration masks the callers use
  MaxEpoch,          \* bound on sEpoch (uint32_t in the code)
  MaxSeq,            \* bound on each group's event sequence (uint64_t)
  ResetInConfigure   \* may SH2_RESET arrive inside a configuration call?

AllGroups == {"rotation", "accel", "gyro"}

ASSUME SessionAssumption ==
  /\ Groups \subseteq AllGroups
  /\ CalMasks \subseteq Nat
  /\ 0 \in CalMasks
  /\ MaxEpoch \in Nat
  /\ MaxSeq \in Nat
  /\ ResetInConfigure \in BOOLEAN

VARIABLES
  sState,               \* ImuReaderState_t
  sEpoch,               \* configuration epoch, 0 = no session
  sOpenAttempted,       \* a second in-process open is refused
  sHal,                 \* is the HAL/SH-2 session open (sHal # NULL)?
  sHardwareConfigured,  \* has any report set been applied since open?
  sRecoveryEpochTaken,  \* did the pending reset already take its epoch?
  sFlightCalMask,       \* the flight policy the owner asked for
  sCalMask,             \* s_calMask: the mask read back, or else the request
  validMask,            \* groups seen in the current epoch
  metaEpoch,            \* configurationEpoch of each group's last event
  adoptedSeq,           \* groupEventSeq of each group's last adopted event
  assignedSeq,          \* last sequence handed out per group
  facts,                \* the cal, tare and check mailboxes: epoch and valid
  diagEpoch,            \* epoch of the eligible check diagnostics, 0 if none
  reports,              \* the report set the chip streams
  policyAsked           \* the mask of the last sh2_setCalConfig the chip
                        \* accepted and has not lost, NoMask if none is known

mailbox == <<validMask, metaEpoch, adoptedSeq, assignedSeq>>
vars == <<sState, sEpoch, sOpenAttempted, sHal, sHardwareConfigured,
          sRecoveryEpochTaken, sFlightCalMask, sCalMask, mailbox, facts,
          diagEpoch, reports, policyAsked>>

States == {"CLOSED", "CONFIGURING", "SETTLING", "OPERATIONAL", "CALIBRATION",
           "TARE", "CHECK", "PROBE", "RECOVERING", "FAULTED"}
Mailboxes == {"cal", "tare", "check"}
ReportSets == {"none", "production", "calibration", "tare", "check", "unknown"}
NoMask == -1

(***************************************************************************)
(* Groups a report set streams.  The calibration set leaves the linear     *)
(* acceleration report as it was; a half-applied set may stream anything.  *)
(***************************************************************************)
Streams(set) ==
  CASE set = "none" -> {}
    [] set = "tare" -> Groups \cap {"rotation"}
    [] set = "check" -> Groups \cap {"rotation", "gyro"}
    [] OTHER -> Groups

(***************************************************************************)
(* The outcomes of a group of SH-2 calls.  Without a HAL the host-test     *)
(* seams answer: success, and no callback.                                 *)
(***************************************************************************)
Sh2Outcome(ok, r) == ~sHal => ok /\ ~r
ConfigOutcome(ok, r) == Sh2Outcome(ok, r) /\ (r => ResetInConfigure)

(* What sh2_getCalConfig answers after the request was accepted: nothing   *)
(* compares it with the request.  A failed read-back stands for it.        *)
ReadBack(request) == IF sHal THEN CalMasks ELSE {request}

(* What handle_reset adds to the epoch when it runs inside a call.         *)
ResetEpochs(r) == IF r /\ ~sRecoveryEpochTaken THEN 1 ELSE 0

ClearedFacts(e) == [m \in Mailboxes |-> [epoch |-> e, valid |-> FALSE]]

(* n increments of the epoch; any of them clears validity and the facts.   *)
(* Operators named after a mistake, here and below, are broken variants of *)
(* the definition that follows them: each run's properties reject them.    *)
BumpKeepsValidity(n) ==
  /\ sEpoch + n <= MaxEpoch
  /\ sEpoch' = sEpoch + n
  /\ validMask' = validMask
  /\ facts' = IF n > 0 THEN ClearedFacts(sEpoch + n) ELSE facts

BumpKeepsFacts(n) ==
  /\ sEpoch + n <= MaxEpoch
  /\ sEpoch' = sEpoch + n
  /\ validMask' = IF n > 0 THEN {} ELSE validMask
  /\ facts' = facts

BumpBy(n) ==
  /\ sEpoch + n <= MaxEpoch
  /\ sEpoch' = sEpoch + n
  /\ validMask' = IF n > 0 THEN {} ELSE validMask
  /\ facts' = IF n > 0 THEN ClearedFacts(sEpoch + n) ELSE facts

Init ==
  /\ sState = "CLOSED"
  /\ sEpoch = 0
  /\ sOpenAttempted = FALSE
  /\ sHal = FALSE
  /\ sHardwareConfigured = FALSE
  /\ sRecoveryEpochTaken = FALSE
  /\ sFlightCalMask = 0
  /\ sCalMask = 0
  /\ validMask = {}
  /\ metaEpoch = [g \in Groups |-> 0]
  /\ adoptedSeq = [g \in Groups |-> 0]
  /\ assignedSeq = [g \in Groups |-> 0]
  /\ facts = ClearedFacts(0)
  /\ diagEpoch = 0
  /\ reports = "none"
  /\ policyAsked = NoMask

-----------------------------------------------------------------------------
(* Opening and closing                                                     *)

OpenStuckOpening(ok) ==
  /\ sState = "CLOSED"
  /\ ~sOpenAttempted
  /\ sOpenAttempted' = TRUE
  /\ BumpBy(IF ok THEN 1 ELSE 0)
  /\ sState' = IF ok THEN "CONFIGURING" ELSE "OPENING"
  /\ sHal' = ok
  /\ UNCHANGED <<sHardwareConfigured, sRecoveryEpochTaken, sFlightCalMask,
                 sCalMask, metaEpoch, adoptedSeq, assignedSeq, diagEpoch,
                 reports, policyAsked>>

(* A reset during the open itself is ignored: the state is OPENING.        *)
Open(ok) ==
  /\ sState = "CLOSED"
  /\ ~sOpenAttempted
  /\ sOpenAttempted' = TRUE
  /\ BumpBy(IF ok THEN 1 ELSE 0)
  /\ sState' = IF ok THEN "CONFIGURING" ELSE "FAULTED"
  /\ sHal' = ok
  /\ UNCHANGED <<sHardwareConfigured, sRecoveryEpochTaken, sFlightCalMask,
                 sCalMask, metaEpoch, adoptedSeq, assignedSeq, diagEpoch,
                 reports, policyAsked>>

Close ==
  /\ sState' = "CLOSED"
  /\ sEpoch' = 0
  /\ sHal' = FALSE
  /\ validMask' = {}
  /\ diagEpoch' = 0
  /\ reports' = "none"
  /\ policyAsked' = NoMask
  /\ UNCHANGED <<sOpenAttempted, sHardwareConfigured, sRecoveryEpochTaken,
                 sFlightCalMask, sCalMask, metaEpoch, adoptedSeq, assignedSeq,
                 facts>>

-----------------------------------------------------------------------------
(* Callbacks delivered by imu_session_service                              *)

(* SH2_RESET: one epoch per reset until the session is reopened, and the   *)
(* reader is parked in RECOVERING, from FAULTED as well.                   *)
HandleReset ==
  /\ sHal
  /\ sState # "CLOSED"
  /\ BumpBy(ResetEpochs(TRUE))
  /\ diagEpoch' = IF sRecoveryEpochTaken THEN diagEpoch ELSE 0
  /\ sRecoveryEpochTaken' = TRUE
  /\ sState' = "RECOVERING"
  /\ reports' = "none"
  /\ policyAsked' = NoMask
  /\ UNCHANGED <<sOpenAttempted, sHal, sHardwareConfigured, sFlightCalMask,
                 sCalMask, metaEpoch, adoptedSeq, assignedSeq>>

(* A decoded report in a diagnostic state goes to that state's mailbox.    *)
DiagnosticMailbox(state) ==
  CASE state \in {"CHECK", "PROBE"} -> "check"
    [] state = "CALIBRATION" -> "cal"
    [] state = "TARE" -> "tare"

DiagnosticDecode ==
  /\ sHal
  /\ sState \in {"CHECK", "PROBE", "CALIBRATION", "TARE"}
  /\ reports # "none"
  /\ facts' = [facts EXCEPT ![DiagnosticMailbox(sState)] =
                 [epoch |-> sEpoch, valid |-> TRUE]]
  /\ UNCHANGED <<sState, sEpoch, sOpenAttempted, sHal, sHardwareConfigured,
                 sRecoveryEpochTaken, sFlightCalMask, sCalMask, mailbox,
                 diagEpoch, reports, policyAsked>>

(* In any other state the report is a production group's next event; it    *)
(* takes a sequence number, and is adopted unless the host clock failed.   *)
ProductionDecodeResets(g, clockOk) ==
  /\ sHal
  /\ sState \notin {"CLOSED", "CHECK", "PROBE", "CALIBRATION", "TARE"}
  /\ g \in Streams(reports)
  /\ assignedSeq[g] < MaxSeq
  /\ assignedSeq' = [assignedSeq EXCEPT ![g] = IF g \in validMask THEN @ + 1 ELSE 1]
  /\ IF clockOk
     THEN /\ adoptedSeq' = [adoptedSeq EXCEPT ![g] = assignedSeq'[g]]
          /\ metaEpoch' = [metaEpoch EXCEPT ![g] = sEpoch]
          /\ validMask' = validMask \cup {g}
     ELSE UNCHANGED <<adoptedSeq, metaEpoch, validMask>>
  /\ UNCHANGED <<sState, sEpoch, sOpenAttempted, sHal, sHardwareConfigured,
                 sRecoveryEpochTaken, sFlightCalMask, sCalMask, facts,
                 diagEpoch, reports, policyAsked>>

ProductionDecode(g, clockOk) ==
  /\ sHal
  /\ sState \notin {"CLOSED", "CHECK", "PROBE", "CALIBRATION", "TARE"}
  /\ g \in Streams(reports)
  /\ assignedSeq[g] < MaxSeq
  /\ assignedSeq' = [assignedSeq EXCEPT ![g] = @ + 1]
  /\ IF clockOk
     THEN /\ adoptedSeq' = [adoptedSeq EXCEPT ![g] = assignedSeq[g] + 1]
          /\ metaEpoch' = [metaEpoch EXCEPT ![g] = sEpoch]
          /\ validMask' = validMask \cup {g}
     ELSE UNCHANGED <<adoptedSeq, metaEpoch, validMask>>
  /\ UNCHANGED <<sState, sEpoch, sOpenAttempted, sHal, sHardwareConfigured,
                 sRecoveryEpochTaken, sFlightCalMask, sCalMask, facts,
                 diagEpoch, reports, policyAsked>>

-----------------------------------------------------------------------------
(* Report sets and policy                                                  *)

FaultStaysConfiguring(r) ==
  /\ BumpBy(ResetEpochs(r))
  /\ sState' = "CONFIGURING"
  /\ sRecoveryEpochTaken' = (sRecoveryEpochTaken \/ r)
  /\ diagEpoch' = 0
  /\ reports' = "unknown"
  /\ policyAsked' = NoMask
  /\ UNCHANGED <<sOpenAttempted, sHal, sHardwareConfigured, sFlightCalMask,
                 sCalMask, metaEpoch, adoptedSeq, assignedSeq>>

(* enter_faulted after a call that failed part way: no epoch is claimed    *)
(* beyond the one a reset inside the call took.                            *)
Fault(r) ==
  /\ BumpBy(ResetEpochs(r))
  /\ sState' = "FAULTED"
  /\ sRecoveryEpochTaken' = (sRecoveryEpochTaken \/ r)
  /\ diagEpoch' = 0
  /\ reports' = "unknown"
  /\ policyAsked' = NoMask
  /\ UNCHANGED <<sOpenAttempted, sHal, sHardwareConfigured, sFlightCalMask,
                 sCalMask, metaEpoch, adoptedSeq, assignedSeq>>

(* A report set and mask applied; n epochs are taken after the hardware    *)
(* accepted it, on top of a reset's own.  What is read back is recorded.   *)
Applied(set, mask, readBack, n, r) ==
  /\ BumpBy(ResetEpochs(r) + n)
  /\ sRecoveryEpochTaken' = (sRecoveryEpochTaken \/ r)
  /\ sHardwareConfigured' = TRUE
  /\ sCalMask' = readBack
  /\ reports' = IF ~sHal THEN "none" ELSE IF r THEN "unknown" ELSE set
  /\ policyAsked' = IF ~sHal \/ r THEN NoMask ELSE mask
  /\ UNCHANGED <<sOpenAttempted, sHal, metaEpoch, adoptedSeq, assignedSeq>>

(* Only check and probe compare the two; the other modes take what came.   *)
AppliedUnread(set, mask, n, r) ==
  \E readBack \in ReadBack(mask) : Applied(set, mask, readBack, n, r)

KeepDiagInEpoch == diagEpoch' = IF sEpoch' = sEpoch THEN diagEpoch ELSE 0

ConfigureProduction(mask, ok, r) ==
  LET policyChanged == sHardwareConfigured /\ mask # sFlightCalMask
  IN  /\ sState = "CONFIGURING"
      /\ ConfigOutcome(ok, r)
      /\ \/ /\ ~ok
            /\ Fault(r)
         \/ /\ ok
            /\ AppliedUnread("production", mask, IF policyChanged THEN 1 ELSE 0, r)
            /\ sState' = IF r /\ ~policyChanged THEN "RECOVERING"
                                                ELSE "CONFIGURING"
            /\ sFlightCalMask' = mask
            /\ KeepDiagInEpoch

RestoreProduction(mask, ok, r) ==
  /\ sState \in {"CALIBRATION", "TARE", "CHECK", "PROBE", "CONFIGURING"}
  /\ ConfigOutcome(ok, r)
  /\ \/ /\ ~ok
        /\ Fault(r)
     \/ /\ ok
        /\ AppliedUnread("production", mask, IF sHardwareConfigured THEN 1 ELSE 0, r)
        /\ sState' = "CONFIGURING"
        /\ sFlightCalMask' = mask
        /\ KeepDiagInEpoch

(* configure_calibration, and reconfigure_calibration which only differs   *)
(* in the state it is legal in.                                            *)
ConfigureCalibration(mask, ok, r) ==
  /\ sState \in {"CONFIGURING", "CALIBRATION"}
  /\ ConfigOutcome(ok, r)
  /\ \/ /\ ~ok
        /\ Fault(r)
     \/ /\ ok
        /\ AppliedUnread("calibration", mask, 1, r)
        /\ sState' = "CALIBRATION"
        /\ diagEpoch' = 0
        /\ UNCHANGED sFlightCalMask

ConfigureTare(ok, r) ==
  /\ sState = "CONFIGURING"
  /\ ConfigOutcome(ok, r)
  /\ \/ /\ ~ok
        /\ Fault(r)
     \/ /\ ok
        /\ AppliedUnread("tare", 0, 1, r)
        /\ sState' = "TARE"
        /\ diagEpoch' = 0
        /\ UNCHANGED sFlightCalMask

(* actual is the mask read back, which a host test may set as well; a      *)
(* readable difference makes the call return false and still leaves the    *)
(* session in the diagnostic state.                                        *)
ConfigureCheck(mode, mask, actual, ok, r) ==
  /\ sState = "CONFIGURING"
  /\ mode = "CHECK" => mask = 0
  /\ ConfigOutcome(ok, r)
  /\ \/ /\ ~ok
        /\ Fault(r)
     \/ /\ ok
        /\ Applied("check", mask, actual, 1, r)
        /\ sState' = mode
        /\ diagEpoch' = sEpoch'
        /\ UNCHANGED sFlightCalMask

(* tare_now and clear_tare: success is one new epoch in the same state.    *)
TareCommand(ok, r) ==
  /\ sState = "TARE"
  /\ ConfigOutcome(ok, r)
  /\ BumpBy(ResetEpochs(r) + IF ok THEN 1 ELSE 0)
  /\ sState' = IF r /\ ~ok THEN "RECOVERING" ELSE "TARE"
  /\ sRecoveryEpochTaken' = (sRecoveryEpochTaken \/ r)
  /\ reports' = IF r THEN "none" ELSE reports
  /\ policyAsked' = IF r THEN NoMask ELSE policyAsked
  /\ KeepDiagInEpoch
  /\ UNCHANGED <<sOpenAttempted, sHal, sHardwareConfigured, sFlightCalMask,
                 sCalMask, metaEpoch, adoptedSeq, assignedSeq>>

-----------------------------------------------------------------------------
(* State changes that call no SH-2 function                                *)

MoveState(from, to) ==
  /\ sState = from
  /\ sState' = to
  /\ UNCHANGED <<sEpoch, sOpenAttempted, sHal, sHardwareConfigured,
                 sRecoveryEpochTaken, sFlightCalMask, sCalMask, mailbox,
                 facts, diagEpoch, reports, policyAsked>>

BeginSettle == MoveState("CONFIGURING", "SETTLING")
MarkOperational == MoveState("SETTLING", "OPERATIONAL")
ReturnToConfiguring == MoveState("OPERATIONAL", "CONFIGURING")

-----------------------------------------------------------------------------
(* Recovery                                                                *)

(* begin_recovery, entered after a reset (r) the calling handler may have  *)
(* just observed: that reset's epoch is the recovery's own.                *)
(* reopen_hardware without a HAL answers from the host-test seam: success. *)
RecoverKeepsPending(ok, r) ==
  /\ ~sHal => ok
  /\ BumpBy(ResetEpochs(r) + IF sRecoveryEpochTaken \/ r THEN 0 ELSE 1)
  /\ sState' = IF ok THEN "CONFIGURING" ELSE "FAULTED"
  /\ sRecoveryEpochTaken' = TRUE
  /\ sHal' = (sHal /\ ok)
  /\ diagEpoch' = IF ok /\ sEpoch' = sEpoch THEN diagEpoch ELSE 0
  /\ reports' = "none"
  /\ policyAsked' = NoMask
  /\ UNCHANGED <<sOpenAttempted, sHardwareConfigured, sFlightCalMask,
                 sCalMask, metaEpoch, adoptedSeq, assignedSeq>>

RecoverEpochTwice(ok, r) ==
  /\ ~sHal => ok
  /\ BumpBy(ResetEpochs(r) + 1)
  /\ sState' = IF ok THEN "CONFIGURING" ELSE "FAULTED"
  /\ sRecoveryEpochTaken' = ~ok
  /\ sHal' = (sHal /\ ok)
  /\ diagEpoch' = 0
  /\ reports' = "none"
  /\ policyAsked' = NoMask
  /\ UNCHANGED <<sOpenAttempted, sHardwareConfigured, sFlightCalMask,
                 sCalMask, metaEpoch, adoptedSeq, assignedSeq>>

Recover(ok, r) ==
  /\ ~sHal => ok
  /\ BumpBy(ResetEpochs(r) + IF sRecoveryEpochTaken \/ r THEN 0 ELSE 1)
  /\ sState' = IF ok THEN "CONFIGURING" ELSE "FAULTED"
  /\ sRecoveryEpochTaken' = ~ok
  /\ sHal' = (sHal /\ ok)
  /\ diagEpoch' = IF ok /\ sEpoch' = sEpoch THEN diagEpoch ELSE 0
  /\ reports' = "none"
  /\ policyAsked' = NoMask
  /\ UNCHANGED <<sOpenAttempted, sHardwareConfigured, sFlightCalMask,
                 sCalMask, metaEpoch, adoptedSeq, assignedSeq>>

BeginRecovery(ok) ==
  /\ sState # "CLOSED"
  /\ Recover(ok, FALSE)

(* clear_dcd: an accepted clear-and-reset is recovered at once.  When the  *)
(* erase or the clear is refused only a reset that came all the same       *)
(* changes anything.                                                       *)
ClearDcd(accepted, reopenOk, r) ==
  /\ sState = "CONFIGURING"
  /\ ~sHal => accepted /\ ~r
  /\ \/ /\ accepted
        /\ Recover(reopenOk, r)
     \/ /\ ~accepted
        /\ r
        /\ HandleReset

(* The planned verification reopen takes its epoch before the reopen, so a *)
(* reset observed while SH-2 reopens takes another.                        *)
VerificationReopen(ok, r) ==
  /\ sState # "CLOSED"
  /\ Sh2Outcome(ok, r)
  /\ BumpBy(1 + ResetEpochs(r))
  /\ sState' = IF ok THEN "CONFIGURING" ELSE "FAULTED"
  /\ sRecoveryEpochTaken' = IF ok THEN FALSE ELSE sRecoveryEpochTaken \/ r
  /\ sHal' = (sHal /\ ok)
  /\ diagEpoch' = 0
  /\ reports' = "none"
  /\ policyAsked' = NoMask
  /\ UNCHANGED <<sOpenAttempted, sHardwareConfigured, sFlightCalMask,
                 sCalMask, metaEpoch, adoptedSeq, assignedSeq>>

-----------------------------------------------------------------------------
Configure ==
  \E ok, r \in BOOLEAN :
    \/ \E mask \in CalMasks : ConfigureProduction(mask, ok, r)
    \/ \E mask \in CalMasks : RestoreProduction(mask, ok, r)
    \/ \E mask \in CalMasks : ConfigureCalibration(mask, ok, r)
    \/ ConfigureTare(ok, r)
    \/ \E mode \in {"CHECK", "PROBE"}, mask, actual \in CalMasks :
         ConfigureCheck(mode, mask, actual, ok, r)
    \/ TareCommand(ok, r)

Recovery ==
  \/ \E ok \in BOOLEAN : BeginRecovery(ok)
  \/ \E accepted, ok, r \in BOOLEAN : ClearDcd(accepted, ok, r)
  \/ \E ok, r \in BOOLEAN : VerificationReopen(ok, r)

Service ==
  \/ HandleReset
  \/ DiagnosticDecode
  \/ \E g \in Groups, clockOk \in BOOLEAN : ProductionDecode(g, clockOk)

Next ==
  \/ \E ok \in BOOLEAN : Open(ok)
  \/ Service
  \/ Configure
  \/ BeginSettle
  \/ MarkOperational
  \/ ReturnToConfiguring
  \/ Recovery
  \/ Close

Spec == Init /\ [][Next]_vars

-----------------------------------------------------------------------------
(* Properties                                                              *)

ControlTypeOK ==
  /\ sState \in States
  /\ sOpenAttempted \in BOOLEAN
  /\ sHal \in BOOLEAN
  /\ sHardwareConfigured \in BOOLEAN
  /\ sRecoveryEpochTaken \in BOOLEAN

EpochTypeOK ==
  /\ sEpoch \in 0..MaxEpoch
  /\ validMask \in SUBSET Groups
  /\ facts \in [Mailboxes -> [epoch : 0..MaxEpoch, valid : BOOLEAN]]
  /\ diagEpoch \in 0..MaxEpoch

IdentityTypeOK ==
  /\ metaEpoch \in [Groups -> 0..MaxEpoch]
  /\ adoptedSeq \in [Groups -> 0..MaxSeq]
  /\ assignedSeq \in [Groups -> 0..MaxSeq]

PolicyTypeOK ==
  /\ sFlightCalMask \in CalMasks
  /\ sCalMask \in CalMasks
  /\ reports \in ReportSets
  /\ policyAsked \in CalMasks \cup {NoMask}

(* The types of the session's variables (imu_session.c:23-60).             *)
TypeOK == ControlTypeOK /\ EpochTypeOK /\ IdentityTypeOK /\ PolicyTypeOK

(* A group whose valid bit is set was last adopted in the current epoch:   *)
(* no reset, policy change, tare or reopen may leave an older sample       *)
(* eligible (validMask, "cleared on epoch increment").                     *)
ValidInEpoch == \A g \in validMask : sEpoch # 0 /\ metaEpoch[g] = sEpoch

(* A calibration, tare or check fact offered as valid belongs to the       *)
(* current epoch while the session lives, so a machine that compares       *)
(* epochs never judges a gate by facts of an earlier configuration.        *)
FactsInEpoch ==
  \A m \in Mailboxes :
    facts[m].valid /\ sState # "CLOSED" => facts[m].epoch = sEpoch

(* While a reset is pending recovery the reader is parked: no diagnostic   *)
(* or production state is entered on a chip that lost its configuration.   *)
(* "A reset observed on the SH-2 session ... moves the reader to           *)
(* RECOVERING."                                                            *)
ResetParksReader ==
  sRecoveryEpochTaken => sState \in {"RECOVERING", "FAULTED", "CLOSED"}

(* Diagnostics are eligible only in the CHECK or PROBE epoch they were     *)
(* opened in.                                                              *)
DiagnosticsInMode ==
  diagEpoch # 0 => diagEpoch = sEpoch /\ sState \in {"CHECK", "PROBE"}

(* What a consumer may use is of the mode it takes it for, whatever        *)
(* sequence of commands, faults, resets and reopens led here: samples used *)
(* in OPERATIONAL were streamed by the production report set, by a chip    *)
(* that was last asked for the flight calibration policy and has not been  *)
(* reset since; and a reset, a restore or a fault retires the diagnostics  *)
(* of a check.  That the chip obeyed is not promised: the mask it reads    *)
(* back, sCalMask, is compared with the request in check and probe only.   *)
EligibleInMode ==
  /\ sState = "OPERATIONAL" /\ validMask # {} =>
       reports = "production" /\ policyAsked = sFlightCalMask
  /\ DiagnosticsInMode

(* clear_dcd that ends in CONFIGURING took exactly one epoch, although the *)
(* chip's reset may be observed once inside it and the reopen follows.     *)
ClearDcdOneEpoch ==
  [][\A accepted, ok, r \in BOOLEAN :
       ClearDcd(accepted, ok, r) => sEpoch' = sEpoch + 1]_vars

(* A group's identity (configurationEpoch, groupEventSeq) never repeats    *)
(* and never goes back while the process lives: a new adoption has a       *)
(* larger sequence, and epochs only grow until the session is closed.      *)
IdentityGrows ==
  [][/\ \A g \in Groups :
          /\ adoptedSeq'[g] >= adoptedSeq[g]
          /\ metaEpoch'[g] # metaEpoch[g] => adoptedSeq'[g] > adoptedSeq[g]
     /\ sEpoch' >= sEpoch \/ sState' = "CLOSED"]_vars
=============================================================================
