-------------------------- MODULE ImuSessionProofs --------------------------
(***************************************************************************)
(* What holds of the session owner for every set of groups and masks and   *)
(* every bound.  The epoch facts hold wherever a reset arrives; that the   *)
(* reader is parked and that eligible samples are production samples is    *)
(* proved under ~ResetInConfigure, the contract imu_session.h states       *)
(* (callbacks fire inside service()).                                      *)
(***************************************************************************)
EXTENDS ImuSession, TLAPS

(* Every action that touches the epoch goes through one of these shapes;   *)
(* the lemma names the step so that each invariant is proved per action.   *)
Step ==
  \/ \E ok \in BOOLEAN : Open(ok)
  \/ HandleReset
  \/ DiagnosticDecode
  \/ \E g \in Groups, clockOk \in BOOLEAN : ProductionDecode(g, clockOk)
  \/ \E ok, r \in BOOLEAN, mask \in CalMasks : ConfigureProduction(mask, ok, r)
  \/ \E ok, r \in BOOLEAN, mask \in CalMasks : RestoreProduction(mask, ok, r)
  \/ \E ok, r \in BOOLEAN, mask \in CalMasks : ConfigureCalibration(mask, ok, r)
  \/ \E ok, r \in BOOLEAN : ConfigureTare(ok, r)
  \/ \E ok, r \in BOOLEAN, mode \in {"CHECK", "PROBE"}, mask, actual \in CalMasks :
       ConfigureCheck(mode, mask, actual, ok, r)
  \/ \E ok, r \in BOOLEAN : TareCommand(ok, r)
  \/ BeginSettle \/ MarkOperational \/ ReturnToConfiguring
  \/ \E ok, r \in BOOLEAN : Recover(ok, r) /\ sState # "CLOSED"
  \/ \E ok, r \in BOOLEAN : VerificationReopen(ok, r)
  \/ Close

(* Next is one of the listed steps: clear_dcd is a recovery or a reset.    *)
LEMMA NextIsStep == Next => Step
BY DEF Next, Step, Service, Configure, Recovery, BeginRecovery, ClearDcd

BumpedType ==
  /\ sEpoch' \in 0..MaxEpoch
  /\ validMask' \in SUBSET Groups
  /\ facts' \in [Mailboxes -> [epoch : 0..MaxEpoch, valid : BOOLEAN]]

(* The epoch moves by BumpBy to a value within the bound, and what BumpBy  *)
(* clears stays in its type.                                               *)
LEMMA BumpType ==
  ASSUME TypeOK, NEW n \in 0..2, BumpBy(n)
  PROVE  BumpedType
<1>1. sEpoch + n \in 0..MaxEpoch
  BY SessionAssumption DEF SessionAssumption, TypeOK, EpochTypeOK, BumpBy
<1>2. ClearedFacts(sEpoch + n) \in [Mailboxes -> [epoch : 0..MaxEpoch, valid : BOOLEAN]]
  BY <1>1 DEF ClearedFacts
<1> QED
  BY <1>1, <1>2 DEF TypeOK, EpochTypeOK, BumpBy, BumpedType

(* A reset inside a call takes at most one epoch.                          *)
LEMMA ResetEpochsType == ASSUME NEW r \in BOOLEAN PROVE ResetEpochs(r) \in 0..1
BY DEF ResetEpochs

(* What is read back is a mask too.                                        *)
LEMMA ReadBackType == ASSUME NEW mask \in CalMasks PROVE ReadBack(mask) \subseteq CalMasks
BY DEF ReadBack

(* The types of the session's variables hold in every reachable state.     *)
THEOREM SessionTypeOK == Spec => []TypeOK
<1> USE DEF States, ReportSets
<1>1. Init => TypeOK
  <2>1. 0 \in 0..MaxEpoch /\ 0 \in 0..MaxSeq /\ 0 \in CalMasks
    BY SessionAssumption DEF SessionAssumption
  <2>2. ClearedFacts(0) \in [Mailboxes -> [epoch : 0..MaxEpoch, valid : BOOLEAN]]
    BY <2>1 DEF ClearedFacts
  <2> QED
    BY <2>1, <2>2 DEF Init, TypeOK, ControlTypeOK, EpochTypeOK, IdentityTypeOK,
                      PolicyTypeOK
<1>2. TypeOK /\ [Next]_vars => TypeOK'
  <2> SUFFICES ASSUME TypeOK, [Next]_vars
               PROVE  TypeOK'
    OBVIOUS
  <2>1. ASSUME NEW ok \in BOOLEAN, Open(ok)
        PROVE  TypeOK'
    <3>a. ControlTypeOK'
      BY <2>1 DEF Open, TypeOK, ControlTypeOK
    <3>1. (IF ok THEN 1 ELSE 0) \in 0..2
      OBVIOUS
    <3>2. BumpedType
      BY <2>1, <3>1, BumpType DEF Open
    <3>b. EpochTypeOK'
      BY <2>1, <3>2, SessionAssumption
      DEF SessionAssumption, BumpedType, Open, TypeOK, EpochTypeOK
    <3>c. IdentityTypeOK'
      BY <2>1 DEF Open, TypeOK, IdentityTypeOK
    <3>d. PolicyTypeOK'
      BY <2>1 DEF Open, TypeOK, PolicyTypeOK
    <3> QED
      BY <3>a, <3>b, <3>c, <3>d DEF TypeOK
  <2>2. ASSUME HandleReset
        PROVE  TypeOK'
    <3>a. ControlTypeOK'
      BY <2>2 DEF HandleReset, TypeOK, ControlTypeOK
    <3>1. ResetEpochs(TRUE) \in 0..2
      BY DEF ResetEpochs
    <3>2. BumpedType
      BY <2>2, <3>1, BumpType DEF HandleReset
    <3>b. EpochTypeOK'
      BY <2>2, <3>2, SessionAssumption
      DEF SessionAssumption, BumpedType, HandleReset, TypeOK, EpochTypeOK
    <3>c. IdentityTypeOK'
      BY <2>2 DEF HandleReset, TypeOK, IdentityTypeOK
    <3>d. PolicyTypeOK'
      BY <2>2 DEF HandleReset, TypeOK, PolicyTypeOK
    <3> QED
      BY <3>a, <3>b, <3>c, <3>d DEF TypeOK
  <2>3. ASSUME DiagnosticDecode
        PROVE  TypeOK'
    <3>a. ControlTypeOK'
      BY <2>3 DEF DiagnosticDecode, mailbox, TypeOK, ControlTypeOK
    <3>1. DiagnosticMailbox(sState) \in Mailboxes
      BY <2>3 DEF DiagnosticDecode, DiagnosticMailbox, Mailboxes
    <3>b. EpochTypeOK'
      BY <2>3, <3>1 DEF DiagnosticDecode, mailbox, TypeOK, EpochTypeOK
    <3>c. IdentityTypeOK'
      BY <2>3 DEF DiagnosticDecode, mailbox, TypeOK, IdentityTypeOK
    <3>d. PolicyTypeOK'
      BY <2>3 DEF DiagnosticDecode, mailbox, TypeOK, PolicyTypeOK
    <3> QED
      BY <3>a, <3>b, <3>c, <3>d DEF TypeOK
  <2>4. ASSUME NEW g \in Groups, NEW clockOk \in BOOLEAN, ProductionDecode(g, clockOk)
        PROVE  TypeOK'
    <3>1. assignedSeq[g] + 1 \in 0..MaxSeq
      BY <2>4, SessionAssumption
      DEF SessionAssumption, ProductionDecode, TypeOK, IdentityTypeOK
    <3>a. ControlTypeOK'
      BY <2>4 DEF ProductionDecode, TypeOK, ControlTypeOK
    <3>b. EpochTypeOK'
      BY <2>4 DEF ProductionDecode, TypeOK, EpochTypeOK
    <3>c. IdentityTypeOK'
      BY <2>4, <3>1 DEF ProductionDecode, TypeOK, IdentityTypeOK, EpochTypeOK
    <3>d. PolicyTypeOK'
      BY <2>4 DEF ProductionDecode, TypeOK, PolicyTypeOK
    <3> QED
      BY <3>a, <3>b, <3>c, <3>d DEF TypeOK
  <2>5. ASSUME NEW r \in BOOLEAN, Fault(r)
        PROVE  TypeOK'
    <3>a. ControlTypeOK'
      BY <2>5 DEF Fault, TypeOK, ControlTypeOK
    <3>1. ResetEpochs(r) \in 0..2
      BY ResetEpochsType
    <3>2. BumpedType
      BY <2>5, <3>1, BumpType DEF Fault
    <3>b. EpochTypeOK'
      BY <2>5, <3>2, SessionAssumption
      DEF SessionAssumption, BumpedType, Fault, TypeOK, EpochTypeOK
    <3>c. IdentityTypeOK'
      BY <2>5 DEF Fault, TypeOK, IdentityTypeOK
    <3>d. PolicyTypeOK'
      BY <2>5 DEF Fault, TypeOK, PolicyTypeOK
    <3> QED
      BY <3>a, <3>b, <3>c, <3>d DEF TypeOK
  <2>6. ASSUME NEW set \in ReportSets, NEW mask \in CalMasks,
               NEW readBack \in CalMasks, NEW n \in 0..1,
               NEW r \in BOOLEAN, Applied(set, mask, readBack, n, r),
               sState' \in States, sFlightCalMask' \in CalMasks,
               diagEpoch' \in {0, diagEpoch, sEpoch'}
        PROVE  TypeOK'
    <3>a. ControlTypeOK'
      BY <2>6 DEF Applied, TypeOK, ControlTypeOK
    <3>1. ResetEpochs(r) + n \in 0..2
      BY ResetEpochsType
    <3>2. BumpedType
      BY <2>6, <3>1, BumpType DEF Applied
    <3>b. EpochTypeOK'
      BY <2>6, <3>2, SessionAssumption
      DEF SessionAssumption, BumpedType, Applied, TypeOK, EpochTypeOK
    <3>c. IdentityTypeOK'
      BY <2>6 DEF Applied, TypeOK, IdentityTypeOK
    <3>d. PolicyTypeOK'
      BY <2>6 DEF Applied, TypeOK, PolicyTypeOK
    <3> QED
      BY <3>a, <3>b, <3>c, <3>d DEF TypeOK
  <2>6u. ASSUME NEW set \in ReportSets, NEW mask \in CalMasks, NEW n \in 0..1,
                NEW r \in BOOLEAN, AppliedUnread(set, mask, n, r),
                sState' \in States, sFlightCalMask' \in CalMasks,
                diagEpoch' \in {0, diagEpoch, sEpoch'}
         PROVE  TypeOK'
    <3>1. PICK readBack \in ReadBack(mask) : Applied(set, mask, readBack, n, r)
      BY <2>6u, Zenon DEF AppliedUnread
    <3>2. readBack \in CalMasks
      BY ReadBackType
    <3> QED
      BY <2>6, <2>6u, <3>1, <3>2
  <2>7. ASSUME NEW ok \in BOOLEAN, NEW r \in BOOLEAN, NEW mask \in CalMasks,
               ConfigureProduction(mask, ok, r)
        PROVE  TypeOK'
    BY <2>5, <2>6u, <2>7 DEF ConfigureProduction, TypeOK, PolicyTypeOK, KeepDiagInEpoch
  <2>8. ASSUME NEW ok \in BOOLEAN, NEW r \in BOOLEAN, NEW mask \in CalMasks,
               RestoreProduction(mask, ok, r)
        PROVE  TypeOK'
    BY <2>5, <2>6u, <2>8 DEF RestoreProduction, TypeOK, PolicyTypeOK, KeepDiagInEpoch
  <2>9. ASSUME NEW ok \in BOOLEAN, NEW r \in BOOLEAN, NEW mask \in CalMasks,
               ConfigureCalibration(mask, ok, r)
        PROVE  TypeOK'
    BY <2>5, <2>6u, <2>9 DEF ConfigureCalibration, TypeOK, PolicyTypeOK
  <2>10. ASSUME NEW ok \in BOOLEAN, NEW r \in BOOLEAN, ConfigureTare(ok, r)
        PROVE  TypeOK'
    BY <2>5, <2>6u, <2>10, SessionAssumption
    DEF SessionAssumption, ConfigureTare, TypeOK, PolicyTypeOK
  <2>11. ASSUME NEW ok \in BOOLEAN, NEW r \in BOOLEAN, NEW mode \in {"CHECK", "PROBE"},
               NEW mask \in CalMasks, NEW actual \in CalMasks,
               ConfigureCheck(mode, mask, actual, ok, r)
        PROVE  TypeOK'
    BY <2>5, <2>6, <2>11 DEF ConfigureCheck, TypeOK, PolicyTypeOK
  <2>12. ASSUME NEW ok \in BOOLEAN, NEW r \in BOOLEAN, TareCommand(ok, r)
        PROVE  TypeOK'
    <3>a. ControlTypeOK'
      BY <2>12 DEF TareCommand, TypeOK, ControlTypeOK
    <3>1. ResetEpochs(r) + (IF ok THEN 1 ELSE 0) \in 0..2
      BY ResetEpochsType
    <3>2. BumpedType
      BY <2>12, <3>1, BumpType DEF TareCommand
    <3>b. EpochTypeOK'
      BY <2>12, <3>2, SessionAssumption
      DEF SessionAssumption, BumpedType, TareCommand, KeepDiagInEpoch, TypeOK, EpochTypeOK
    <3>c. IdentityTypeOK'
      BY <2>12 DEF TareCommand, TypeOK, IdentityTypeOK
    <3>d. PolicyTypeOK'
      BY <2>12 DEF TareCommand, TypeOK, PolicyTypeOK
    <3> QED
      BY <3>a, <3>b, <3>c, <3>d DEF TypeOK
  <2>13. ASSUME NEW ok \in BOOLEAN, NEW r \in BOOLEAN, Recover(ok, r)
        PROVE  TypeOK'
    <3>a. ControlTypeOK'
      BY <2>13 DEF Recover, TypeOK, ControlTypeOK
    <3>1. ResetEpochs(r) + (IF sRecoveryEpochTaken \/ r THEN 0 ELSE 1) \in 0..2
      BY ResetEpochsType
    <3>2. BumpedType
      BY <2>13, <3>1, BumpType DEF Recover
    <3>b. EpochTypeOK'
      BY <2>13, <3>2, SessionAssumption
      DEF SessionAssumption, BumpedType, Recover, TypeOK, EpochTypeOK
    <3>c. IdentityTypeOK'
      BY <2>13 DEF Recover, TypeOK, IdentityTypeOK
    <3>d. PolicyTypeOK'
      BY <2>13 DEF Recover, TypeOK, PolicyTypeOK
    <3> QED
      BY <3>a, <3>b, <3>c, <3>d DEF TypeOK
  <2>14. ASSUME NEW ok \in BOOLEAN, NEW r \in BOOLEAN, VerificationReopen(ok, r)
        PROVE  TypeOK'
    <3>a. ControlTypeOK'
      BY <2>14 DEF VerificationReopen, TypeOK, ControlTypeOK
    <3>1. 1 + ResetEpochs(r) \in 0..2
      BY ResetEpochsType
    <3>2. BumpedType
      BY <2>14, <3>1, BumpType DEF VerificationReopen
    <3>b. EpochTypeOK'
      BY <2>14, <3>2, SessionAssumption
      DEF SessionAssumption, BumpedType, VerificationReopen, TypeOK, EpochTypeOK
    <3>c. IdentityTypeOK'
      BY <2>14 DEF VerificationReopen, TypeOK, IdentityTypeOK
    <3>d. PolicyTypeOK'
      BY <2>14 DEF VerificationReopen, TypeOK, PolicyTypeOK
    <3> QED
      BY <3>a, <3>b, <3>c, <3>d DEF TypeOK
  <2>15. ASSUME BeginSettle \/ MarkOperational \/ ReturnToConfiguring
        PROVE  TypeOK'
    <3>a. ControlTypeOK'
      BY <2>15 DEF BeginSettle, MarkOperational, ReturnToConfiguring,
             MoveState, mailbox, TypeOK, ControlTypeOK
    <3>b. EpochTypeOK'
      BY <2>15 DEF BeginSettle, MarkOperational, ReturnToConfiguring,
             MoveState, mailbox, TypeOK, EpochTypeOK
    <3>c. IdentityTypeOK'
      BY <2>15 DEF BeginSettle, MarkOperational, ReturnToConfiguring,
             MoveState, mailbox, TypeOK, IdentityTypeOK
    <3>d. PolicyTypeOK'
      BY <2>15 DEF BeginSettle, MarkOperational, ReturnToConfiguring,
             MoveState, mailbox, TypeOK, PolicyTypeOK
    <3> QED
      BY <3>a, <3>b, <3>c, <3>d DEF TypeOK
  <2>16. ASSUME Close
        PROVE  TypeOK'
    <3>a. ControlTypeOK'
      BY <2>16 DEF Close, TypeOK, ControlTypeOK
    <3>b. EpochTypeOK'
      BY <2>16, SessionAssumption
      DEF SessionAssumption, Close, TypeOK, EpochTypeOK
    <3>c. IdentityTypeOK'
      BY <2>16 DEF Close, TypeOK, IdentityTypeOK
    <3>d. PolicyTypeOK'
      BY <2>16 DEF Close, TypeOK, PolicyTypeOK
    <3> QED
      BY <3>a, <3>b, <3>c, <3>d DEF TypeOK
  <2>17. ASSUME UNCHANGED vars
        PROVE  TypeOK'
    <3>a. ControlTypeOK'
      BY <2>17 DEF vars, mailbox, TypeOK, ControlTypeOK
    <3>b. EpochTypeOK'
      BY <2>17 DEF vars, mailbox, TypeOK, EpochTypeOK
    <3>c. IdentityTypeOK'
      BY <2>17 DEF vars, mailbox, TypeOK, IdentityTypeOK
    <3>d. PolicyTypeOK'
      BY <2>17 DEF vars, mailbox, TypeOK, PolicyTypeOK
    <3> QED
      BY <3>a, <3>b, <3>c, <3>d DEF TypeOK
  <2> QED
    BY <2>1, <2>2, <2>3, <2>4, <2>7, <2>8, <2>9, <2>10, <2>11, <2>12, <2>13,
       <2>14, <2>15, <2>16, <2>17, NextIsStep DEF Step
<1> QED
  BY <1>1, <1>2, PTL DEF Spec

-----------------------------------------------------------------------------
(* Validity and facts belong to the current epoch                          *)

SessionAlive ==
  /\ ~sOpenAttempted => sState = "CLOSED" /\ sEpoch = 0
  /\ sHal => sEpoch # 0 /\ sState # "CLOSED"

(* Until the session is closed every mailbox carries its epoch, read or    *)
(* not; a close leaves the mailboxes as they are.                          *)
FactsLive ==
  sState # "CLOSED" \/ ~sOpenAttempted =>
    \A m \in Mailboxes : facts[m].epoch = sEpoch

EpochInv == TypeOK /\ SessionAlive /\ ValidInEpoch /\ FactsLive

(* Any step that moves the epoch by BumpBy keeps both.                     *)
LEMMA BumpKeepsEpochs ==
  ASSUME EpochInv, TypeOK', sState # "CLOSED" \/ ~sOpenAttempted,
         NEW n \in 0..2, BumpBy(n), metaEpoch' = metaEpoch, sOpenAttempted',
         sHal' => (sHal \/ n > 0) /\ sState' # "CLOSED"
  PROVE  EpochInv'
<1>1. CASE n = 0
  <2>1. sEpoch' = sEpoch /\ validMask' = validMask /\ facts' = facts
    BY <1>1 DEF BumpBy, EpochInv, TypeOK, EpochTypeOK
  <2> QED
    BY <1>1, <2>1 DEF EpochInv, SessionAlive, ValidInEpoch, FactsLive
<1>2. CASE n > 0
  <2>1. sEpoch' # 0 /\ validMask' = {} /\ facts' = ClearedFacts(sEpoch')
    BY <1>2 DEF BumpBy, EpochInv, TypeOK, EpochTypeOK
  <2>2. \A m \in Mailboxes : facts'[m].epoch = sEpoch'
    BY <2>1 DEF ClearedFacts
  <2> QED
    BY <2>1, <2>2 DEF EpochInv, SessionAlive, ValidInEpoch, FactsLive
<1> QED
  BY <1>1, <1>2

(* Every step of the session keeps validity and live facts in the current  *)
(* epoch.                                                                  *)
LEMMA StepKeepsEpochs ==
  ASSUME EpochInv, TypeOK', [Next]_vars
  PROVE  EpochInv'
<1>0. sState # "CLOSED" => sOpenAttempted
  BY DEF EpochInv, SessionAlive
<1>1. ASSUME NEW ok \in BOOLEAN, Open(ok)
      PROVE  EpochInv'
  <2>1. (IF ok THEN 1 ELSE 0) \in 0..2
    OBVIOUS
  <2>2. ~sHal
    BY <1>1 DEF Open, EpochInv, SessionAlive
  <2> QED
    BY <1>1, <2>1, <2>2, BumpKeepsEpochs DEF Open
<1>2. ASSUME HandleReset
      PROVE  EpochInv'
  <2>1. ResetEpochs(TRUE) \in 0..2
    BY DEF ResetEpochs
  <2> QED
    BY <1>0, <1>2, <2>1, BumpKeepsEpochs DEF HandleReset
<1>3. ASSUME DiagnosticDecode
      PROVE  EpochInv'
  <2>1. DiagnosticMailbox(sState) \in Mailboxes
    BY <1>3 DEF DiagnosticDecode, DiagnosticMailbox, Mailboxes
  <2>2. \A m \in Mailboxes : facts'[m].epoch = sEpoch
    BY <1>3, <2>1 DEF DiagnosticDecode, EpochInv, FactsLive, TypeOK, EpochTypeOK
  <2> QED
    BY <1>3, <2>2 DEF DiagnosticDecode, mailbox, EpochInv, SessionAlive, ValidInEpoch,
                      FactsLive
<1>4. ASSUME NEW g \in Groups, NEW clockOk \in BOOLEAN, ProductionDecode(g, clockOk)
      PROVE  EpochInv'
  <2>1. ValidInEpoch'
    BY <1>4 DEF ProductionDecode, EpochInv, SessionAlive, ValidInEpoch, TypeOK,
                IdentityTypeOK, EpochTypeOK
  <2> QED
    BY <1>4, <2>1 DEF ProductionDecode, EpochInv, SessionAlive, FactsLive
<1>5. ASSUME NEW r \in BOOLEAN, Fault(r), sState # "CLOSED"
      PROVE  EpochInv'
  <2>1. ResetEpochs(r) \in 0..2
    BY ResetEpochsType
  <2> QED
    BY <1>0, <1>5, <2>1, BumpKeepsEpochs DEF Fault
<1>6. ASSUME NEW set, NEW mask, NEW readBack, NEW n \in 0..1, NEW r \in BOOLEAN,
             Applied(set, mask, readBack, n, r), sState # "CLOSED", sState' # "CLOSED"
      PROVE  EpochInv'
  <2>1. ResetEpochs(r) + n \in 0..2
    BY ResetEpochsType
  <2> QED
    BY <1>0, <1>6, <2>1, BumpKeepsEpochs DEF Applied
<1>7. ASSUME NEW ok \in BOOLEAN, NEW r \in BOOLEAN, NEW mask \in CalMasks,
             ConfigureProduction(mask, ok, r) \/ RestoreProduction(mask, ok, r)
      PROVE  EpochInv'
  BY <1>5, <1>6, <1>7 DEF ConfigureProduction, RestoreProduction, AppliedUnread
<1>8. ASSUME NEW ok \in BOOLEAN, NEW r \in BOOLEAN, NEW mask \in CalMasks,
             ConfigureCalibration(mask, ok, r) \/ ConfigureTare(ok, r)
      PROVE  EpochInv'
  BY <1>5, <1>6, <1>8 DEF ConfigureCalibration, ConfigureTare, AppliedUnread
<1>9. ASSUME NEW ok \in BOOLEAN, NEW r \in BOOLEAN, NEW mode \in {"CHECK", "PROBE"},
             NEW mask \in CalMasks, NEW actual \in CalMasks,
             ConfigureCheck(mode, mask, actual, ok, r)
      PROVE  EpochInv'
  BY <1>5, <1>6, <1>9 DEF ConfigureCheck
<1>10. ASSUME NEW ok \in BOOLEAN, NEW r \in BOOLEAN, TareCommand(ok, r)
       PROVE  EpochInv'
  <2>1. ResetEpochs(r) + (IF ok THEN 1 ELSE 0) \in 0..2
    BY ResetEpochsType
  <2> QED
    BY <1>0, <1>10, <2>1, BumpKeepsEpochs DEF TareCommand
<1>11. ASSUME BeginSettle \/ MarkOperational \/ ReturnToConfiguring
       PROVE  EpochInv'
  BY <1>0, <1>11 DEF BeginSettle, MarkOperational, ReturnToConfiguring, MoveState, mailbox,
                     EpochInv, SessionAlive, ValidInEpoch, FactsLive
<1>12. ASSUME NEW ok \in BOOLEAN, NEW r \in BOOLEAN, Recover(ok, r), sState # "CLOSED"
       PROVE  EpochInv'
  <2>1. ResetEpochs(r) + (IF sRecoveryEpochTaken \/ r THEN 0 ELSE 1) \in 0..2
    BY ResetEpochsType
  <2> QED
    BY <1>0, <1>12, <2>1, BumpKeepsEpochs DEF Recover
<1>13. ASSUME NEW ok \in BOOLEAN, NEW r \in BOOLEAN, VerificationReopen(ok, r)
       PROVE  EpochInv'
  <2>1. 1 + ResetEpochs(r) \in 0..2
    BY ResetEpochsType
  <2> QED
    BY <1>0, <1>13, <2>1, BumpKeepsEpochs DEF VerificationReopen
<1>14. ASSUME Close
       PROVE  EpochInv'
  BY <1>14 DEF Close, EpochInv, SessionAlive, ValidInEpoch, FactsLive
<1>15. ASSUME UNCHANGED vars
       PROVE  EpochInv'
  BY <1>15 DEF vars, mailbox, EpochInv, SessionAlive, ValidInEpoch, FactsLive
<1> QED
  BY <1>1, <1>2, <1>3, <1>4, <1>7, <1>8, <1>9, <1>10, <1>11, <1>12, <1>13, <1>14,
     <1>15, NextIsStep, SessionAssumption DEF SessionAssumption, Step

(* The epoch invariant holds in every reachable state, wherever resets     *)
(* arrive.                                                                 *)
LEMMA EpochInvariant == Spec => []EpochInv
<1>1. Init /\ TypeOK => EpochInv
  BY DEF Init, EpochInv, SessionAlive, ValidInEpoch, FactsLive, ClearedFacts
<1>2. EpochInv /\ TypeOK' /\ [Next]_vars => EpochInv'
  BY StepKeepsEpochs
<1> QED
  BY <1>1, <1>2, SessionTypeOK, PTL DEF Spec

(* A valid group was adopted in the current epoch, wherever resets arrive. *)
THEOREM ValidityIsCurrent == Spec => []ValidInEpoch
<1>1. EpochInv => ValidInEpoch
  BY DEF EpochInv
<1> QED
  BY <1>1, EpochInvariant, PTL

(* Facts offered to a machine while the session lives are of its epoch.    *)
THEOREM FactsAreCurrent == Spec => []FactsInEpoch
<1>1. EpochInv => FactsInEpoch
  BY DEF EpochInv, FactsLive, FactsInEpoch
<1> QED
  BY <1>1, EpochInvariant, PTL

-----------------------------------------------------------------------------
(* Parking and eligibility, when resets only arrive in service()           *)

(* What the chip streams and what is valid agree with the reader's state.  *)
ParkInv ==
  /\ TypeOK
  /\ ResetParksReader
  /\ ~sOpenAttempted => sState = "CLOSED" /\ ~sRecoveryEpochTaken
  /\ sState = "CLOSED" \/ ~sHal \/ sRecoveryEpochTaken =>
       validMask = {} /\ reports = "none"
  /\ sState \in {"CONFIGURING", "SETTLING", "OPERATIONAL"} =>
       /\ reports \in {"none", "production"}
       /\ reports = "production" => policyAsked = sFlightCalMask
       /\ validMask # {} => reports = "production"
  /\ DiagnosticsInMode
  /\ diagEpoch # 0 => sHardwareConfigured

(* With resets outside the configuration calls, every step keeps a pending *)
(* reset parked and the eligible samples those of the production set.      *)
LEMMA StepKeepsParked ==
  ASSUME ~ResetInConfigure, ParkInv, TypeOK', [Next]_vars
  PROVE  ParkInv'
<1>0. sEpoch \in Nat /\ validMask \in SUBSET Groups
  BY DEF ParkInv, TypeOK, EpochTypeOK
<1>1. ASSUME NEW ok \in BOOLEAN, Open(ok)
      PROVE  ParkInv'
  BY <1>0, <1>1 DEF Open, BumpBy, ParkInv, ResetParksReader, DiagnosticsInMode
<1>2. ASSUME HandleReset
      PROVE  ParkInv'
  BY <1>0, <1>2 DEF HandleReset, BumpBy, ResetEpochs, ParkInv, ResetParksReader, DiagnosticsInMode
<1>3. ASSUME DiagnosticDecode
      PROVE  ParkInv'
  BY <1>3 DEF DiagnosticDecode, mailbox, ParkInv, ResetParksReader, DiagnosticsInMode
<1>4. ASSUME NEW g \in Groups, NEW clockOk \in BOOLEAN, ProductionDecode(g, clockOk)
      PROVE  ParkInv'
  <2>1. reports # "none"
    BY <1>4 DEF ProductionDecode, Streams
  <2> QED
    BY <1>4, <2>1 DEF ProductionDecode, ParkInv, ResetParksReader, DiagnosticsInMode
<1>5. ASSUME NEW r \in BOOLEAN, NEW ok \in BOOLEAN, ConfigOutcome(ok, r)
      PROVE  r = FALSE /\ (~ok => sHal)
  BY <1>5 DEF ConfigOutcome, Sh2Outcome
<1>6. ASSUME Fault(FALSE), sHal, sState \notin {"CLOSED", "RECOVERING", "FAULTED"}
      PROVE  ParkInv'
  BY <1>0, <1>6 DEF Fault, ParkInv, ResetParksReader, DiagnosticsInMode
<1>7. ASSUME NEW set, NEW mask, NEW readBack, NEW n \in 0..1,
             Applied(set, mask, readBack, n, FALSE),
             sState \notin {"CLOSED", "RECOVERING", "FAULTED"},
             \/ sState' \in {"CALIBRATION", "TARE"} /\ diagEpoch' = 0
             \/ sState' \in {"CHECK", "PROBE"} /\ diagEpoch' = sEpoch'
             \/ /\ sState' = "CONFIGURING" /\ diagEpoch' = 0
                /\ set = "production" /\ sFlightCalMask' = mask
      PROVE  ParkInv'
  <2>1. ~sRecoveryEpochTaken /\ ~sRecoveryEpochTaken'
    BY <1>7 DEF Applied, ParkInv, ResetParksReader, DiagnosticsInMode
  <2>2. validMask' = {} \/ validMask' = validMask
    BY <1>7 DEF Applied, BumpBy, ResetEpochs
  <2> QED
    BY <1>7, <2>1, <2>2 DEF Applied, ParkInv, ResetParksReader, DiagnosticsInMode
<1>8. ASSUME NEW ok \in BOOLEAN, NEW r \in BOOLEAN, NEW mask \in CalMasks,
             ConfigureProduction(mask, ok, r) \/ RestoreProduction(mask, ok, r)
      PROVE  ParkInv'
  <2>1. r = FALSE /\ (~ok => sHal)
    BY <1>5, <1>8 DEF ConfigureProduction, RestoreProduction
  <2>2. sState \notin {"CLOSED", "RECOVERING", "FAULTED"}
    BY <1>8 DEF ConfigureProduction, RestoreProduction
  <2>3. CASE ~ok
    BY <1>6, <1>8, <2>1, <2>2, <2>3 DEF ConfigureProduction, RestoreProduction
  <2>4. CASE ok
    <3>a. (IF sHardwareConfigured /\ mask # sFlightCalMask THEN 1 ELSE 0) \in 0..1
      OBVIOUS
    <3>b. (IF sHardwareConfigured THEN 1 ELSE 0) \in 0..1
      OBVIOUS
    <3>c. \/ AppliedUnread("production", mask,
               IF sHardwareConfigured /\ mask # sFlightCalMask THEN 1 ELSE 0, FALSE)
          \/ AppliedUnread("production", mask,
               IF sHardwareConfigured THEN 1 ELSE 0, FALSE)
      BY <1>8, <2>1, <2>4, Zenon DEF ConfigureProduction, RestoreProduction
    <3>d. PICK n \in 0..1 : AppliedUnread("production", mask, n, FALSE)
      BY <3>a, <3>b, <3>c, Zenon
    <3>1. PICK readBack \in ReadBack(mask) : Applied("production", mask, readBack, n, FALSE)
      BY <3>d, Zenon DEF AppliedUnread
    <3>2. sState' = "CONFIGURING" /\ sFlightCalMask' = mask
      BY <1>8, <2>1, <2>4 DEF ConfigureProduction, RestoreProduction
    <3>3. diagEpoch' = 0
      <4>1. CASE ConfigureProduction(mask, ok, r)
        BY <4>1, <2>4, <2>1
        DEF ConfigureProduction, KeepDiagInEpoch, ParkInv, DiagnosticsInMode
      <4>2. CASE RestoreProduction(mask, ok, r)
        <5>1. diagEpoch' = IF sEpoch' = sEpoch THEN diagEpoch ELSE 0
          BY <4>2, <2>4 DEF RestoreProduction, KeepDiagInEpoch
        <5>2. sHardwareConfigured => sEpoch' = sEpoch + 1
          BY <1>0, <4>2, <2>1, <2>4
          DEF RestoreProduction, AppliedUnread, Applied, BumpBy, ResetEpochs
        <5> QED
          BY <1>0, <5>1, <5>2 DEF ParkInv
      <4> QED
        BY <1>8, <4>1, <4>2
    <3> QED
      BY <1>7, <2>2, <3>1, <3>2, <3>3
  <2> QED
    BY <2>3, <2>4
<1>9. ASSUME NEW ok \in BOOLEAN, NEW r \in BOOLEAN, NEW mask \in CalMasks,
             ConfigureCalibration(mask, ok, r) \/ ConfigureTare(ok, r)
      PROVE  ParkInv'
  <2>1. r = FALSE /\ (~ok => sHal)
    BY <1>5, <1>9 DEF ConfigureCalibration, ConfigureTare
  <2>2. sState \notin {"CLOSED", "RECOVERING", "FAULTED"}
    BY <1>9 DEF ConfigureCalibration, ConfigureTare
  <2>3. CASE ~ok
    BY <1>6, <1>9, <2>1, <2>2, <2>3 DEF ConfigureCalibration, ConfigureTare
  <2>4. CASE ok
    <3>a. AppliedUnread("calibration", mask, 1, FALSE) \/ AppliedUnread("tare", 0, 1, FALSE)
      BY <1>9, <2>1, <2>4 DEF ConfigureCalibration, ConfigureTare
    <3>1. \E set, request, readBack : Applied(set, request, readBack, 1, FALSE)
      BY <3>a, Zenon DEF AppliedUnread
    <3>2. sState' \in {"CALIBRATION", "TARE"} /\ diagEpoch' = 0
      BY <1>9, <2>4 DEF ConfigureCalibration, ConfigureTare
    <3>3. 1 \in 0..1
      OBVIOUS
    <3> QED
      BY <1>7, <2>2, <3>1, <3>2, <3>3, Zenon
  <2> QED
    BY <2>3, <2>4
<1>10. ASSUME NEW ok \in BOOLEAN, NEW r \in BOOLEAN, NEW mode \in {"CHECK", "PROBE"},
              NEW mask \in CalMasks, NEW actual \in CalMasks,
              ConfigureCheck(mode, mask, actual, ok, r)
       PROVE  ParkInv'
  <2>1. r = FALSE /\ (~ok => sHal)
    BY <1>5, <1>10 DEF ConfigureCheck
  <2>2. sState \notin {"CLOSED", "RECOVERING", "FAULTED"}
    BY <1>10 DEF ConfigureCheck
  <2>3. CASE ~ok
    BY <1>6, <1>10, <2>1, <2>2, <2>3 DEF ConfigureCheck
  <2>4. CASE ok
    <3>1. /\ Applied("check", mask, actual, 1, FALSE)
          /\ sState' \in {"CHECK", "PROBE"} /\ diagEpoch' = sEpoch'
      BY <1>10, <2>1, <2>4 DEF ConfigureCheck
    <3>2. 1 \in 0..1
      OBVIOUS
    <3> QED
      BY <1>7, <2>2, <3>1, <3>2, Zenon
  <2> QED
    BY <2>3, <2>4
<1>11. ASSUME NEW ok \in BOOLEAN, NEW r \in BOOLEAN, TareCommand(ok, r)
       PROVE  ParkInv'
  <2>1. r = FALSE
    BY <1>5, <1>11 DEF TareCommand
  <2>2. validMask' = {} \/ validMask' = validMask
    BY <1>11 DEF TareCommand, BumpBy
  <2>3. diagEpoch' = 0
    BY <1>11 DEF TareCommand, KeepDiagInEpoch, ParkInv, DiagnosticsInMode
  <2> QED
    BY <1>11, <2>1, <2>2, <2>3 DEF TareCommand, ParkInv, ResetParksReader, DiagnosticsInMode
<1>12. ASSUME BeginSettle \/ MarkOperational \/ ReturnToConfiguring
       PROVE  ParkInv'
  BY <1>12 DEF BeginSettle, MarkOperational, ReturnToConfiguring, MoveState, mailbox,
               ParkInv, ResetParksReader, DiagnosticsInMode
<1>13. ASSUME NEW ok \in BOOLEAN, NEW r \in BOOLEAN, Recover(ok, r), sState # "CLOSED"
       PROVE  ParkInv'
  <2>1. validMask' = {}
    BY <1>13 DEF Recover, BumpBy, ResetEpochs, ParkInv
  <2>2. diagEpoch' = 0
    <3>1. CASE sRecoveryEpochTaken
      BY <1>13, <3>1 DEF Recover, ParkInv, ResetParksReader, DiagnosticsInMode
    <3>2. CASE ~sRecoveryEpochTaken
      <4>1. sEpoch' = sEpoch + 1
        BY <1>13, <3>2 DEF Recover, BumpBy, ResetEpochs
      <4> QED
        BY <1>0, <1>13, <4>1 DEF Recover
    <3> QED
      BY <3>1, <3>2
  <2> QED
    BY <1>13, <2>1, <2>2 DEF Recover, ParkInv, ResetParksReader, DiagnosticsInMode
<1>14. ASSUME NEW ok \in BOOLEAN, NEW r \in BOOLEAN, VerificationReopen(ok, r)
       PROVE  ParkInv'
  <2>1. validMask' = {}
    BY <1>14 DEF VerificationReopen, BumpBy, ResetEpochs
  <2> QED
    BY <1>14, <2>1 DEF VerificationReopen, ParkInv, ResetParksReader, DiagnosticsInMode
<1>15. ASSUME Close
       PROVE  ParkInv'
  BY <1>15 DEF Close, ParkInv, ResetParksReader, DiagnosticsInMode
<1>16. ASSUME UNCHANGED vars
       PROVE  ParkInv'
  BY <1>16 DEF vars, mailbox, ParkInv, ResetParksReader, DiagnosticsInMode
<1> QED
  BY <1>1, <1>2, <1>3, <1>4, <1>8, <1>9, <1>10, <1>11, <1>12, <1>13, <1>14, <1>15,
     <1>16, NextIsStep, SessionAssumption DEF SessionAssumption, Step

(* The parking invariant holds in every reachable state under the same     *)
(* assumption.                                                             *)
LEMMA ParkInvariant == ASSUME ~ResetInConfigure PROVE Spec => []ParkInv
<1>1. Init /\ TypeOK => ParkInv
  BY DEF Init, ParkInv, ResetParksReader, DiagnosticsInMode
<1>2. ParkInv /\ TypeOK' /\ [Next]_vars => ParkInv'
  BY StepKeepsParked
<1> QED
  BY <1>1, <1>2, SessionTypeOK, PTL DEF Spec

(* A pending reset keeps the reader out of every working state.            *)
THEOREM ResetIsParked == ASSUME ~ResetInConfigure PROVE Spec => []ResetParksReader
<1>1. ParkInv => ResetParksReader
  BY DEF ParkInv
<1> QED
  BY <1>1, ParkInvariant, PTL

(* What a consumer may use was streamed by the production set of a chip    *)
(* last asked for the flight policy, whatever mask the chip reads back, or *)
(* belongs to the check it was opened for.                                 *)
THEOREM EligibleSamples == ASSUME ~ResetInConfigure PROVE Spec => []EligibleInMode
<1>1. ParkInv => EligibleInMode
  BY DEF ParkInv, EligibleInMode, DiagnosticsInMode
<1> QED
  BY <1>1, ParkInvariant, PTL
-----------------------------------------------------------------------------
(* What a step may do to epochs and identities                             *)

(* A group has been adopted with a number it was assigned.                 *)
AdoptedIsAssigned == \A g \in Groups : adoptedSeq[g] <= assignedSeq[g]

(* Only a decoded production report assigns or adopts an identity.         *)
LEMMA DecodeAssigns ==
  ASSUME TypeOK, [Next]_vars,
         ~\E g \in Groups, clockOk \in BOOLEAN : ProductionDecode(g, clockOk)
  PROVE  UNCHANGED <<assignedSeq, adoptedSeq, metaEpoch>>
<1>1. CASE UNCHANGED vars
  BY <1>1 DEF vars, mailbox
<1>2. CASE Next
  BY <1>2, NextIsStep
  DEF Step, Open, Close, HandleReset, DiagnosticDecode, mailbox, ConfigureProduction,
      RestoreProduction, ConfigureCalibration, ConfigureTare, ConfigureCheck, AppliedUnread, Applied,
      Fault, TareCommand, BeginSettle, MarkOperational, ReturnToConfiguring, MoveState,
      Recover, VerificationReopen
<1> QED
  BY <1>1, <1>2

(* A decoded report's identity is larger than the one it replaces.         *)
LEMMA DecodeGrows ==
  ASSUME TypeOK, AdoptedIsAssigned, NEW g \in Groups, NEW clockOk \in BOOLEAN,
         ProductionDecode(g, clockOk)
  PROVE  /\ AdoptedIsAssigned'
         /\ \A h \in Groups :
              /\ adoptedSeq'[h] >= adoptedSeq[h]
              /\ metaEpoch'[h] # metaEpoch[h] => adoptedSeq'[h] > adoptedSeq[h]
<1>1. /\ assignedSeq \in [Groups -> Nat] /\ adoptedSeq \in [Groups -> Nat]
      /\ metaEpoch \in [Groups -> Nat]
  BY SessionAssumption DEF SessionAssumption, TypeOK, IdentityTypeOK
<1>2. \A h \in Groups : adoptedSeq[h] <= assignedSeq[h]
  BY DEF AdoptedIsAssigned
<1>3. assignedSeq' = [assignedSeq EXCEPT ![g] = @ + 1]
  BY DEF ProductionDecode
<1>4. CASE clockOk
  <2>1. /\ adoptedSeq' = [adoptedSeq EXCEPT ![g] = assignedSeq[g] + 1]
        /\ metaEpoch' = [metaEpoch EXCEPT ![g] = sEpoch]
    BY <1>4 DEF ProductionDecode
  <2> QED
    BY <1>1, <1>2, <1>3, <2>1 DEF AdoptedIsAssigned
<1>5. CASE ~clockOk
  <2>1. UNCHANGED <<adoptedSeq, metaEpoch>>
    BY <1>5 DEF ProductionDecode
  <2> QED
    BY <1>1, <1>2, <1>3, <2>1 DEF AdoptedIsAssigned
<1> QED
  BY <1>4, <1>5

(* The epoch goes back only in a close.                                    *)
LEMMA EpochGrows ==
  ASSUME TypeOK, [Next]_vars
  PROVE  sEpoch' >= sEpoch \/ sState' = "CLOSED"
<1>1. sEpoch \in Nat
  BY SessionAssumption DEF SessionAssumption, TypeOK, EpochTypeOK
<1>2. ASSUME NEW n \in 0..2, BumpBy(n)
      PROVE  sEpoch' >= sEpoch
  BY <1>1, <1>2 DEF BumpBy
<1>3. ASSUME NEW r \in BOOLEAN
      PROVE  /\ ResetEpochs(r) \in 0..2
             /\ \A n \in 0..1 : ResetEpochs(r) + n \in 0..2 /\ n + ResetEpochs(r) \in 0..2
  BY ResetEpochsType
<1>4. CASE UNCHANGED vars
  BY <1>1, <1>4 DEF vars
<1>5. CASE \E ok \in BOOLEAN : Open(ok)
  BY <1>2, <1>5 DEF Open
<1>6. CASE HandleReset
  BY <1>2, <1>3, <1>6 DEF HandleReset
<1>7. ASSUME NEW r \in BOOLEAN, Fault(r)
      PROVE  sEpoch' >= sEpoch
  BY <1>2, <1>3, <1>7 DEF Fault
<1>8. ASSUME NEW set, NEW mask, NEW readBack, NEW n \in 0..1, NEW r \in BOOLEAN,
             Applied(set, mask, readBack, n, r)
      PROVE  sEpoch' >= sEpoch
  BY <1>2, <1>3, <1>8 DEF Applied
<1>9. ASSUME NEW ok \in BOOLEAN, NEW r \in BOOLEAN, NEW mask \in CalMasks,
             ConfigureProduction(mask, ok, r) \/ RestoreProduction(mask, ok, r)
      PROVE  sEpoch' >= sEpoch
  BY <1>7, <1>8, <1>9 DEF ConfigureProduction, RestoreProduction, AppliedUnread
<1>10. ASSUME NEW ok \in BOOLEAN, NEW r \in BOOLEAN, NEW mask \in CalMasks,
              ConfigureCalibration(mask, ok, r) \/ ConfigureTare(ok, r)
       PROVE  sEpoch' >= sEpoch
  BY <1>7, <1>8, <1>10 DEF ConfigureCalibration, ConfigureTare, AppliedUnread
<1>11. ASSUME NEW ok \in BOOLEAN, NEW r \in BOOLEAN, NEW mode \in {"CHECK", "PROBE"},
              NEW mask \in CalMasks, NEW actual \in CalMasks,
              ConfigureCheck(mode, mask, actual, ok, r)
       PROVE  sEpoch' >= sEpoch
  BY <1>7, <1>8, <1>11 DEF ConfigureCheck
<1>12. ASSUME NEW ok \in BOOLEAN, NEW r \in BOOLEAN,
              TareCommand(ok, r) \/ Recover(ok, r) \/ VerificationReopen(ok, r)
       PROVE  sEpoch' >= sEpoch
  <2>1. CASE TareCommand(ok, r)
    BY <1>2, <1>3, <2>1 DEF TareCommand
  <2>2. CASE Recover(ok, r)
    BY <1>2, <1>3, <2>2 DEF Recover
  <2>3. CASE VerificationReopen(ok, r)
    BY <1>2, <1>3, <2>3 DEF VerificationReopen
  <2> QED
    BY <1>12, <2>1, <2>2, <2>3
<1>13. CASE DiagnosticDecode \/ \E g \in Groups, clockOk \in BOOLEAN : ProductionDecode(g, clockOk)
  BY <1>1, <1>13 DEF DiagnosticDecode, ProductionDecode
<1>14. CASE BeginSettle \/ MarkOperational \/ ReturnToConfiguring
  BY <1>1, <1>14 DEF BeginSettle, MarkOperational, ReturnToConfiguring, MoveState
<1>15. CASE Close
  BY <1>15 DEF Close
<1> QED
  BY <1>4, <1>5, <1>6, <1>9, <1>10, <1>11, <1>12, <1>13, <1>14, <1>15, NextIsStep,
     SessionAssumption DEF SessionAssumption, Step

(* The identities of a group's samples grow, and the epochs do until the   *)
(* session is closed: no two adoptions are ever taken for one.             *)
THEOREM IdentitiesGrow == Spec => IdentityGrows
<1>1. Init => AdoptedIsAssigned
  <2> SUFFICES ASSUME Init, NEW g \in Groups
               PROVE  adoptedSeq[g] <= assignedSeq[g]
    BY Zenon DEF AdoptedIsAssigned
  <2>1. adoptedSeq[g] = 0 /\ assignedSeq[g] = 0
    BY DEF Init
  <2> QED
    BY <2>1
<1>2. TypeOK /\ AdoptedIsAssigned /\ [Next]_vars => AdoptedIsAssigned'
  BY DecodeAssigns, DecodeGrows DEF AdoptedIsAssigned
<1>3. TypeOK /\ AdoptedIsAssigned /\ [Next]_vars =>
        /\ \A g \in Groups :
             /\ adoptedSeq'[g] >= adoptedSeq[g]
             /\ metaEpoch'[g] # metaEpoch[g] => adoptedSeq'[g] > adoptedSeq[g]
        /\ sEpoch' >= sEpoch \/ sState' = "CLOSED"
  <2> SUFFICES ASSUME TypeOK, AdoptedIsAssigned, [Next]_vars
               PROVE  \A g \in Groups :
                        /\ adoptedSeq'[g] >= adoptedSeq[g]
                        /\ metaEpoch'[g] # metaEpoch[g] => adoptedSeq'[g] > adoptedSeq[g]
    BY EpochGrows
  <2>1. CASE \E g \in Groups, clockOk \in BOOLEAN : ProductionDecode(g, clockOk)
    BY <2>1, DecodeGrows
  <2>2. CASE ~\E g \in Groups, clockOk \in BOOLEAN : ProductionDecode(g, clockOk)
    <3>1. adoptedSeq \in [Groups -> Nat]
      BY SessionAssumption DEF SessionAssumption, TypeOK, IdentityTypeOK
    <3> QED
      BY <2>2, <3>1, DecodeAssigns
  <2> QED
    BY <2>1, <2>2
<1> QED
  BY <1>1, <1>2, <1>3, SessionTypeOK, PTL DEF Spec, IdentityGrows

(* Clearing the DCD takes one epoch, when resets stay out of the           *)
(* configuration calls: a reader in CONFIGURING has no reset pending, so   *)
(* the clear's own reset and the reopen after it share theirs.             *)
THEOREM ClearTakesOneEpoch == ASSUME ~ResetInConfigure PROVE Spec => ClearDcdOneEpoch
<1>1. ASSUME ResetParksReader, NEW accepted \in BOOLEAN, NEW ok \in BOOLEAN,
             NEW r \in BOOLEAN, ClearDcd(accepted, ok, r)
      PROVE  sEpoch' = sEpoch + 1
  <2>1. ~sRecoveryEpochTaken
    BY <1>1 DEF ClearDcd, ResetParksReader
  <2>2. CASE accepted
    BY <1>1, <2>1, <2>2 DEF ClearDcd, Recover, BumpBy, ResetEpochs
  <2>3. CASE ~accepted
    BY <1>1, <2>1, <2>3 DEF ClearDcd, HandleReset, BumpBy, ResetEpochs
  <2> QED
    BY <2>2, <2>3
<1>2. ResetParksReader /\ [Next]_vars =>
        \A accepted, ok, r \in BOOLEAN : ClearDcd(accepted, ok, r) => sEpoch' = sEpoch + 1
  BY <1>1
<1> QED
  BY <1>2, ResetIsParked, PTL DEF ClearDcdOneEpoch, Spec
=============================================================================
