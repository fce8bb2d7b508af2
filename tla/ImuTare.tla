------------------------------- MODULE ImuTare -------------------------------
(***************************************************************************)
(* The tare, tare-clear and tare-check machine, bno/app/imu_tare.c, and    *)
(* its adapter, imu_tare_adapter.c.  The two sub-results of a clear always *)
(* agree (imu_session_clear_tare sets both from one call), so the partial  *)
(* clear of apply_clear_outcome does not occur.                            *)
(***************************************************************************)
EXTENDS ImuMachine

VARIABLES
  s_expectedEpoch,
  s_haveEvidence,
  sub               \* s_result.sub: tareNow, persist and clear

tare == <<s_expectedEpoch, s_haveEvidence, sub>>
Sub(ok) == IF ok THEN "SUCCEEDED" ELSE "FAILED"

InitTareVars ==
  /\ s_expectedEpoch = 0
  /\ s_haveEvidence = FALSE
  /\ sub = [tareNow |-> "NOT_ATTEMPTED", persist |-> "NOT_ATTEMPTED",
            clear |-> "NOT_ATTEMPTED"]

imu_tare_init(id) ==
  /\ InitBase(id)
  /\ left = 0
  /\ \/ id = "TARE_CHECK" /\ st = "WAIT_CONFIG" /\ pending = "CONFIGURE"
     \/ id # "TARE_CHECK" /\ st = "WAIT_CONFIRM" /\ pending = "NONE"

ClearOnlyWarns == identity = "TARE_CLEAR"
q_sets_warning == identity \in {"TARE", "TARE_CLEAR"}

-----------------------------------------------------------------------------
(* Operator events                                                         *)

tare_post_confirm ==
  /\ st = "WAIT_CONFIRM"
  /\ Move("WAIT_CONFIG", 0, "CONFIGURE")
  /\ UNCHANGED <<evidence, tare>>

CancelsAtOnceInSettle == {"WAIT_CONFIRM", "WAIT_CONFIG", "SETTLE"}
(* Before its first request is executed the stage has touched nothing.     *)
Untouched == {"WAIT_CONFIRM", "WAIT_CONFIG"}

QInRestore == st \notin Untouched \cup {"DONE"}
QRestores == st \notin Untouched \cup {"WAIT_RESTORE", "DONE"}

tare_post_q ==
  /\ \/ /\ st \in Untouched
        /\ finish(Result("CANCELLED", q_sets_warning), FALSE)
     \/ /\ QRestores
        /\ begin_restore(Result("CANCELLED", q_sets_warning))
  /\ UNCHANGED <<evidence, tare>>

-----------------------------------------------------------------------------
(* post_session                                                            *)

TareConfigAnswered(ok) ==
  /\ st = "WAIT_CONFIG"
  /\ \/ /\ ok
        /\ s_expectedEpoch' = epoch'
        /\ \/ identity = "TARE" /\ Move("SETTLE", Window, "NONE")
           \/ identity = "TARE_CLEAR" /\ Move("WAIT_CLEAR", 0, "CLEAR_TARE")
           \/ identity = "TARE_CHECK" /\ Move("CHECK", 0, "NONE")
     \/ /\ ~ok
        /\ begin_restore(Result("FAILED", TRUE))
        /\ UNCHANGED s_expectedEpoch
  /\ UNCHANGED <<s_haveEvidence, sub>>

TareNowAnswered(ok) ==
  /\ st = "WAIT_TARE_NOW"
  /\ sub' = [sub EXCEPT !.tareNow = Sub(ok)]
  /\ \/ /\ ok
        /\ s_expectedEpoch' = epoch'
        /\ Move("WAIT_PERSIST", 0, "PERSIST")
     \/ /\ ~ok
        /\ begin_restore(Result("FAILED", TRUE))
        /\ UNCHANGED s_expectedEpoch
  /\ UNCHANGED s_haveEvidence

PersistForgiven(ok) ==
  /\ st = "WAIT_PERSIST"
  /\ sub' = [sub EXCEPT !.persist = Sub(ok)]
  /\ s_haveEvidence' = FALSE
  /\ Move("VERIFY", Window, "NONE")
  /\ UNCHANGED s_expectedEpoch

PersistAnswered(ok) ==
  /\ st = "WAIT_PERSIST"
  /\ sub' = [sub EXCEPT !.persist = Sub(ok)]
  /\ \/ /\ ok
        /\ s_haveEvidence' = FALSE
        /\ Move("VERIFY", Window, "NONE")
     \/ /\ ~ok
        /\ begin_restore(Result("FAILED", TRUE))
        /\ UNCHANGED s_haveEvidence
  /\ UNCHANGED s_expectedEpoch

TareClearAnswered(ok) ==
  /\ st = "WAIT_CLEAR"
  /\ sub' = [sub EXCEPT !.clear = Sub(ok)]
  /\ begin_restore(IF ok THEN Result("SUCCEEDED", FALSE) ELSE Result("FAILED", TRUE))
  /\ UNCHANGED <<s_expectedEpoch, s_haveEvidence>>

TareRestoreAnswered(ok) ==
  /\ st = "WAIT_RESTORE"
  /\ \/ ok /\ finish(term, TRUE)
     \/ ~ok /\ finish(Result("RECOVERY_FAILED", TRUE), FALSE)
  /\ UNCHANGED tare

EvidenceInAnyState == s_haveEvidence \/ mail.valid
EvidenceWith ==
  s_haveEvidence \/ (st = "VERIFY" /\ mail.valid /\ mail.epoch = s_expectedEpoch)

(* imu_tare_adapter_pump.  The facts are posted first; evidence counts     *)
(* only in VERIFY, where no request is pending.                            *)
imu_tare_adapter_pump ==
  /\ facts' = mail
  /\ UNCHANGED verified
  /\ \/ /\ pending = "NONE"
        /\ s_haveEvidence' = EvidenceWith
        /\ UNCHANGED <<control, s_expectedEpoch, sub, session>>
     \/ \E ok \in BOOLEAN :
          /\ pending # "NONE"
          /\ Call(pending, ok)
          /\ \/ TareConfigAnswered(ok)
             \/ TareNowAnswered(ok)
             \/ PersistAnswered(ok)
             \/ TareClearAnswered(ok)
             \/ TareRestoreAnswered(ok)

-----------------------------------------------------------------------------
(* imu_tare_service                                                        *)

imu_tare_service ==
  /\ UNCHANGED <<facts, tare>>
  /\ \/ /\ st = "SETTLE"
        /\ Due
        /\ Move("WAIT_TARE_NOW", 0, "TARE_NOW")
        /\ UNCHANGED verified
     \/ /\ st = "VERIFY"
        /\ Due
        /\ verified' = s_haveEvidence
        /\ begin_restore(IF s_haveEvidence THEN Result("SUCCEEDED", FALSE)
                                           ELSE Result("FAILED", TRUE))
     \/ /\ st \in {"SETTLE", "VERIFY"} => ~Due
        /\ UNCHANGED <<control, verified>>
=============================================================================
