--------------------------- MODULE PressureDriver ---------------------------
(***************************************************************************)
(* What the MS5837 driver promises the loop that owns it: a pair at a time *)
(* that ends in a sample or a recovery, a recovery that ends in an idle or *)
(* a stopped driver, and no latest sample from before a failure.           *)
(* Ms5837Driver implements it; Ms5App is built on it.                      *)
(***************************************************************************)
EXTENDS Naturals

VARIABLES
  drv,        \* NEW, IDLE, PAIR, RECOVERY, STOPPED or SHUT
  ready,      \* a latest sample is offered
  sequence    \* measurement_sequence

driver == <<drv, ready, sequence>>

DriverStates == {"NEW", "IDLE", "PAIR", "RECOVERY", "STOPPED", "SHUT"}

InitDriver ==
  /\ drv = "NEW"
  /\ ready = FALSE
  /\ sequence = 0

Enters(next) == drv' = next /\ UNCHANGED <<ready, sequence>>

Opens == drv = "NEW" /\ Enters("IDLE")
BeginsPair == drv = "IDLE" /\ Enters("PAIR")
Recovers == drv = "RECOVERY" /\ Enters("IDLE")
Exhausts == drv = "RECOVERY" /\ Enters("STOPPED")
Shuts == drv \notin {"NEW", "SHUT"} /\ Enters("SHUT")

(* A trigger or a transaction of the pair fails.                           *)
Fails ==
  /\ drv \in {"IDLE", "PAIR"}
  /\ drv' = "RECOVERY"
  /\ ready' = FALSE
  /\ UNCHANGED sequence

Completes ==
  /\ drv = "PAIR"
  /\ drv' = "IDLE"
  /\ ready' = TRUE
  /\ sequence' = sequence + 1

NextDriver ==
  Opens \/ BeginsPair \/ Fails \/ Completes \/ Recovers \/ Exhausts \/ Shuts

SpecDriver == InitDriver /\ [][NextDriver]_driver
=============================================================================
