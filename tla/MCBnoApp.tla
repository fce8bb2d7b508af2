------------------------------- MODULE MCBnoApp -------------------------------
(* The plans of the run: the two clears, whose confirmations are the same   *)
(* word, and a calibration, a tare and a check, which only q ends.          *)
EXTENDS BnoApp

MCPlans ==
  {PlanOf("DCD_CLEAR", "TARE_CLEAR", "NONE"),
   PlanOf("CALIBRATION", "TARE", "CHECK")}
=============================================================================
