------------------------------ MODULE MCImuCmd ------------------------------
(* The plans of the run: single stages, plans with a gap before,           *)
(* between and after their stages, the two full ones, and three illegal    *)
(* plans: a stage in the wrong slot, a repeated family, and fields that    *)
(* disagree.                                                               *)
EXTENDS ImuCmd

PlanOf(a, b, c, agree) ==
  [slot |-> [k \in 1..3 |-> IF k = 1 THEN a ELSE IF k = 2 THEN b ELSE c],
   fieldsAgree |-> agree]

MCPlans ==
  {PlanOf("NONE", "NONE", "NONE", TRUE),
   PlanOf("DCD_CLEAR", "NONE", "NONE", TRUE),
   PlanOf("NONE", "TARE_CLEAR", "NONE", TRUE),
   PlanOf("NONE", "TARE_CHECK", "NONE", TRUE),
   PlanOf("NONE", "NONE", "PROBE", TRUE),
   PlanOf("DCD_CLEAR", "TARE_CLEAR", "NONE", TRUE),
   PlanOf("CALIBRATION", "NONE", "CHECK", TRUE),
   PlanOf("NONE", "TARE", "CHECK", TRUE),
   PlanOf("CALIBRATION", "TARE", "PROBE", TRUE),
   PlanOf("TARE", "NONE", "NONE", TRUE),
   PlanOf("CALIBRATION", "DCD_CLEAR", "NONE", TRUE),
   PlanOf("NONE", "TARE", "NONE", FALSE)}
=============================================================================
