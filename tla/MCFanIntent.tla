---------------------------- MODULE MCFanIntent ----------------------------
(* Values for the constants of FanIntent: those of MCFanWorker, and what   *)
(* the clients send.                                                       *)
EXTENDS MCFanWorker, FanIntent

(* One fan by hand and tuned, the other by hand or by curve, one request   *)
(* at a time, no calibration and no empty assignment; then one fan by hand *)
(* only, with calibrations.                                                *)
TwoFanRequests ==
  {Target(f1, 0), Target(f1, Automatic), TuneTo(f1, tuned),
   AssignTo(f2, c1), Target(f2, 2), Define(smooth), Plain("shutdown")}
HandRequests ==
  {Target(f1, 0), Target(f1, 1), TuneTo(f1, tuned), Plain("calibrate"),
   Plain("redetect")}

(* The least that breaks the rule.                                         *)
OrderRequests == {Target(f1, 1), AssignTo(f1, c1)}
=============================================================================
