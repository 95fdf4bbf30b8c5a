------------------------------ MODULE FanModes ------------------------------
(***************************************************************************)
(* What the worker promises about the mode a fan is durably in, the one a  *)
(* restart finds in the stores: automatic, a manual target, or a curve.    *)
(* Only a client's request moves a fan to another mode; a poll, a vanished *)
(* curve, a re-detection, a shutdown or a crash never does, and neither    *)
(* does a calibration move a fan on or off a curve.                        *)
(***************************************************************************)
CONSTANTS Fans, Curves, Levels

VARIABLES
  mode,         \* the durable mode of each fan
  asked,        \* modes clients asked for and the worker has not let go of
  calibrating   \* a calibration was asked for

vars == <<mode, asked, calibrating>>

Manual     == {<<"auto">>} \cup ({"manual"} \X Levels)
CurveModes == {"curve"} \X Curves
Modes      == Manual \cup CurveModes

Init ==
  /\ mode = [f \in Fans |-> <<"auto">>]
  /\ asked = [f \in Fans |-> {}]
  /\ calibrating = FALSE

(* A request for one fan; it may take the place of an earlier one.         *)
Ask ==
  /\ \E f \in Fans : \E m \in Modes, old \in SUBSET asked[f] :
       asked' = [asked EXCEPT ![f] = (@ \ old) \cup {m}]
  /\ UNCHANGED <<mode, calibrating>>

AskCalibration == calibrating' = TRUE /\ UNCHANGED <<mode, asked>>

(* Where a fan may go: to a mode asked of it; off its curve when it was    *)
(* asked to leave it, perhaps by way of an older stored target; and,       *)
(* calibrating, from one target to another.                                *)
MayMove(f, m) ==
  \/ m \in asked[f]
  \/ /\ m \in Manual
     /\ mode[f] \in Manual => calibrating
     /\ mode[f] \in CurveModes => asked[f] \cap Manual # {}

Settle ==
  /\ mode' \in [Fans -> Modes]
  /\ \A f \in Fans : mode'[f] = mode[f] \/ MayMove(f, mode'[f])
  /\ UNCHANGED <<asked, calibrating>>

(* What is left of the requests is applied, or lost.                       *)
Forget ==
  /\ asked' = [f \in Fans |-> {}] /\ calibrating' = FALSE
  /\ UNCHANGED mode

Next == Ask \/ AskCalibration \/ Settle \/ Forget
Spec == Init /\ [][Next]_vars
=============================================================================
