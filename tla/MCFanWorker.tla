---------------------------- MODULE MCFanWorker ----------------------------
(* Values for the constants of FanWorker, for model checking.              *)
EXTENDS FanWorker

CONSTANTS f1, f2, c1, smooth, flat, cool, hot, plain, tuned, raw, measured

MCLevels == 0..2

(* A plain, unmeasured fan is written the target itself.  Tuning adds one  *)
(* to every target, limits its steps and sets a restart command; a         *)
(* measured fan needs the full command for a middling speed and the same   *)
(* to restart.                                                             *)
Raised(t) == IF t < 2 THEN t + 1 ELSE t
MCSteady ==
  [c \in {raw, measured} |-> [s \in {plain, tuned} |-> [t \in MCLevels |->
    LET to == IF s = tuned THEN Raised(t) ELSE t
    IN  IF c = measured /\ to = 1 THEN 2 ELSE to]]]
MCStart ==
  [c \in {raw, measured} |-> [s \in {plain, tuned} |->
    IF c = measured \/ s = tuned THEN 2 ELSE None]]
MCOutput ==
  [s \in {smooth, flat} |-> [r \in {cool, hot} |->
    IF s = flat THEN 1 ELSE IF r = cool THEN 0 ELSE 2]]

MaybeFound == {{}, {f1}}
OneFound == {{f1}}
SomeFound == {{f1}, {f1, f2}}

Target(f, to) == [op |-> "target", fan |-> f, to |-> to]
AssignTo(f, c) == [op |-> "assign", fan |-> f, to |-> c]
TuneTo(f, s) == [op |-> "settings", fan |-> f, to |-> s]
Define(s) == [op |-> "curves", to |-> [c \in {c1} |-> s]]
Plain(op) == [op |-> op]

(* Everything but tuning and calibration, for one fan; then all of it.     *)
ControlRequests ==
  {Target(f1, 1), Target(f1, Automatic), AssignTo(f1, c1), AssignTo(f1, None),
   Define(smooth), Define(None), Plain("redetect"), Plain("shutdown")}
AllRequests ==
  ControlRequests \cup {TuneTo(f1, tuned), Plain("calibrate")}

(* The least that meets one hazard each.                                   *)
MeasureRequests == {Target(f1, 1), Plain("calibrate")}
VanishRequests == {AssignTo(f1, c1), Define(smooth), Define(None)}
=============================================================================
