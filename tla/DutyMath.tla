------------------------------ MODULE DutyMath ------------------------------
(***************************************************************************)
(* From a requested target to a hardware command and back: percentages,    *)
(* calibrations and fan settings.  The unit of a percentage is 1/510 %, in *)
(* which both a duty of the u8 scale and half a percent are whole; f32     *)
(* results are rounded to it.                                              *)
(***************************************************************************)
EXTENDS Integers, Sequences, FiniteSets, SequencesExt

CONSTANT None      \* no value

ASSUME NoneAssumption == None \notin Int

Full == 51000            \* 100 %
HalfPercent == 255
Percents == 0..Full
Duties == 0..255
FlatRpm == 30            \* FLAT_RPM_DELTA

Clamp(x, lo, hi) == IF x < lo THEN lo ELSE IF x > hi THEN hi ELSE x
Larger(x, y) == IF x < y THEN y ELSE x
Rounded(n, d) == (2 * n + d) \div (2 * d)    \* n / d to the nearest, d > 0

DutyToPercent(d) == 200 * d
PercentToDuty(p) == Rounded(Clamp(p, 0, Full), 200)

(* The height at x of the line through p and q.                            *)
Between(p, q, x) ==
  Rounded(p[2] * (q[1] - p[1]) + (q[2] - p[2]) * (x - p[1]), q[1] - p[1])

(* Piecewise linear through the points, constant outside them; where they  *)
(* double back, the first segment that contains x.                         *)
Height(points, x) ==
  IF x <= points[1][1] THEN points[1][2]
  ELSE IF x >= Last(points)[1] THEN Last(points)[2]
  ELSE LET Spans(i) == points[i][1] <= x /\ x <= points[i + 1][1]
           segments == {i \in 1..Len(points) - 1 : Spans(i)}
           first == CHOOSE i \in segments : \A j \in segments : i <= j
       IN Between(points[first], points[first + 1], x)

-----------------------------------------------------------------------------
(* A calibration is the speed at full duty, <<duty, rpm>> samples and the  *)
(* measured stop and start duties; an uncalibrated fan has None.           *)

(* In the order of their first components; equal ones stay as they were.   *)
Sorted(points) ==
  LET Before(i, j) == \/ points[i][1] < points[j][1]
                      \/ points[i][1] = points[j][1] /\ i <= j
      Rank(j) == Cardinality({i \in DOMAIN points : Before(i, j)})
  IN [k \in DOMAIN points |-> points[CHOOSE j \in DOMAIN points : Rank(j) = k]]

(* A sample replaces the one before it unless it is faster by more than    *)
(* the flat margin: kept are the samples the next one does not replace.    *)
UsablePoints(cal) ==
  LET points == Sorted(cal.points)
      kept == {i \in DOMAIN points :
                 i < Len(points) => points[i + 1][2] > points[i][2] + FlatRpm}
      Upto(j) == Cardinality({i \in kept : i <= j})
  IN [k \in 1..Cardinality(kept) |-> points[CHOOSE j \in kept : Upto(j) = k]]

(* What the code reads off a calibration, if there is one: its usable      *)
(* points as <<duty, percent of the full speed>>, its stop and start duty. *)
Fitted(cal) ==
  IF cal = None THEN [speeds |-> <<>>, stop |-> None, start |-> None]
  ELSE LET usable == UsablePoints(cal)
           Speed(rpm) == Rounded(rpm * Full, cal.max)
       IN [speeds |-> IF cal.max <= 0 THEN <<>>
                      ELSE [i \in DOMAIN usable |->
                              <<usable[i][1], Speed(usable[i][2])>>],
           stop |-> cal.stop, start |-> cal.start]

Invertible(fit) == Len(fit.speeds) >= 2
Flipped(points) == [i \in DOMAIN points |-> <<points[i][2], points[i][1]>>]

CommandForSpeed(fit, percent) ==
  Height(Flipped(fit.speeds), Clamp(percent, 0, Full))
SpeedForCommand(fit, duty) == Clamp(Height(fit.speeds, duty), 0, Full)
MinimumSpeed(fit) ==
  IF fit.speeds = <<>> THEN 0 ELSE Clamp(fit.speeds[1][2], 0, Full)

-----------------------------------------------------------------------------
(* Settings: rates per ramp tick of 250 ms or None, start and stop         *)
(* overrides or None, offset, minimum, as a client sends them whatever the *)
(* numbers.  A tuning adds the calibration.                                *)

RawSettings ==
  [up: Int \cup {None}, down: Int \cup {None}, start: Int \cup {None},
   stop: Int \cup {None}, offset: Int, minimum: Int]

Sanitized(s) ==
  LET Percent(v) == IF v = None THEN None ELSE Clamp(v, 0, Full)
      Rate(v) == IF v = None \/ v <= 0 THEN None ELSE Clamp(v, 0, Full \div 4)
  IN [up |-> Rate(s.up), down |-> Rate(s.down),
      start |-> Percent(s.start), stop |-> Percent(s.stop),
      offset |-> Clamp(s.offset, -Full, Full),
      minimum |-> Clamp(s.minimum, 0, Full)]

Override(percent, measured) ==
  IF percent # None THEN PercentToDuty(percent) ELSE measured
StopCommand(s, fit) == Override(s.stop, fit.stop)
StartCommand(s, fit) == Override(s.start, fit.start)

SteadyCommand(s, fit, target) ==
  LET command == IF Invertible(fit) THEN CommandForSpeed(fit, target)
                                    ELSE PercentToDuty(target)
      stop == StopCommand(s, fit)
  IN IF stop # None /\ command <= stop THEN 0 ELSE command

(* Mutant: the offset is added after the clamp.                            *)
UnclampedEffective(s, fit, requested) ==
  Clamp(requested, Larger(s.minimum, MinimumSpeed(fit)), Full) + s.offset

EffectivePercent(s, fit, requested) ==
  Clamp(requested + s.offset, Larger(s.minimum, MinimumSpeed(fit)), Full)

(* The speed a command stands for, by calibration or at face value.        *)
SpeedOf(fit, command) ==
  IF Invertible(fit) THEN SpeedForCommand(fit, command)
                     ELSE DutyToPercent(command)
=============================================================================
