------------------------------- MODULE FanRamp -------------------------------
(***************************************************************************)
(* How one fan gets from what it runs at to what it is asked for           *)
(* (`request_target`, `tick_ramps`): restart boost, step limits, and the   *)
(* command written at each step.  Time is counted in ramp ticks of 250 ms. *)
(***************************************************************************)
EXTENDS DutyMath

CONSTANTS AutoDuty,         \* under the control of the chip
          BoostTicks,   \* START_BOOST_DURATION: 1 s
          MaxStep       \* ticks one step may make up for: 2

ASSUME RampAssumption ==
  /\ AutoDuty \notin Int /\ AutoDuty # None
  /\ BoostTicks \in Nat /\ MaxStep \in Nat

VARIABLES
  settings,       \* the fan's settings, sanitized
  cal,            \* what its calibration is Fitted to
  requested,      \* encoded target it was last asked for, or None
  ramp,           \* Ramp in flight, or None
  control,        \* hardware command, or AutoDuty
  shown           \* duty and standstill as the last update read them

rampVars == <<settings, cal, requested, ramp, control, shown>>

Ramp  == [current: Percents, target: Percents,
          last: Duties \cup {None}, hold: 0..BoostTicks]
Shown == [duty: Duties \cup {AutoDuty}, still: BOOLEAN]

Limited(s) == s.up # None \/ s.down # None
Target(s, encoded) == EffectivePercent(s, cal, DutyToPercent(encoded))
Steady(s, encoded) == SteadyCommand(s, cal, Target(s, encoded))

(* fan_appears_stopped: by its tachometer, or by the duty it shows.        *)
AppearsStopped(s) ==
  \/ shown.still
  \/ /\ shown.duty # AutoDuty /\ StopCommand(s, cal) # None
     /\ DutyToPercent(shown.duty)
          <= DutyToPercent(StopCommand(s, cal)) + HalfPercent

Boosted(s, encoded) ==
  /\ AppearsStopped(s) /\ Steady(s, encoded) > 0
  /\ StartCommand(s, cal) # None
  /\ StartCommand(s, cal) > Steady(s, encoded)

(* Where a new ramp starts: on the ramp in flight, else at the duty the    *)
(* last update showed, else at its end.                                    *)
StartsAt(s, encoded) ==
  IF ramp # None THEN ramp.current
  ELSE IF shown.duty # AutoDuty THEN SpeedOf(cal, shown.duty)
  ELSE Target(s, encoded)

-----------------------------------------------------------------------------
(* request_target under settings s, by the path it takes.                  *)

HandBack ==
  /\ requested' = None /\ ramp' = None /\ control' = AutoDuty

Boost(s, encoded) ==
  /\ Boosted(s, encoded)
  /\ requested' = encoded
  /\ control' = StartCommand(s, cal)
  /\ ramp' = [current |-> SpeedOf(cal, StartCommand(s, cal)),
              target |-> Target(s, encoded),
              last |-> StartCommand(s, cal), hold |-> BoostTicks]

(* Mutant: a direct write leaves the ramp in flight.                       *)
DirectUnderRamp(s, encoded) ==
  /\ ~Boosted(s, encoded) /\ ~Limited(s)
  /\ requested' = encoded
  /\ control' = Steady(s, encoded) /\ UNCHANGED ramp

Direct(s, encoded) ==
  /\ ~Boosted(s, encoded) /\ ~Limited(s)
  /\ requested' = encoded
  /\ control' = Steady(s, encoded) /\ ramp' = None

Prepare(s, encoded) ==
  /\ ~Boosted(s, encoded) /\ Limited(s)
  /\ requested' = encoded
  /\ ramp' = [current |-> StartsAt(s, encoded), target |-> Target(s, encoded),
              last |-> None, hold |-> 0]
  /\ UNCHANGED control

RequestTarget(s, encoded) ==
  \/ Boost(s, encoded) \/ Direct(s, encoded) \/ Prepare(s, encoded)

Writes(s, encoded) == Boosted(s, encoded) \/ ~Limited(s)

-----------------------------------------------------------------------------
(* tick_ramps after dt ticks.                                              *)

Rate == IF ramp.target > ramp.current THEN settings.up ELSE settings.down

(* Mutant: the time since the last tick is not capped.                     *)
UncappedAdvance(dt) ==
  IF Rate = None \/ (ramp.target - ramp.current <= Rate * dt
                     /\ ramp.current - ramp.target <= Rate * dt)
  THEN ramp.target
  ELSE IF ramp.target > ramp.current THEN ramp.current + Rate * dt
                                     ELSE ramp.current - Rate * dt

(* Mutant: a step ends at the end of the scale, not at the target.         *)
UnboundedAdvance(dt) ==
  LET step == Rate * Clamp(dt, 0, MaxStep)
  IN IF Rate = None THEN ramp.target
     ELSE IF ramp.target > ramp.current
          THEN Clamp(ramp.current + step, ramp.current, Full)
          ELSE Clamp(ramp.current - step, 0, ramp.current)

Advanced(dt) ==
  LET step == Rate * Clamp(dt, 0, MaxStep)
  IN IF Rate = None THEN ramp.target
     ELSE IF ramp.target > ramp.current
          THEN Clamp(ramp.current + step, ramp.current, ramp.target)
          ELSE Clamp(ramp.current - step, ramp.target, ramp.current)

Ticking == ramp # None /\ ramp.hold = 0

Tick(dt) ==
  /\ Ticking
  /\ \E now \in {Advanced(dt)} : \E value \in {SteadyCommand(settings, cal, now)} :
       /\ control' = IF ramp.last # value THEN value ELSE control
       /\ ramp' = IF now = ramp.target THEN None
                  ELSE [ramp EXCEPT !.current = now, !.last = value]
  /\ UNCHANGED <<settings, cal, requested>>

TickWrites(dt) ==
  Ticking /\ ramp.last # SteadyCommand(settings, cal, Advanced(dt))

(* The rest of the boost.                                                  *)
RampElapse(elapsed) ==
  ramp' = IF ramp = None THEN None
          ELSE [ramp EXCEPT !.hold = Clamp(@ - elapsed, 0, BoostTicks)]
=============================================================================
