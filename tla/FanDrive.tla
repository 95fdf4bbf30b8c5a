------------------------------ MODULE FanDrive ------------------------------
(***************************************************************************)
(* One fan, its curve and its ramp under the worker's loop: from the       *)
(* temperature read at a poll to the command in the hardware.  `FanWorker` *)
(* has the loop with all its requests, stores and failures and leaves the  *)
(* numbers open; here are the numbers and the time.  One action is one     *)
(* stage of a pass, or one function of the curve's chain.                  *)
(***************************************************************************)
EXTENDS CurveFilter, FanRamp

CONSTANTS
  Sites,      \* by name, what an installation has: curves, raw settings,
              \* calibrations, targets, readings, and how its passes may go
  Waits,      \* ticks a wait may last
  PollTicks   \* POLL_INTERVAL: 500 ms

(* Curves and settings as a client may send them, whatever their numbers;  *)
(* calibrations as the service may have measured or loaded them.           *)
RawCurve(d) ==
  /\ d.kind \in RawKinds /\ d.hysteresis \in RawStandard
  /\ d.functions \in Seq({Identity} \cup RawStandard \cup Ema)
RawCal == [max: Int, stop: Duties \cup {None}, start: Duties \cup {None},
           points: Seq(Duties \X Int)]

ASSUME SitesAssumption ==
  \A s \in DOMAIN Sites :
    /\ Sites[s].readings \subseteq Temperatures
    /\ \A d \in Sites[s].defs : RawCurve(d)
    /\ Sites[s].tunings \subseteq RawSettings
    /\ Sites[s].cals \subseteq RawCal \cup {None}
    /\ Sites[s].targets \cup Sites[s].ladder \subseteq Duties
    /\ Sites[s].stalls \subseteq BOOLEAN

ASSUME PassAssumption == Waits \subseteq Nat \ {0} /\ PollTicks \in Nat \ {0}

VARIABLES
  site,      \* the installation (never changes)
  stage,     \* part of the pass the worker is in
  dt,        \* ticks since the last pass
  idle,      \* ticks since the last poll, as far as they matter
  asked,     \* the pass has a request
  dirty,     \* the pass must apply the curve (curves_dirty)
  wrote,     \* the pass has written to the hardware
  assigned,  \* the curve drives the fan
  cached,    \* command the curve last wrote (curve_written), or None
  reading    \* the source's value in the snapshot, or None

passVars == <<site, stage, dt, idle, asked, dirty, wrote>>
curveVars == <<assigned, cached, reading>>
vars == <<filterVars, rampVars, passVars, curveVars>>

Here == Sites[site]
Readings == Here.readings \cup {None}
Due == idle = PollTicks

TypeOK ==
  /\ site \in DOMAIN Sites
  /\ stage \in {"wait", "restore", "conclude", "tick", "curve",
                "filter", "update"}
  /\ dt \in Nat /\ idle \in 0..PollTicks
  /\ asked \in BOOLEAN /\ dirty \in BOOLEAN
  /\ wrote \in BOOLEAN /\ assigned \in BOOLEAN
  /\ cached \in Duties \cup {None}
  /\ reading \in Temperatures \cup {None}
  /\ \A i \in DOMAIN def.chain :
       /\ def.chain[i] \in {Identity} \cup Standard \cup Ema
       /\ i \in DOMAIN runtime /\ i \in DOMAIN calm
  /\ \A i \in DOMAIN runtime : runtime[i] \in Held \cup Smooth \cup {None}
  /\ \A i \in DOMAIN calm : calm[i] \in 0..MaxDelay
  /\ \/ flow = Idle /\ stage # "filter"
     \/ /\ flow.at \in Temperatures /\ flow.target \in Percents
        /\ flow.next \in 1..Len(def.chain) + 1 /\ stage = "filter"
  /\ requested \in Duties \cup {None}
  /\ ramp \in Ramp \cup {None}
  /\ control \in Duties \cup {AutoDuty}
  /\ shown \in Shown

Init ==
  /\ site \in DOMAIN Sites
  /\ \E d \in Here.defs :
       /\ def = Normalized(d)
       /\ runtime = Blank(Normalized(d)) /\ calm = Zeros(Normalized(d))
  /\ flow = Idle
  /\ \E s \in Here.tunings : settings = Sanitized(s)
  /\ \E c \in Here.cals : cal = Fitted(c)
  /\ requested = None /\ ramp = None /\ control = AutoDuty
  /\ shown = [duty |-> AutoDuty, still |-> FALSE]
  /\ stage = "wait" /\ dt = 0 /\ idle = 0
  /\ asked = FALSE /\ dirty = FALSE /\ wrote = FALSE
  /\ assigned = FALSE /\ cached = None
  /\ reading \in Readings

-----------------------------------------------------------------------------
(* The worker waits for requests until the next poll, or the next tick of  *)
(* a ramp in flight.                                                       *)

TimedOut == dt > 0 /\ (Due \/ ramp # None)

Elapse(elapsed) ==
  /\ stage = "wait" /\ ~TimedOut
  /\ dt' = dt + elapsed
  /\ idle' = Clamp(idle + elapsed, 0, PollTicks)
  /\ FilterElapse(elapsed) /\ RampElapse(elapsed)
  /\ UNCHANGED <<site, stage, asked, dirty, wrote, def, flow, settings, cal,
                 requested, control, shown, curveVars>>

Quiet ==
  /\ stage = "wait" /\ TimedOut
  /\ stage' = "tick"
  /\ UNCHANGED <<site, dt, idle, asked, dirty, wrote, filterVars, rampVars,
                 curveVars>>

(* The request of a pass (`FanWorker` has batches), which has then written *)
(* or made the curve due, or not.  A pass may follow at once.              *)
Receive(writes, makesDue) ==
  /\ stage = "wait" /\ (dt > 0 \/ Here.fast)
  /\ stage' = "tick" /\ asked' = TRUE
  /\ wrote' = writes /\ dirty' = makesDue
  /\ UNCHANGED <<site, dt, idle, flow, cal, shown, reading>>

(* A manual or automatic request takes the fan off its curve.              *)
OffCurve ==
  /\ assigned' = FALSE
  /\ IF assigned THEN Forget /\ cached' = None
                 ELSE UNCHANGED <<def, runtime, calm, cached>>

ByHand(encoded) ==
  /\ Receive(Writes(settings, encoded), FALSE)
  /\ OffCurve
  /\ RequestTarget(settings, encoded)
  /\ UNCHANGED settings

Automatic ==
  /\ Receive(TRUE, FALSE)
  /\ OffCurve
  /\ HandBack
  /\ UNCHANGED settings

Assign ==
  /\ Receive(FALSE, TRUE)
  /\ assigned' = TRUE /\ cached' = None
  /\ Forget
  /\ UNCHANGED <<settings, requested, ramp, control>>

Unassign ==
  /\ Receive(assigned, TRUE)
  /\ assigned' = FALSE /\ cached' = None
  /\ Forget
  /\ IF assigned THEN HandBack ELSE UNCHANGED <<requested, ramp, control>>
  /\ UNCHANGED settings

(* New settings retarget a driven fan right away.                          *)
Tune(raw) ==
  /\ settings' = Sanitized(raw)
  /\ Receive(requested # None /\ Writes(settings', requested), FALSE)
  /\ IF requested = None THEN UNCHANGED <<requested, ramp, control>>
     ELSE RequestTarget(settings', requested)
  /\ UNCHANGED <<def, runtime, calm, assigned, cached>>

Edit(d) ==
  /\ Receive(FALSE, TRUE)
  /\ Define(Normalized(d)) /\ cached' = None
  /\ UNCHANGED <<settings, requested, ramp, control, assigned>>

-----------------------------------------------------------------------------
(* A calibration: the ladder leaves the fan at some duty and may bring new *)
(* definitions; the fan is restored as it was asked for or shown before,   *)
(* under the calibration about to be replaced.                             *)

Calibrate(d, duty) ==
  /\ stage = "wait" /\ dt > 0
  /\ stage' = "restore" /\ asked' = TRUE
  /\ ramp' = None /\ control' = duty
  /\ IF d = None
     THEN FilterElapse(MaxDelay) /\ UNCHANGED def
     ELSE DefineKeeping(Normalized(d))
  /\ UNCHANGED <<site, dt, idle, dirty, wrote, flow, settings, cal, requested,
                 shown, curveVars>>

Restore ==
  /\ stage = "restore" /\ stage' = "conclude"
  /\ IF requested = None /\ shown.duty = AutoDuty THEN HandBack
     ELSE RequestTarget(settings,
                        IF requested # None THEN requested ELSE shown.duty)
  /\ UNCHANGED <<site, dt, idle, asked, dirty, wrote, filterVars, settings,
                 cal, shown, curveVars>>

Refreshed ==
  /\ \E still \in Here.stalls : shown' = [duty |-> control, still |-> still]
  /\ reading' \in Readings

Conclude(measured) ==
  /\ stage = "conclude" /\ stage' = "tick"
  /\ cal' = Fitted(measured)
  /\ idle' = 0
  /\ Refreshed
  /\ UNCHANGED <<site, dt, asked, dirty, wrote, filterVars, settings,
                 requested, ramp, control, assigned, cached>>

-----------------------------------------------------------------------------
(* Ramps, then the curve when a poll is due or its definition is new, then *)
(* the update.                                                             *)

AfterTick == stage' = IF Due \/ dirty THEN "curve" ELSE "update"

NoTick ==
  /\ stage = "tick" /\ ~Ticking
  /\ AfterTick
  /\ UNCHANGED <<site, dt, idle, asked, dirty, wrote, filterVars, rampVars,
                 curveVars>>

TickRamp ==
  /\ stage = "tick"
  /\ Tick(dt)
  /\ AfterTick
  /\ wrote' = (wrote \/ TickWrites(dt))
  /\ UNCHANGED <<site, dt, idle, asked, dirty, filterVars, shown, curveVars>>

(* The target of the curve, where the source and the curve yield one.      *)
Yield == IF ~assigned \/ reading = None THEN None
         ELSE Evaluate(def.kind, reading)

(* Without a target the fan keeps its command.                             *)
NoCurve ==
  /\ stage = "curve" /\ Yield = None
  /\ stage' = "update"
  /\ UNCHANGED <<site, dt, idle, asked, dirty, wrote, filterVars, rampVars,
                 curveVars>>

ReadCurve ==
  /\ stage = "curve"
  /\ \E target \in {Yield} \ {None} : Begin(reading, target)
  /\ stage' = "filter"
  /\ UNCHANGED <<site, dt, idle, asked, dirty, wrote, rampVars, curveVars>>

Filter ==
  /\ stage = "filter"
  /\ FilterStep
  /\ UNCHANGED <<passVars, rampVars, curveVars>>

(* The end of the chain: the curve asks for its output unless that ends at *)
(* the command it wrote last.                                              *)
Drive ==
  /\ stage = "filter" /\ ~InChain
  /\ LET encoded == PercentToDuty(flow.target)
         command == Steady(settings, encoded)
     IN /\ cached' = command
        /\ IF cached # command
           THEN /\ RequestTarget(settings, encoded)
                /\ wrote' = (wrote \/ Writes(settings, encoded))
           ELSE requested' = encoded /\ UNCHANGED <<ramp, control, wrote>>
  /\ flow' = Idle
  /\ stage' = "update"
  /\ UNCHANGED <<site, dt, idle, asked, dirty, def, runtime, calm, settings,
                 cal, shown, assigned, reading>>

(* The hardware is read back at a poll and after a write, unless the last  *)
(* time is less than 100 ms ago.                                           *)
Update ==
  /\ stage = "update" /\ stage' = "wait"
  /\ idle' = IF Due THEN 0 ELSE idle
  /\ \/ (Due \/ wrote) /\ Refreshed
     \/ ~Due /\ (wrote => dt = 0) /\ UNCHANGED <<shown, reading>>
  /\ dt' = 0 /\ asked' = FALSE /\ dirty' = FALSE /\ wrote' = FALSE
  /\ UNCHANGED <<site, filterVars, settings, cal, requested, ramp, control,
                 assigned, cached>>

Request ==
  \/ \E encoded \in Here.targets : ByHand(encoded)
  \/ Automatic \/ Assign \/ Unassign
  \/ \E raw \in Here.tunings : Tune(raw)
  \/ \E d \in Here.defs : Edit(d)
  \/ \E d \in Here.defs \cup {None}, duty \in Here.ladder : Calibrate(d, duty)

Work ==
  \/ \E elapsed \in Waits : Elapse(elapsed)
  \/ Quiet \/ Restore
  \/ \E measured \in Here.cals : Conclude(measured)
  \/ NoTick \/ TickRamp
  \/ NoCurve \/ ReadCurve \/ Filter \/ Drive \/ Update

Next == Request \/ Work

Spec == Init /\ [][Next]_vars
(* The worker goes on.  Some step of its own is enabled in every state, so *)
(* this is WF_vars(Work); put so, TLC need not evaluate ENABLED Work.      *)
FairSpec == Spec /\ []<><<Work>>_vars

-----------------------------------------------------------------------------
(* Properties.                                                             *)

Standards == {i \in DOMAIN def.chain : def.chain[i].fn = "standard"}

(* Heat is answered at once: whatever the functions remember, a full speed *)
(* the curve asks for passes every one of them unchanged                   *)
(* (`apply_curve_hysteresis`, `target >= 100.0`), and a chain that holds   *)
(* only falling targets never asks for less than the curve does, but for   *)
(* half a percent per function.                                            *)
HeatFollowed ==
  stage = "filter" =>
    LET wanted == Evaluate(def.kind, flow.at)
    IN /\ wanted = Full => flow.target = Full
       /\ (\A i \in Standards : def.chain[i].downward)
            => flow.target + HalfPercent * (flow.next - 1) >= wanted

Awaited(f, age, old, new) ==
  (/\ f.degrees # 0 \/ f.delay # 0
   /\ old # None /\ old.is = "held" /\ new # None
   /\ \/ new.target < old.target - HalfPercent
      \/ /\ new.target > old.target + HalfPercent /\ new.target < Full
         /\ ~f.downward)
  => /\ age >= f.delay
     /\ \/ new.input <= old.input - f.degrees
        \/ new.target > old.target /\ new.input >= old.input + f.degrees

(* Unless hysteresis is off, a held target falls, or rises where rises are *)
(* held too, only after the inputs have been beyond the threshold for the  *)
(* response time: the wait starts anew when one is not (`CurvePending`).   *)
DelayServed ==
  [][\A i \in Standards :
       (def' = def /\ i \in DOMAIN runtime')
         => Awaited(def.chain[i], calm[i], runtime[i], runtime'[i])]_vars

Moved == SpeedOf(cal, control') - SpeedOf(cal, control)
Slack == 2 * DutyToPercent(1)
WithinRate ==
  /\ settings.up # None => Moved <= settings.up * MaxStep + Slack
  /\ settings.down # None => -Moved <= settings.down * MaxStep + Slack

(* A ramp that has the fan where it thinks moves it only towards the       *)
(* command its target ends at, never back or past it, and a running fan by *)
(* no more than its rate allows in the capped time of a tick: inverting a  *)
(* calibration is monotone, dips and plateaus included (`tick_ramps`).     *)
OnRamp ==
  ramp.last # None \/ control = SteadyCommand(settings, cal, ramp.current)
RampKept ==
  [][(TickRamp /\ control # AutoDuty /\ control' # control /\ OnRamp)
       => LET end == SteadyCommand(settings, cal, ramp.target)
          IN /\ \/ control < control' /\ control' <= end
                \/ end <= control' /\ control' < control
             /\ (control # 0 /\ control' # 0) => WithinRate]_vars

(* Wherever a ramp takes a fan that is at its command, it does so towards  *)
(* the command its target ends at and never past it, for every calibration *)
(* that may be measured, with dips, plateaus and repeated duties: the      *)
(* least segment that reaches a speed rises with it.                       *)
RampTowards ==
  [][(TickRamp /\ control = SteadyCommand(settings, cal, ramp.current))
       => LET end == SteadyCommand(settings, cal, ramp.target)
          IN \/ control <= control' /\ control' <= end
             \/ end <= control' /\ control' <= control]_vars

(* The command a ramp last wrote, for which it would skip a write, is the  *)
(* one the fan stands at, whatever boosts, requests, tunings and           *)
(* calibrations came between (`last_written`).                             *)
RampWritten == ramp # None /\ ramp.last # None => control = ramp.last

(* The same rate for every step of a running fan: a ramp starts where the  *)
(* fan sits (`request_target`, 'Ramp from wherever the fan sits now').     *)
StepsKept ==
  [][(TickRamp /\ control \in Duties \ {0} /\ control' # 0) => WithinRate]_vars

(* Once requests end, the fan comes to stand at the command its last       *)
(* request maps to, with no ramp in flight.                                *)
AtRest == requested # None => control = Steady(settings, requested)
RequestsEnd == <>[]~asked
Settles == (RequestsEnd /\ <>[][FALSE]_requested) => <>[]AtRest

(* A target is held against a lasting reading only for cause: the curve    *)
(* asks for the same within half a percent, or the input has not moved by  *)
(* the threshold (a fall: has not fallen by it).                           *)
ForCause ==
  (assigned /\ reading # None /\ Len(def.chain) = 1 /\ Standards = {1}
     /\ runtime[1] # None)
  => LET held == runtime[1]
         wanted == Evaluate(def.kind, reading)
         degrees == def.chain[1].degrees
     IN \/ /\ wanted <= held.target + HalfPercent
           /\ wanted >= held.target - HalfPercent
        \/ wanted < held.target /\ reading > held.input - degrees
        \/ /\ wanted > held.target
           /\ reading < held.input + degrees /\ reading > held.input - degrees
ReadingLasts == RequestsEnd /\ <>[][FALSE]_reading
ReadingFollowed == ReadingLasts => <>[]ForCause

(* From sensor to hardware: where a lasting reading asks for full speed,   *)
(* through any chain, smoothing included, the fan ends at the full         *)
(* command, unless its settings say otherwise.                             *)
HotMeansFull ==
  ReadingLasts =>
    <>[]((/\ assigned /\ reading # None
          /\ Evaluate(def.kind, reading) = Full
          /\ settings.offset >= 0 /\ StopCommand(settings, cal) # 255)
         => control = 255)
=============================================================================
