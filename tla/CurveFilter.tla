----------------------------- MODULE CurveFilter -----------------------------
(***************************************************************************)
(* The processing functions between a curve and the fan it drives          *)
(* (`apply_curve_functions`): hysteresis with a response time, and         *)
(* smoothing of the input.  A poll sends an input down the chain, one      *)
(* function per step; a step is one path through the code of a function.   *)
(* Time is counted in ramp ticks of 250 ms.                                *)
(***************************************************************************)
EXTENDS CurveMath

CONSTANTS MaxDegrees,   \* 20 degrees
          MaxDelay      \* 60 s

ASSUME FilterAssumption == MaxDegrees \in Nat /\ MaxDelay \in Nat

VARIABLES
  def,      \* the curve: its kind and its chain of functions
  runtime,  \* what each function remembers (curve_runtime), or None
  flow,     \* the poll's input and target, and the function they are at
  calm      \* history: how long every input of a function has been beyond
            \* its threshold since it last accepted one

filterVars == <<def, runtime, flow, calm>>

Identity == [fn |-> "identity"]
Standard == [fn: {"standard"}, degrees: 0..MaxDegrees, delay: 0..MaxDelay,
             downward: BOOLEAN]
Ema      == [fn: {"ema"}, whole: BOOLEAN]     \* whole: alpha is 1

Held   == [is: {"held"}, input: Temperatures, target: Percents,
           pending: (0..MaxDelay) \cup {None}]    \* for how long, or None
Smooth == [is: {"smooth"}, value: Temperatures]
Idle   == [at |-> None, target |-> None, next |-> 0]

(* normalize_functions: hysteresis alone where a config names no function, *)
(* and sane parameters.                                                    *)
Normalized(d) ==
  LET Sane(f) == IF f.fn # "standard" THEN f
                 ELSE [f EXCEPT !.degrees = Clamp(@, 0, MaxDegrees),
                                !.delay = Clamp(@, 0, MaxDelay)]
      functions == IF d.functions = <<>> THEN <<d.hysteresis>> ELSE d.functions
  IN [kind |-> d.kind,
      chain |-> [i \in DOMAIN functions |-> Sane(functions[i])]]

Blank(d) == [i \in DOMAIN d.chain |-> None]
Zeros(d) == [i \in DOMAIN d.chain |-> 0]
Older(age, elapsed) == Clamp(age + elapsed, 0, MaxDelay)

-----------------------------------------------------------------------------
(* The function a poll is at, and what it remembers.                       *)

InChain == flow.next \in DOMAIN def.chain
Fn      == def.chain[flow.next]
Memory  == runtime[flow.next]
At(fn)  == InChain /\ Fn.fn = fn
Holding == At("standard") /\ Memory # None /\ Memory.is = "held"

Disabled   == Fn.degrees = 0 /\ Fn.delay = 0
Increasing == flow.target > Memory.target + HalfPercent
Decreasing == flow.target < Memory.target - HalfPercent

Beyond ==
  IF Decreasing THEN flow.at <= Memory.input - Fn.degrees
  ELSE \/ flow.at - Memory.input >= Fn.degrees
       \/ Memory.input - flow.at >= Fn.degrees

(* Mutant: a full target is held back like any other.                      *)
FollowedWhenRising == Disabled \/ (Increasing /\ Fn.downward)

(* Taken over at once: hysteresis is off, the target is full, or it rises  *)
(* and only falling targets are held back.                                 *)
FollowedAtOnce ==
  \/ Disabled \/ flow.target >= Full
  \/ Increasing /\ Fn.downward

Served == Memory.pending # None /\ Memory.pending >= Fn.delay

(* The poll leaves a function with target out, which now remembers memory. *)
Leave(at, out, memory) ==
  /\ flow' = [at |-> at, target |-> out, next |-> flow.next + 1]
  /\ runtime' = [runtime EXCEPT ![flow.next] = memory]
  /\ UNCHANGED def

Taken == [is |-> "held", input |-> flow.at, target |-> flow.target,
          pending |-> None]
TakeOver ==
  /\ Leave(flow.at, flow.target, Taken)
  /\ calm' = [calm EXCEPT ![flow.next] = 0]

-----------------------------------------------------------------------------
(* One path through one function each.                                     *)

Begin(input, target) ==
  /\ flow' = [at |-> input, target |-> target, next |-> 1]
  /\ UNCHANGED <<def, runtime, calm>>

Pass ==
  /\ At("identity")
  /\ Leave(flow.at, flow.target, Memory)
  /\ UNCHANGED calm

Remember ==
  /\ At("standard") /\ ~Holding
  /\ TakeOver

Follow ==
  /\ Holding /\ FollowedAtOnce
  /\ TakeOver

HoldTarget ==
  /\ Holding /\ ~FollowedAtOnce /\ ~Increasing /\ ~Decreasing
  /\ LET input == IF Fn.downward THEN Larger(Memory.input, flow.at)
                                 ELSE Memory.input
     IN Leave(flow.at, Memory.target,
              [Memory EXCEPT !.input = input, !.pending = None])
  /\ calm' = [calm EXCEPT ![flow.next] = 0]

(* Mutant: an input back within the threshold does not end the wait.       *)
StillWaiting ==
  /\ Holding /\ ~FollowedAtOnce /\ (Increasing \/ Decreasing) /\ ~Beyond
  /\ Leave(flow.at, Memory.target, Memory)
  /\ calm' = [calm EXCEPT ![flow.next] = 0]

HoldWithin ==
  /\ Holding /\ ~FollowedAtOnce /\ (Increasing \/ Decreasing) /\ ~Beyond
  /\ Leave(flow.at, Memory.target, [Memory EXCEPT !.pending = None])
  /\ calm' = [calm EXCEPT ![flow.next] = 0]

FollowLate ==
  /\ Holding /\ ~FollowedAtOnce /\ (Increasing \/ Decreasing) /\ Beyond
  /\ Fn.delay = 0 \/ Served
  /\ TakeOver

(* Mutant: the response time starts anew with every input.                 *)
HoldAnew ==
  /\ Holding /\ ~FollowedAtOnce /\ (Increasing \/ Decreasing) /\ Beyond
  /\ Fn.delay # 0 /\ ~Served
  /\ Leave(flow.at, Memory.target, [Memory EXCEPT !.pending = 0])
  /\ UNCHANGED calm

HoldPending ==
  /\ Holding /\ ~FollowedAtOnce /\ (Increasing \/ Decreasing) /\ Beyond
  /\ Fn.delay # 0 /\ ~Served
  /\ Leave(flow.at, Memory.target,
           [Memory EXCEPT !.pending = IF @ = None THEN 0 ELSE @])
  /\ UNCHANGED calm

(* Mutant: an average keeps its first value.                               *)
Frozen ==
  IF Memory = None \/ Memory.is # "smooth" THEN {flow.at} ELSE {Memory.value}

(* Values an average may move to: all the way, or some of it.              *)
Smoothed ==
  IF Memory = None \/ Memory.is # "smooth" \/ Fn.whole THEN {flow.at}
  ELSE IF flow.at > Memory.value THEN (Memory.value + 1)..flow.at
  ELSE IF flow.at < Memory.value THEN flow.at..(Memory.value - 1)
  ELSE {flow.at}

Smoothe(value) ==
  /\ At("ema") /\ value \in Smoothed
  /\ Leave(value, Evaluate(def.kind, value), [is |-> "smooth", value |-> value])
  /\ UNCHANGED calm

FilterStep ==
  \/ Pass \/ Remember \/ Follow \/ HoldTarget \/ HoldWithin
  \/ FollowLate \/ HoldPending
  \/ \E value \in Temperatures : Smoothe(value)

(* Time passes for what is pending.                                        *)
Remembers(i) == runtime[i] # None /\ runtime[i].is = "held"
FilterElapse(elapsed) ==
  /\ runtime' = [i \in DOMAIN runtime |->
       IF Remembers(i) /\ runtime[i].pending # None
       THEN [runtime[i] EXCEPT !.pending = Older(@, elapsed)] ELSE runtime[i]]
  /\ calm' = [i \in DOMAIN calm |->
       IF Remembers(i) THEN Older(calm[i], elapsed) ELSE calm[i]]

(* The curve is edited; while a calibration runs, memories are kept        *)
(* (`calibrate.rs` 453) and `calm` claims nothing of them.                 *)
Define(d) ==
  /\ def' = d /\ runtime' = Blank(d) /\ calm' = Zeros(d)
DefineKeeping(d) ==
  /\ def' = d
  /\ runtime' = [i \in DOMAIN d.chain \cup DOMAIN runtime |->
                   IF i \in DOMAIN runtime THEN runtime[i] ELSE None]
  /\ calm' = [i \in DOMAIN d.chain \cup DOMAIN runtime |-> MaxDelay]
Forget == runtime' = Blank(def) /\ calm' = Zeros(def) /\ UNCHANGED def
=============================================================================
