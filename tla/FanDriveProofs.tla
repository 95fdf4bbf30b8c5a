---------------------------- MODULE FanDriveProofs ----------------------------
(* For any curves, chains, readings, settings, calibrations and times:     *)
(* every command is a duty, heat passes hysteresis at once, a held target  *)
(* serves its time, and a ramp moves its fan towards its target and        *)
(* remembers what it wrote.                                                *)
EXTENDS FanDrive, CurveProofs

-----------------------------------------------------------------------------
(* What a config, a client or a measurement may hold is sane once it is    *)
(* normalized, sanitized or fitted.                                        *)

(* A curve yields a percentage at every temperature, or at none; its       *)
(* functions have parameters within their limits.                          *)
SaneCurve(c) ==
  /\ c.chain \in Seq({Identity} \cup Standard \cup Ema)
  /\ \/ \A t \in Temperatures : Evaluate(c.kind, t) \in Percents
     \/ \A t \in Temperatures : Evaluate(c.kind, t) = None

(* What is fitted goes by rising duties, with any speeds.                  *)
SaneFit(fit) ==
  /\ fit.speeds \in Seq(Duties \X Int) /\ InOrderOf(fit.speeds)
  /\ {fit.stop, fit.start} \subseteq Duties \cup {None}

(* A curve without points yields nothing; any other a percentage.          *)
LEMMA CurveYields ==
  ASSUME NEW kind \in RawKinds, NEW t \in Int
  PROVE  IF kind.kind = "graph" /\ kind.points = <<>> THEN Evaluate(kind, t) = None
         ELSE Evaluate(kind, t) \in Percents
<1>1. ASSUME NEW points \in Seq(Temperatures \X Percents), Len(points) # 0
      PROVE  Clamp(Height(points, t), 0, Full) \in Percents
  <2>1. points # <<>> /\ points \in Seq(Int \X Int)
    <3>1. (Temperatures \X Percents) \subseteq Int \X Int
      BY DEF Temperatures, Percents
    <3>2. Len(points) \in Nat /\ \A i \in 1..Len(points) : points[i] \in Int \X Int
      BY <3>1
    <3>3. points = [i \in 1..Len(points) |-> points[i]]
      OBVIOUS
    <3>4. [i \in 1..Len(points) |-> points[i]] \in Seq(Int \X Int)
      BY <3>2
    <3>5. points # <<>>
      BY <1>1
    <3> QED
      BY <3>3, <3>4, <3>5, Zenon
  <2> QED
    BY <2>1, HeightTyped, ClampedTyped
<1>2. CASE kind.kind = "graph" /\ kind.points \in Seq(Int \X Int)
  <2>1. CASE kind.points = <<>>
    BY <1>2, <2>1 DEF Evaluate
  <2>2. CASE kind.points # <<>>
    <3>1. Len(GraphPoints(kind.points)) # 0
      BY <1>2, <2>2, GraphTyped
    <3>2. Evaluate(kind, t) = Clamp(Height(GraphPoints(kind.points), t), 0, Full)
      BY <1>2, <2>2 DEF Evaluate
    <3> QED
      BY <1>1, <1>2, <2>2, <3>1, <3>2, GraphTyped
  <2> QED
    BY <2>1, <2>2
<1>3. CASE kind.kind = "linear" /\ {kind.start, kind.end} \subseteq Int \X Int
  <2>1. Evaluate(kind, t) = Clamp(Height(LinearPoints(kind.start, kind.end), t), 0, Full)
    BY <1>3 DEF Evaluate
  <2>2. /\ LinearPoints(kind.start, kind.end) \in Seq(Temperatures \X Percents)
        /\ Len(LinearPoints(kind.start, kind.end)) = 2
    BY <1>3, LinearTyped
  <2>3. Clamp(Height(LinearPoints(kind.start, kind.end), t), 0, Full) \in Percents
    <3> DEFINE line == LinearPoints(kind.start, kind.end)
    <3>1. line \in Seq(Temperatures \X Percents) /\ Len(line) # 0
      BY <2>2
    <3> HIDE DEF line
    <3>2. Clamp(Height(line, t), 0, Full) \in Percents
      BY <1>1, <3>1
    <3> QED
      BY <3>2 DEF line
  <2>4. kind.kind # "graph"
    BY <1>3
  <2> QED
    BY <2>1, <2>3, <2>4
<1>4. CASE kind.kind = "trigger"
             /\ {kind.threshold, kind.before, kind.after} \subseteq Int
  <2>1. /\ kind.kind # "graph" /\ kind.before \in Int /\ kind.after \in Int
        /\ Evaluate(kind, t)
             = Clamp(IF t <= Clamp(kind.threshold, Coldest, Hottest)
                     THEN kind.before ELSE kind.after, 0, Full)
    BY <1>4 DEF Evaluate
  <2> QED
    BY <2>1, ClampedTyped
<1> QED
  BY <1>2, <1>3, <1>4 DEF RawKinds

(* However wild the numbers of a config, its curves are sane.              *)
LEMMA NormalizedSane ==
  ASSUME NEW d, RawCurve(d)
  PROVE  SaneCurve(Normalized(d))
<1> DEFINE Sane(f) == IF f.fn # "standard" THEN f
                      ELSE [f EXCEPT !.degrees = Clamp(@, 0, MaxDegrees),
                                     !.delay = Clamp(@, 0, MaxDelay)]
           functions == IF d.functions = <<>> THEN <<d.hysteresis>> ELSE d.functions
           Fns == {Identity} \cup Standard \cup Ema
<1>1. Normalized(d).kind = d.kind
      /\ Normalized(d).chain = [i \in DOMAIN functions |-> Sane(functions[i])]
  BY DEF Normalized
<1>2. ASSUME NEW f \in {Identity} \cup RawStandard \cup Ema
      PROVE  Sane(f) \in Fns
  <2>1. CASE f \in RawStandard
    <3>1. /\ f.fn = "standard" /\ f.degrees \in Int /\ f.delay \in Int
          /\ f = [fn |-> "standard", degrees |-> f.degrees, delay |-> f.delay,
                  downward |-> f.downward]
          /\ f.downward \in BOOLEAN
      BY <2>1 DEF RawStandard
    <3>2. /\ Clamp(f.degrees, 0, MaxDegrees) \in 0..MaxDegrees
          /\ Clamp(f.delay, 0, MaxDelay) \in 0..MaxDelay
      BY <3>1, FilterAssumption DEF Clamp
    <3>3. Sane(f) = [fn |-> "standard", degrees |-> Clamp(f.degrees, 0, MaxDegrees),
                     delay |-> Clamp(f.delay, 0, MaxDelay), downward |-> f.downward]
      BY <3>1
    <3> HIDE DEF Sane
    <3> QED
      BY <3>1, <3>2, <3>3 DEF Standard
  <2>2. CASE f \in {Identity} \cup Ema
    <3>1. f.fn # "standard"
      BY <2>2 DEF Identity, Ema
    <3> QED
      BY <2>2, <3>1
  <2> QED
    BY <2>1, <2>2
<1>3. /\ functions \in Seq({Identity} \cup RawStandard \cup Ema)
      /\ Len(functions) \in Nat /\ DOMAIN functions = 1..Len(functions)
      /\ \A i \in 1..Len(functions) :
           functions[i] \in {Identity} \cup RawStandard \cup Ema
  <2>1. functions \in Seq({Identity} \cup RawStandard \cup Ema)
    <3>1. /\ d.functions \in Seq({Identity} \cup RawStandard \cup Ema)
          /\ d.hysteresis \in {Identity} \cup RawStandard \cup Ema
      BY DEF RawCurve
    <3>2. <<d.hysteresis>> \in Seq({Identity} \cup RawStandard \cup Ema)
      BY <3>1
    <3> QED
      BY <3>1, <3>2
  <2> HIDE DEF functions
  <2> QED
    BY <2>1
<1> HIDE DEF functions, Sane, Fns
<1>4. Normalized(d).chain \in Seq(Fns)
  <2>1. \A i \in 1..Len(functions) : Sane(functions[i]) \in Fns
    BY <1>2, <1>3
  <2> QED
    BY <1>1, <1>3, <2>1
<1>5. \A t \in Temperatures : t \in Int
  BY TemperaturesAssumption DEF Temperatures
<1>6. \/ \A t \in Temperatures : Evaluate(d.kind, t) \in Percents
      \/ \A t \in Temperatures : Evaluate(d.kind, t) = None
  BY <1>5, CurveYields DEF RawCurve
<1> QED
  BY <1>1, <1>4, <1>6 DEF SaneCurve, Fns

(* However a fan's speeds dip, repeat or come out of order, its            *)
(* calibration goes by rising duties.                                      *)
LEMMA FittedSane ==
  ASSUME NEW measured \in RawCal \cup {None}
  PROVE  SaneFit(Fitted(measured))
<1>1. CASE measured = None
  BY <1>1 DEF Fitted, SaneFit, InOrderOf
<1>2. CASE measured # None
  <2> DEFINE n == Len(measured.points)
             sorted == Sorted(measured.points)
             Speed(rpm) == Rounded(rpm * Full, measured.max)
             fit == Fitted(measured)
  <2>1. /\ measured.points \in Seq(Duties \X Int) /\ measured.max \in Int
        /\ {measured.stop, measured.start} \subseteq Duties \cup {None}
    BY <1>2 DEF RawCal
  <2>2. /\ n \in Nat /\ DOMAIN measured.points = 1..n
        /\ \A i \in 1..n : measured.points[i] \in Duties \X Int
    BY <2>1
  <2>3. Listing(measured.points, n)
    <3>1. \A p \in Duties \X Int : p[1] \in Int
      BY DEF Duties
    <3> QED
      BY <2>2, <3>1 DEF Listing
  <2> HIDE DEF n
  <2>4. /\ DOMAIN sorted = 1..n /\ InOrderOf(sorted)
        /\ \A k \in 1..n : sorted[k] \in Duties \X Int
    <3>1. /\ DOMAIN sorted = 1..n /\ InOrderOf(sorted)
          /\ \A k \in 1..n : \E i \in 1..n : sorted[k] = measured.points[i]
      BY <2>2, <2>3, SortedOrder
    <3> HIDE DEF sorted
    <3> QED
      BY <2>2, <3>1
  <2>5. PICK m \in Nat : \E place \in [1..m -> 1..n] :
          /\ UsablePoints(measured) = [k \in 1..m |-> sorted[place[k]]]
          /\ \A k, l \in 1..m : k < l => place[k] < place[l]
    <3>1. n \in Nat
      BY <2>2
    <3> QED
      BY <2>3, <3>1, UsableSorted, ZenonT(30)
  <2>6. PICK place \in [1..m -> 1..n] :
          /\ UsablePoints(measured) = [k \in 1..m |-> sorted[place[k]]]
          /\ \A k, l \in 1..m : k < l => place[k] < place[l]
    BY <2>5
  <2> HIDE DEF sorted
  <2>7. /\ fit.stop = measured.stop /\ fit.start = measured.start
        /\ fit.speeds = IF measured.max <= 0 THEN <<>>
                        ELSE [i \in 1..m |-> <<sorted[place[i]][1],
                                               Speed(sorted[place[i]][2])>>]
    BY <1>2, <2>6 DEF Fitted
  <2>8. CASE measured.max <= 0
    BY <2>1, <2>7, <2>8 DEF SaneFit, InOrderOf
  <2>9. CASE ~(measured.max <= 0)
    <3>1. \A rpm \in Int : Speed(rpm) \in Int
      <4>1. ASSUME NEW rpm \in Int
            PROVE  Speed(rpm) \in Int
        <5>1. /\ 2 * measured.max \in Nat \ {0}
              /\ 2 * (rpm * Full) + measured.max \in Int
          BY <2>1, <2>9, FullTyped
        <5> QED
          BY <5>1, Quotient DEF Rounded
      <4> QED
        BY <4>1
    <3> HIDE DEF Speed
    <3>2. \A i \in 1..m : place[i] \in 1..n /\ sorted[place[i]] \in Duties \X Int
      BY <2>4
    <3>3. \A i \in 1..m : <<sorted[place[i]][1], Speed(sorted[place[i]][2])>>
                              \in Duties \X Int
      BY <3>1, <3>2
    <3>4. fit.speeds = [i \in 1..m |-> <<sorted[place[i]][1],
                                         Speed(sorted[place[i]][2])>>]
      BY <2>7, <2>9
    <3>5. fit.speeds \in Seq(Duties \X Int)
      BY <3>3, <3>4
    <3>6. ASSUME NEW i \in 1..m, NEW j \in 1..m, i <= j
          PROVE  sorted[place[i]][1] <= sorted[place[j]][1]
      <4>1. place[i] <= place[j] /\ place[i] \in 1..n /\ place[j] \in 1..n
        <5>1. place[i] \in 1..n /\ place[j] \in 1..n
          OBVIOUS
        <5>2. CASE i = j
          BY <5>1, <5>2
        <5>3. CASE i < j
          BY <2>6, <5>1, <5>3
        <5> QED
          BY <3>6, <5>2, <5>3, <5>1
      <4> QED
        BY <2>4, <4>1 DEF InOrderOf
    <3>7. InOrderOf(fit.speeds)
      BY <3>4, <3>6 DEF InOrderOf
    <3> QED
      BY <2>1, <2>7, <3>5, <3>7 DEF SaneFit
  <2> QED
    BY <2>8, <2>9
<1> QED
  BY <1>1, <1>2

-----------------------------------------------------------------------------
(* Whatever is asked, and whatever was measured, a command is a duty.      *)
Settings == [up: Nat \cup {None}, down: Nat \cup {None},
             start: Percents \cup {None}, stop: Percents \cup {None},
             offset: Int, minimum: Percents]

LEMMA SanitizedTyped ==
  ASSUME NEW s \in RawSettings
  PROVE  Sanitized(s) \in Settings
<1>1. /\ Clamp(s.minimum, 0, Full) \in Percents
      /\ Clamp(s.offset, -Full, Full) \in Int
  <2>1. s.minimum \in Int /\ s.offset \in Int
    BY DEF RawSettings
  <2>2. Clamp(s.offset, -Full, Full) \in Int
    BY <2>1, FullTyped DEF Clamp
  <2> QED
    BY <2>1, <2>2, ClampedTyped
<1>2. \A v \in Int \cup {None} :
        /\ (IF v = None THEN None ELSE Clamp(v, 0, Full)) \in Percents \cup {None}
        /\ (IF v = None \/ v <= 0 THEN None ELSE Clamp(v, 0, Full \div 4))
             \in Nat \cup {None}
  <2>1. ASSUME NEW v \in Int
        PROVE  Clamp(v, 0, Full) \in Percents /\ Clamp(v, 0, Full \div 4) \in Nat
    <3>1. Full \div 4 \in Nat
      BY FullTyped
    <3>2. Clamp(v, 0, Full \div 4) \in Nat
      BY <3>1 DEF Clamp
    <3> QED
      BY <3>1, <3>2, ClampedTyped
  <2> QED
    BY <2>1
<1>3. {s.up, s.down, s.start, s.stop} \subseteq Int \cup {None}
  BY DEF RawSettings
<1> QED
  BY <1>1, <1>2, <1>3 DEF Sanitized, Settings

LEMMA FitTyped ==
  ASSUME NEW fit, SaneFit(fit)
  PROVE  /\ Invertible(fit) =>
              /\ \A p \in Int : CommandForSpeed(fit, p) \in Duties
              /\ \A d \in Duties : SpeedForCommand(fit, d) \in Percents
         /\ MinimumSpeed(fit) \in Percents
<1> DEFINE speeds == fit.speeds
<1>1. /\ speeds \in Seq(Duties \X Int) /\ Len(speeds) \in Nat
      /\ \A i \in 1..Len(speeds) : speeds[i] \in Duties \X Int
  BY DEF SaneFit
<1>2. ASSUME Invertible(fit)
      PROVE  /\ \A p \in Int : CommandForSpeed(fit, p) \in Duties
             /\ \A d \in Duties : SpeedForCommand(fit, d) \in Percents
  <2>1. /\ Flipped(speeds) \in Seq(Int \X Duties) /\ Flipped(speeds) # <<>>
        /\ speeds \in Seq(Int \X Int) /\ speeds # <<>>
    <3>1. Len(speeds) >= 2
      BY <1>2 DEF Invertible
    <3>2. \A i \in 1..Len(speeds) :
            <<speeds[i][2], speeds[i][1]>> \in Int \X Duties /\ speeds[i] \in Int \X Int
      <4>1. Duties \subseteq Int
        BY DEF Duties
      <4> QED
        BY <1>1, <4>1
    <3>3. DOMAIN speeds = 1..Len(speeds)
      BY <1>1
    <3>4. Flipped(speeds) \in Seq(Int \X Duties) /\ Len(Flipped(speeds)) = Len(speeds)
      BY <1>1, <3>2, <3>3 DEF Flipped
    <3>5. speeds \in Seq(Int \X Int)
      <4>1. \A i \in 1..Len(speeds) : speeds[i] \in Int \X Int
        BY <3>2
      <4>2. speeds = [i \in 1..Len(speeds) |-> speeds[i]]
        BY <1>1
      <4> HIDE DEF speeds
      <4>3. [i \in 1..Len(speeds) |-> speeds[i]] \in Seq(Int \X Int)
        BY <1>1, <4>1
      <4> QED
        BY <4>2, <4>3, Zenon
    <3> QED
      BY <3>1, <3>4, <3>5
  <2>2. /\ Duties \in SUBSET Int /\ \A a, b \in Duties : a..b \subseteq Duties
        /\ \A a, b \in Int : a..b \subseteq Int
    <3>1. ASSUME NEW a \in Duties, NEW b \in Duties, NEW c \in a..b
          PROVE  c \in Duties
      BY DEF Duties
    <3>2. Duties \in SUBSET Int
      BY DEF Duties
    <3> QED
      BY <3>1, <3>2
  <2>3. ASSUME NEW p \in Int
        PROVE  CommandForSpeed(fit, p) \in Duties
    <3>1. Clamp(p, 0, Full) \in Int
      BY ClampedTyped DEF Percents
    <3> QED
      BY <2>1, <2>2, <3>1, HeightWithin DEF CommandForSpeed
  <2>4. ASSUME NEW d \in Duties
        PROVE  SpeedForCommand(fit, d) \in Percents
    <3>1. d \in Int
      BY DEF Duties
    <3>2. Height(speeds, d) \in Int
      BY <2>1, <2>2, <3>1, HeightWithin
    <3> QED
      BY <3>2, ClampedTyped DEF SpeedForCommand
  <2> QED
    BY <2>3, <2>4
<1>3. MinimumSpeed(fit) \in Percents
  <2>1. CASE speeds = <<>>
    BY <2>1 DEF MinimumSpeed, Percents, Full
  <2>2. CASE speeds # <<>>
    <3>1. speeds[1][2] \in Int
      BY <1>1, <2>2
    <3> QED
      BY <2>2, <3>1, ClampedTyped DEF MinimumSpeed
  <2> QED
    BY <2>1, <2>2
<1> QED
  BY <1>2, <1>3

LEMMA CommandTyped ==
  ASSUME NEW fit, SaneFit(fit), NEW s \in Settings
  PROVE  /\ {StopCommand(s, fit), StartCommand(s, fit)} \subseteq Duties \cup {None}
         /\ \A p \in Int : /\ SteadyCommand(s, fit, p) \in Duties
                           /\ EffectivePercent(s, fit, p) \in Percents
         /\ \A d \in Duties : SpeedOf(fit, d) \in Percents
<1>1. {StopCommand(s, fit), StartCommand(s, fit)} \subseteq Duties \cup {None}
  BY DutyTyped DEF StopCommand, StartCommand, Override, Settings, SaneFit, Percents
<1>2. ASSUME NEW p \in Int
      PROVE  SteadyCommand(s, fit, p) \in Duties
  <2>1. (IF Invertible(fit) THEN CommandForSpeed(fit, p) ELSE PercentToDuty(p))
          \in Duties
    BY FitTyped, DutyTyped
  <2>2. 0 \in Duties
    BY DEF Duties
  <2> QED
    BY <2>1, <2>2 DEF SteadyCommand
<1>3. ASSUME NEW p \in Int
      PROVE  EffectivePercent(s, fit, p) \in Percents
  <2> DEFINE least == Larger(s.minimum, MinimumSpeed(fit))
  <2>1. s.minimum \in Percents /\ s.offset \in Int /\ MinimumSpeed(fit) \in Percents
    BY FitTyped DEF Settings
  <2>2. least \in 0..Full /\ p + s.offset \in Int /\ Full \in Int
    BY <2>1, FullTyped DEF Larger, Percents
  <2> HIDE DEF least
  <2>3. least \in Int /\ least <= Full
    BY <2>2
  <2>4. Clamp(p + s.offset, least, Full) \in least..Full
    BY <2>2, <2>3, ClampTyped
  <2> QED
    BY <2>2, <2>4 DEF EffectivePercent, Percents, least
<1>4. \A d \in Duties : SpeedOf(fit, d) \in Percents
  BY FitTyped, DutyTyped DEF SpeedOf
<1> QED
  BY <1>1, <1>2, <1>3, <1>4

-----------------------------------------------------------------------------
Memories == Held \cup Smooth \cup {None}

(* What the functions remember is typed, and nothing is pending for longer *)
(* than the inputs have been beyond the threshold.                         *)
Waited(memory, age) ==
  (memory # None /\ memory.is = "held" /\ memory.pending # None)
    => memory.pending <= age

MemorySane ==
  /\ runtime = [i \in DOMAIN runtime |-> runtime[i]]
  /\ calm = [i \in DOMAIN runtime |-> calm[i]]
  /\ DOMAIN def.chain \subseteq DOMAIN runtime
  /\ \A i \in DOMAIN runtime :
       runtime[i] \in Memories /\ calm[i] \in 0..MaxDelay
       /\ Waited(runtime[i], calm[i])

FlowSane ==
  /\ flow.at \in Temperatures /\ flow.target \in Percents
  /\ flow.next \in Nat \ {0}
  /\ \A t \in Temperatures : Evaluate(def.kind, t) \in Percents

FilterSane == SaneCurve(def) /\ MemorySane

FilterInv ==
  /\ site \in DOMAIN Sites
  /\ reading \in Temperatures \cup {None}
  /\ FilterSane
  /\ stage = "filter" => FlowSane /\ HeatFollowed

(* A memory is one of the three kinds, told apart by what it is.           *)
LEMMA MemoryKinds ==
  /\ None \in Memories
  /\ \A m \in Memories :
       /\ m = None \/ m \in Held \/ m \in Smooth
       /\ m \in Held => m.is = "held"
       /\ m \in Smooth => m.is = "smooth"
  BY DEF Memories, Held, Smooth

(* What time does to a wait.                                               *)
LEMMA OlderKeeps ==
  ASSUME NEW a \in 0..MaxDelay, NEW b \in 0..MaxDelay, NEW e \in Nat
  PROVE  /\ Older(a, e) \in 0..MaxDelay
         /\ b <= a => Older(b, e) <= Older(a, e)
  BY FilterAssumption DEF Older, Clamp

(* The function a poll leaves, and nothing else, gets a new memory.        *)
LEMMA LeaveKeeps ==
  ASSUME FilterSane, FlowSane, InChain,
         NEW at \in Temperatures, NEW out \in Percents,
         NEW memory \in Memories,
         Leave(at, out, memory),
         \/ /\ calm' = [calm EXCEPT ![flow.next] = 0]
            /\ memory \in Held /\ memory.pending = None
         \/ /\ calm' = calm
            /\ \/ memory = Memory \/ memory \in Smooth
               \/ memory \in Held /\ memory.pending = 0
  PROVE  /\ FilterSane' /\ FlowSane'
         /\ flow' = [at |-> at, target |-> out, next |-> flow.next + 1]
         /\ def' = def /\ DOMAIN runtime' = DOMAIN runtime
         /\ runtime'[flow.next] = memory
         /\ \A i \in DOMAIN runtime \ {flow.next} : runtime'[i] = runtime[i]
<1>1. /\ flow.next \in DOMAIN runtime /\ def' = def
      /\ flow' = [at |-> at, target |-> out, next |-> flow.next + 1]
      /\ runtime' = [runtime EXCEPT ![flow.next] = memory]
  BY DEF Leave, InChain, FilterSane, MemorySane
<1>2. /\ DOMAIN runtime' = DOMAIN runtime
      /\ runtime' = [i \in DOMAIN runtime' |-> runtime'[i]]
      /\ runtime'[flow.next] = memory
      /\ \A i \in DOMAIN runtime \ {flow.next} : runtime'[i] = runtime[i]
  BY <1>1 DEF FilterSane, MemorySane
<1>3. /\ calm' = [i \in DOMAIN runtime' |-> calm'[i]]
      /\ \A i \in DOMAIN runtime \ {flow.next} : calm'[i] = calm[i]
      /\ calm'[flow.next] = 0 \/ calm' = calm
  BY <1>1, <1>2 DEF FilterSane, MemorySane
<1>4. calm'[flow.next] \in 0..MaxDelay
  BY <1>1, <1>3, FilterAssumption DEF FilterSane, MemorySane
<1>5. Waited(memory, calm'[flow.next])
  <2>1. CASE memory = Memory /\ calm' = calm
    BY <1>1, <1>2, <2>1 DEF Waited, FilterSane, MemorySane, Memory
  <2>2. CASE memory \in Smooth
    BY <2>2, MemoryKinds DEF Waited, Smooth
  <2>3. CASE memory \in Held /\ memory.pending = None
    BY <2>3 DEF Waited
  <2>4. CASE memory \in Held /\ memory.pending = 0
    BY <1>4, <2>4 DEF Waited
  <2> QED
    BY <2>1, <2>2, <2>3, <2>4
<1>6. ASSUME NEW i \in DOMAIN runtime'
      PROVE  /\ runtime'[i] \in Memories /\ calm'[i] \in 0..MaxDelay
             /\ Waited(runtime'[i], calm'[i])
  <2>1. CASE i = flow.next
    BY <1>2, <1>4, <1>5, <2>1
  <2>2. CASE i # flow.next
    BY <1>2, <1>3, <2>2 DEF Waited, FilterSane, MemorySane
  <2> QED
    BY <2>1, <2>2
<1>7. MemorySane'
  BY <1>1, <1>2, <1>3, <1>6 DEF MemorySane, FilterSane
<1>8. SaneCurve(def)'
  BY <1>1 DEF FilterSane, SaneCurve
<1>9. FlowSane'
  BY <1>1 DEF FlowSane
<1> QED
  BY <1>1, <1>2, <1>7, <1>8, <1>9 DEF FilterSane

-----------------------------------------------------------------------------
(* Hysteresis, path by path.                                               *)

LEMMA StandardSane ==
  ASSUME FilterSane, FlowSane, At("standard")
  PROVE  /\ InChain /\ flow.next \in Standards /\ Fn = def.chain[flow.next]
         /\ Fn.degrees \in 0..MaxDegrees /\ Fn.delay \in 0..MaxDelay
         /\ Fn.downward \in BOOLEAN
         /\ Memory \in Memories /\ calm[flow.next] \in 0..MaxDelay
         /\ Waited(Memory, calm[flow.next])
<1>1. InChain /\ Fn.fn = "standard" /\ flow.next \in DOMAIN runtime
  BY DEF At, InChain, FilterSane, MemorySane
<1>2. Fn \in {Identity} \cup Standard \cup Ema
  BY <1>1 DEF FilterSane, SaneCurve, InChain, Fn
<1>3. Fn \in Standard
  BY <1>1, <1>2 DEF Identity, Ema
<1> QED
  BY <1>1, <1>3 DEF Standard, Standards, InChain, Fn, FilterSane,
                       MemorySane, Memory

LEMMA HeldSane ==
  ASSUME FilterSane, FlowSane, Holding
  PROVE  /\ Memory \in Held /\ Memory # None /\ Memory.is = "held"
         /\ Memory.input \in Temperatures /\ Memory.target \in Percents
         /\ Memory.pending \in (0..MaxDelay) \cup {None}
<1>1. Memory \in Memories /\ Memory # None /\ Memory.is = "held"
  BY StandardSane DEF Holding
<1>2. Memory \in Held
  BY <1>1, MemoryKinds
<1> QED
  BY <1>1, <1>2 DEF Held

LEMMA TakenHeld ==
  ASSUME FlowSane
  PROVE  Taken \in Held /\ Taken.pending = None
  BY DEF FlowSane, Taken, Held

(* What a function of hysteresis must do for heat to pass it.              *)
LEMMA HeatPasses ==
  ASSUME FilterSane, FlowSane, HeatFollowed, At("standard"),
         stage = "filter", stage' = "filter", def' = def,
         NEW out \in Percents,
         flow' = [at |-> flow.at, target |-> out, next |-> flow.next + 1],
         flow.target = Full => out = Full,
         Fn.downward => out + HalfPercent >= flow.target
  PROVE  HeatFollowed'
<1> DEFINE wanted == Evaluate(def.kind, flow.at)
<1>1. /\ wanted \in Int /\ flow.target \in Int /\ flow.next \in Nat
      /\ out \in Int
  BY DEF FlowSane, Percents
<1>2. /\ flow'.at = flow.at /\ flow'.target = out
      /\ flow'.next = flow.next + 1
  OBVIOUS
<1>3. wanted = Full => out = Full
  BY DEF HeatFollowed
<1>4. ASSUME \A i \in Standards : def.chain[i].downward
      PROVE  out + HalfPercent * ((flow.next + 1) - 1) >= wanted
  <2>1. Fn.downward
    BY <1>4, StandardSane
  <2>2. flow.target + HalfPercent * (flow.next - 1) >= wanted
    BY <1>4 DEF HeatFollowed
  <2> HIDE DEF wanted
  <2> QED
    BY <1>1, <2>1, <2>2 DEF HalfPercent
<1> QED
  BY <1>2, <1>3, <1>4 DEF HeatFollowed, Standards

(* What a step of the filter keeps.                                        *)
Moves ==
  \A i \in Standards :
    Awaited(def.chain[i], calm[i], runtime[i], runtime'[i])
FilterKept == FilterSane' /\ FlowSane' /\ HeatFollowed' /\ Moves

LEMMA UnmovedAwaited ==
  ASSUME FilterSane, NEW i \in DOMAIN runtime, NEW f
  PROVE  Awaited(f, calm[i], runtime[i], runtime[i])
<1>1. CASE runtime[i] # None /\ runtime[i].is = "held"
  <2>1. runtime[i] \in Held
    BY <1>1, MemoryKinds DEF FilterSane, MemorySane
  <2>2. runtime[i].target \in Int
    BY <2>1 DEF Held, Percents
  <2> QED
    BY <2>2 DEF Awaited, HalfPercent
<1> QED
  BY <1>1 DEF Awaited

LEMMA StandardKept ==
  ASSUME FilterSane, FlowSane, HeatFollowed, At("standard"),
         stage = "filter", stage' = "filter",
         NEW out \in Percents, NEW memory \in Memories,
         Leave(flow.at, out, memory),
         \/ /\ calm' = [calm EXCEPT ![flow.next] = 0]
            /\ memory \in Held /\ memory.pending = None
         \/ /\ calm' = calm
            /\ \/ memory = Memory \/ memory \in Smooth
               \/ memory \in Held /\ memory.pending = 0,
         flow.target = Full => out = Full,
         Fn.downward => out + HalfPercent >= flow.target,
         Awaited(Fn, calm[flow.next], Memory, memory)
  PROVE  FilterKept
<1>1. InChain /\ flow.at \in Temperatures
  BY StandardSane DEF FlowSane
<1>2. /\ FilterSane' /\ FlowSane' /\ def' = def
      /\ flow' = [at |-> flow.at, target |-> out, next |-> flow.next + 1]
      /\ runtime'[flow.next] = memory
      /\ \A i \in DOMAIN runtime \ {flow.next} : runtime'[i] = runtime[i]
  BY <1>1, LeaveKeeps
<1>3. HeatFollowed'
  BY <1>2, HeatPasses
<1>4. ASSUME NEW i \in Standards
      PROVE  Awaited(def.chain[i], calm[i], runtime[i], runtime'[i])
  <2>1. i \in DOMAIN runtime
    BY <1>4 DEF Standards, FilterSane, MemorySane
  <2>2. CASE i = flow.next
    BY <1>2, <2>2 DEF Fn, Memory
  <2>3. CASE i # flow.next
    BY <1>2, <2>1, <2>3, UnmovedAwaited
  <2> QED
    BY <2>2, <2>3
<1> QED
  BY <1>2, <1>3, <1>4 DEF FilterKept, Moves

LEMMA RememberKeeps ==
  ASSUME FilterSane, FlowSane, HeatFollowed, stage = "filter",
         stage' = "filter", Remember
  PROVE  FilterKept
<1>1. At("standard") /\ Leave(flow.at, flow.target, Taken)
      /\ calm' = [calm EXCEPT ![flow.next] = 0]
  BY DEF Remember, TakeOver
<1>2. Awaited(Fn, calm[flow.next], Memory, Taken)
  BY DEF Remember, Holding, Awaited
<1> QED
  BY <1>1, <1>2, TakenHeld, StandardKept
     DEF FlowSane, Memories, Percents, HalfPercent

(* A target taken over is awaited if the path to it asks for it.           *)
LEMMA TakeOverKeeps ==
  ASSUME FilterSane, FlowSane, HeatFollowed, stage = "filter",
         stage' = "filter", Holding, TakeOver,
         Awaited(Fn, calm[flow.next], Memory, Taken)
  PROVE  FilterKept
<1>1. At("standard") /\ Leave(flow.at, flow.target, Taken)
      /\ calm' = [calm EXCEPT ![flow.next] = 0]
  BY DEF Holding, TakeOver
<1> QED
  BY <1>1, TakenHeld, StandardKept
     DEF FlowSane, Memories, Percents, HalfPercent

LEMMA FollowKeeps ==
  ASSUME FilterSane, FlowSane, HeatFollowed, stage = "filter",
         stage' = "filter", Follow
  PROVE  FilterKept
<1>1. Holding /\ TakeOver /\ At("standard")
  BY DEF Follow, Holding
<1>2. /\ flow.target \in Int /\ Memory.target \in Int
      /\ Memory.target <= Full
  BY <1>1, HeldSane DEF FlowSane, Percents
<1>3. Awaited(Fn, calm[flow.next], Memory, Taken)
  <2>1. Taken.target = flow.target
    BY DEF Taken
  <2>2. CASE Disabled
    BY <2>2 DEF Disabled, Awaited
  <2>3. CASE flow.target >= Full
    <3>1. ~(flow.target < Memory.target - HalfPercent) /\ ~(flow.target < Full)
      BY <1>2, <2>3 DEF HalfPercent, Full
    <3> QED
      BY <2>1, <3>1 DEF Awaited
  <2>4. CASE Increasing /\ Fn.downward
    <3>1. ~(flow.target < Memory.target - HalfPercent)
      BY <1>2, <2>4 DEF Increasing, HalfPercent, Full
    <3> QED
      BY <2>1, <2>4, <3>1 DEF Awaited
  <2> QED
    BY <2>2, <2>3, <2>4 DEF Follow, FollowedAtOnce
<1> QED
  BY <1>1, <1>3, TakeOverKeeps

LEMMA FollowLateKeeps ==
  ASSUME FilterSane, FlowSane, HeatFollowed, stage = "filter",
         stage' = "filter", FollowLate
  PROVE  FilterKept
<1>1. Holding /\ TakeOver /\ At("standard")
  BY DEF FollowLate, Holding
<1>2. /\ flow.target \in Int /\ Memory.target \in Int
      /\ flow.at \in Int /\ Memory.input \in Int /\ Fn.degrees \in Nat
      /\ Fn.delay \in Nat /\ calm[flow.next] \in Nat
  BY <1>1, HeldSane, StandardSane, TemperaturesAssumption
     DEF FlowSane, Percents, Temperatures
<1>3. calm[flow.next] >= Fn.delay
  <2>1. CASE Fn.delay = 0
    BY <1>2, <2>1
  <2>2. CASE Served
    BY <1>1, <1>2, <2>2, HeldSane, StandardSane DEF Served, Waited
  <2> QED
    BY <2>1, <2>2 DEF FollowLate
<1>4. \/ flow.at <= Memory.input - Fn.degrees
      \/ /\ flow.target > Memory.target
         /\ flow.at >= Memory.input + Fn.degrees
  BY <1>2 DEF FollowLate, Beyond, Increasing, Decreasing, HalfPercent
<1>5. Awaited(Fn, calm[flow.next], Memory, Taken)
  BY <1>3, <1>4 DEF Awaited, Taken
<1> QED
  BY <1>1, <1>5, TakeOverKeeps

(* A held target stays, and falls short of a rise only where rises are     *)
(* held too.                                                               *)
LEMMA HoldKeeps ==
  ASSUME FilterSane, FlowSane, HeatFollowed, stage = "filter",
         stage' = "filter", Holding, ~FollowedAtOnce,
         Fn.downward => ~Increasing,
         NEW memory \in Held, Leave(flow.at, Memory.target, memory),
         memory.target = Memory.target,
         \/ calm' = [calm EXCEPT ![flow.next] = 0] /\ memory.pending = None
         \/ calm' = calm /\ (memory = Memory \/ memory.pending = 0)
  PROVE  FilterKept
<1>1. At("standard") /\ memory \in Memories /\ Memory.target \in Percents
  BY HeldSane DEF Holding, Memories
<1>2. flow.target \in Int /\ Memory.target \in Int
  BY <1>1 DEF FlowSane, Percents
<1>3. flow.target # Full
  BY <1>2 DEF FollowedAtOnce, Full
<1>4. Fn.downward => Memory.target + HalfPercent >= flow.target
  BY <1>2 DEF Increasing, HalfPercent
<1>5. Awaited(Fn, calm[flow.next], Memory, memory)
  BY <1>2 DEF Awaited, HalfPercent
<1> QED
  BY <1>1, <1>3, <1>4, <1>5, StandardKept

LEMMA HoldTargetKeeps ==
  ASSUME FilterSane, FlowSane, HeatFollowed, stage = "filter",
         stage' = "filter", HoldTarget
  PROVE  FilterKept
<1> DEFINE input == IF Fn.downward THEN Larger(Memory.input, flow.at)
                                   ELSE Memory.input
           memory == [Memory EXCEPT !.input = input, !.pending = None]
<1>1. Holding /\ Memory \in Held /\ flow.at \in Temperatures
  BY HeldSane DEF HoldTarget, FlowSane
<1>2. input \in Temperatures
  BY <1>1, HeldSane DEF Larger
<1>3. memory \in Held /\ memory.pending = None /\ memory.target = Memory.target
  BY <1>1, <1>2 DEF Held
<1>4. /\ Leave(flow.at, Memory.target, memory)
      /\ calm' = [calm EXCEPT ![flow.next] = 0]
      /\ ~FollowedAtOnce /\ ~Increasing
  BY DEF HoldTarget
<1> HIDE DEF memory
<1> QED
  BY <1>1, <1>3, <1>4, HoldKeeps

LEMMA HoldWithinKeeps ==
  ASSUME FilterSane, FlowSane, HeatFollowed, stage = "filter",
         stage' = "filter", HoldWithin
  PROVE  FilterKept
<1> DEFINE memory == [Memory EXCEPT !.pending = None]
<1>1. Holding /\ Memory \in Held
  BY HeldSane DEF HoldWithin
<1>2. memory \in Held /\ memory.pending = None /\ memory.target = Memory.target
  BY <1>1 DEF Held
<1> QED
  BY <1>1, <1>2, HoldKeeps DEF HoldWithin, FollowedAtOnce

LEMMA HoldPendingKeeps ==
  ASSUME FilterSane, FlowSane, HeatFollowed, stage = "filter",
         stage' = "filter", HoldPending
  PROVE  FilterKept
<1> DEFINE memory == [Memory EXCEPT !.pending = IF @ = None THEN 0 ELSE @]
<1>1. Holding /\ Memory \in Held
  BY HeldSane DEF HoldPending
<1>2. /\ memory \in Held /\ memory.target = Memory.target
      /\ memory = Memory \/ memory.pending = 0
  BY <1>1, FilterAssumption DEF Held
<1> QED
  BY <1>1, <1>2, HoldKeeps DEF HoldPending, FollowedAtOnce

-----------------------------------------------------------------------------
(* The other functions.                                                    *)

(* A target that is the curve's own for the input.                         *)
LEMMA OwnTargetFollowed ==
  ASSUME FlowSane, def' = def, NEW at \in Temperatures,
         NEW next \in Nat \ {0},
         flow' = [at |-> at, target |-> Evaluate(def.kind, at), next |-> next]
  PROVE  HeatFollowed'
<1>1. Evaluate(def.kind, at) \in Int
  BY DEF FlowSane, Percents
<1> QED
  BY <1>1 DEF HeatFollowed, HalfPercent

LEMMA PassKeeps ==
  ASSUME FilterSane, FlowSane, HeatFollowed, stage = "filter",
         stage' = "filter", Pass
  PROVE  FilterKept
<1>1. /\ InChain /\ flow.at \in Temperatures /\ flow.target \in Percents
      /\ flow.next \in DOMAIN runtime /\ Memory \in Memories
  BY DEF Pass, At, InChain, FilterSane, MemorySane, FlowSane, Memory
<1>2. /\ FilterSane' /\ FlowSane' /\ def' = def
      /\ flow' = [at |-> flow.at, target |-> flow.target,
                  next |-> flow.next + 1]
      /\ \A i \in DOMAIN runtime : runtime'[i] = runtime[i]
  <2>1. Leave(flow.at, flow.target, Memory) /\ calm' = calm
    BY DEF Pass
  <2>2. /\ FilterSane' /\ FlowSane' /\ def' = def
        /\ flow' = [at |-> flow.at, target |-> flow.target,
                    next |-> flow.next + 1]
        /\ runtime'[flow.next] = Memory
        /\ \A i \in DOMAIN runtime \ {flow.next} : runtime'[i] = runtime[i]
    BY <1>1, <2>1, LeaveKeeps
  <2> QED
    BY <2>2 DEF Memory
<1>3. HeatFollowed'
  <2>1. /\ flow'.at = flow.at /\ flow'.target = flow.target
        /\ flow'.next = flow.next + 1
    BY <1>2
  <2>2. /\ flow.target \in Int /\ flow.next \in Nat
        /\ Evaluate(def.kind, flow.at) \in Int
    BY DEF FlowSane, Percents
  <2>3. ASSUME flow.target + HalfPercent * (flow.next - 1)
                 >= Evaluate(def.kind, flow.at)
        PROVE  flow.target + HalfPercent * ((flow.next + 1) - 1)
                 >= Evaluate(def.kind, flow.at)
    BY <2>2, <2>3 DEF HalfPercent
  <2> QED
    BY <1>2, <2>1, <2>3 DEF HeatFollowed, Standards
<1>4. Moves
  BY <1>2, UnmovedAwaited DEF Moves, Standards, FilterSane, MemorySane
<1> QED
  BY <1>2, <1>3, <1>4 DEF FilterKept

LEMMA SmootheKeeps ==
  ASSUME FilterSane, FlowSane, HeatFollowed, stage = "filter",
         stage' = "filter", NEW value \in Temperatures, Smoothe(value)
  PROVE  FilterKept
<1> DEFINE memory == [is |-> "smooth", value |-> value]
<1>1. /\ InChain /\ Evaluate(def.kind, value) \in Percents
      /\ memory \in Smooth /\ memory \in Memories
      /\ Leave(value, Evaluate(def.kind, value), memory) /\ calm' = calm
  BY DEF Smoothe, At, FlowSane, Smooth, Memories
<1> HIDE DEF memory
<1>2. /\ FilterSane' /\ FlowSane' /\ def' = def
      /\ flow' = [at |-> value, target |-> Evaluate(def.kind, value),
                  next |-> flow.next + 1]
      /\ \A i \in DOMAIN runtime \ {flow.next} : runtime'[i] = runtime[i]
  BY <1>1, LeaveKeeps
<1>3. HeatFollowed'
  <2>1. flow.next + 1 \in Nat \ {0}
    BY DEF FlowSane
  <2> QED
    BY <1>2, <2>1, OwnTargetFollowed
<1>4. Moves
  <2>1. flow.next \notin Standards
    BY DEF Smoothe, At, Fn, Standards
  <2> QED
    BY <1>2, <2>1, UnmovedAwaited DEF Moves, Standards, FilterSane, MemorySane
<1> QED
  BY <1>2, <1>3, <1>4 DEF FilterKept

LEMMA FilterStepKeeps ==
  ASSUME FilterSane, FlowSane, HeatFollowed, stage = "filter",
         stage' = "filter", FilterStep
  PROVE  FilterKept
BY PassKeeps, RememberKeeps, FollowKeeps, HoldTargetKeeps, HoldWithinKeeps,
   FollowLateKeeps, HoldPendingKeeps, SmootheKeeps DEF FilterStep

-----------------------------------------------------------------------------
(* What happens to the memories outside the filter.                        *)

Tame ==
  /\ FilterSane'
  /\ \A i \in Standards :
       (def' = def /\ i \in DOMAIN runtime')
         => Awaited(def.chain[i], calm[i], runtime[i], runtime'[i])

LEMMA UntouchedTame ==
  ASSUME FilterSane, UNCHANGED <<def, runtime, calm>>
  PROVE  Tame
<1>1. FilterSane'
  BY DEF FilterSane, SaneCurve, MemorySane
<1> QED
  BY <1>1, UnmovedAwaited DEF Tame

LEMMA DefineTame ==
  ASSUME NEW d, SaneCurve(d), Define(d)
  PROVE  Tame
<1>1. /\ def' = d /\ runtime' = [i \in DOMAIN d.chain |-> None]
      /\ calm' = [i \in DOMAIN d.chain |-> 0]
  BY DEF Define, Blank, Zeros
<1>2. 0 \in 0..MaxDelay /\ None \in Memories
  BY FilterAssumption, MemoryKinds
<1>3. MemorySane'
  BY <1>1, <1>2 DEF MemorySane, Waited
<1>4. SaneCurve(def)'
  BY <1>1 DEF SaneCurve
<1>5. \A i \in DOMAIN runtime' : runtime'[i] = None
  BY <1>1
<1> QED
  BY <1>3, <1>4, <1>5 DEF Tame, FilterSane, Awaited

LEMMA ForgetTame ==
  ASSUME FilterSane, Forget
  PROVE  Tame
<1>1. Define(def) /\ SaneCurve(def)
  BY DEF Forget, Define, FilterSane
<1> QED
  BY <1>1, DefineTame

LEMMA KeepingTame ==
  ASSUME FilterSane, NEW d, SaneCurve(d), DefineKeeping(d)
  PROVE  Tame
<1> DEFINE slots == DOMAIN d.chain \cup DOMAIN runtime
<1>1. /\ def' = d
      /\ runtime' = [i \in slots |-> IF i \in DOMAIN runtime THEN runtime[i]
                                     ELSE None]
      /\ calm' = [i \in slots |-> MaxDelay]
  BY DEF DefineKeeping
<1>2. ASSUME NEW i \in slots
      PROVE  /\ \/ runtime'[i] = None
                \/ i \in DOMAIN runtime /\ runtime'[i] = runtime[i]
             /\ runtime'[i] \in Memories /\ calm'[i] = MaxDelay
             /\ calm'[i] \in 0..MaxDelay
  BY <1>1, <1>2, MemoryKinds, FilterAssumption DEF FilterSane, MemorySane
<1>3. ASSUME NEW i \in slots
      PROVE  Waited(runtime'[i], calm'[i])
  <2>1. runtime'[i] \in Memories /\ calm'[i] = MaxDelay
    BY <1>2
  <2>2. CASE runtime'[i] \in Held
    BY <2>1, <2>2, FilterAssumption DEF Waited, Held
  <2> QED
    BY <2>1, <2>2, MemoryKinds DEF Waited, Smooth
<1>4. DOMAIN runtime' = slots /\ DOMAIN calm' = slots
  BY <1>1
<1>5. MemorySane'
  BY <1>1, <1>2, <1>3, <1>4 DEF MemorySane
<1>6. SaneCurve(def)'
  BY <1>1 DEF SaneCurve
<1>7. ASSUME NEW i \in Standards, i \in DOMAIN runtime'
      PROVE  Awaited(def.chain[i], calm[i], runtime[i], runtime'[i])
  <2>1. CASE runtime'[i] = None
    BY <2>1 DEF Awaited
  <2>2. CASE i \in DOMAIN runtime /\ runtime'[i] = runtime[i]
    BY <2>2, UnmovedAwaited
  <2> QED
    BY <1>2, <1>4, <1>7, <2>1, <2>2
<1> QED
  BY <1>5, <1>6, <1>7 DEF Tame, FilterSane

LEMMA ElapseTame ==
  ASSUME FilterSane, NEW elapsed \in Nat, FilterElapse(elapsed),
         def' = def
  PROVE  Tame
<1> DEFINE Waiting(i) == Remembers(i) /\ runtime[i].pending # None
           Aged(i) ==
             [runtime[i] EXCEPT !.pending = Older(runtime[i].pending, elapsed)]
<1>1. /\ DOMAIN runtime' = DOMAIN runtime
      /\ runtime' = [i \in DOMAIN runtime |-> runtime'[i]]
      /\ calm' = [i \in DOMAIN runtime |-> calm'[i]]
  BY DEF FilterElapse, FilterSane, MemorySane
<1>2. ASSUME NEW i \in DOMAIN runtime
      PROVE  /\ runtime'[i] \in Memories /\ calm'[i] \in 0..MaxDelay
             /\ Waited(runtime'[i], calm'[i])
             /\ Awaited(def.chain[i], calm[i], runtime[i], runtime'[i])
  <2>1. /\ runtime[i] \in Memories /\ calm[i] \in 0..MaxDelay
        /\ Waited(runtime[i], calm[i])
        /\ Awaited(def.chain[i], calm[i], runtime[i], runtime[i])
    BY <1>2, UnmovedAwaited DEF FilterSane, MemorySane
  <2>2. /\ runtime'[i] = IF Waiting(i) THEN Aged(i) ELSE runtime[i]
        /\ calm'[i] = IF Remembers(i) THEN Older(calm[i], elapsed)
                                      ELSE calm[i]
    BY <1>2 DEF FilterElapse, FilterSane, MemorySane
  <2>3. CASE Waiting(i)
    <3>1. /\ runtime[i] \in Held /\ runtime[i].pending \in 0..MaxDelay
          /\ runtime[i].pending <= calm[i] /\ Remembers(i)
      BY <2>1, <2>3, MemoryKinds DEF Remembers, Held, Waited
    <3>2. /\ Older(calm[i], elapsed) \in 0..MaxDelay
          /\ Older(runtime[i].pending, elapsed) \in 0..MaxDelay
          /\ Older(runtime[i].pending, elapsed) <= Older(calm[i], elapsed)
      BY <2>1, <3>1, OlderKeeps
    <3>3. /\ Aged(i) \in Held /\ Aged(i).target = runtime[i].target
          /\ Aged(i).pending = Older(runtime[i].pending, elapsed)
          /\ runtime[i].target \in Int
      BY <3>1, <3>2 DEF Held, Percents
    <3>4. runtime'[i] = Aged(i) /\ calm'[i] = Older(calm[i], elapsed)
      BY <2>2, <2>3, <3>1
    <3> HIDE DEF Aged
    <3>5. Awaited(def.chain[i], calm[i], runtime[i], Aged(i))
      BY <3>3 DEF Awaited, HalfPercent
    <3> QED
      BY <3>2, <3>3, <3>4, <3>5 DEF Waited, Memories
  <2>4. CASE ~Waiting(i)
    <3>1. runtime'[i] = runtime[i] /\ calm'[i] \in 0..MaxDelay
      <4>1. Older(calm[i], elapsed) \in 0..MaxDelay
        BY <2>1, OlderKeeps
      <4> QED
        BY <2>1, <2>2, <2>4, <4>1
    <3>2. Waited(runtime[i], calm'[i])
      BY <2>4 DEF Waited, Remembers
    <3> QED
      BY <2>1, <3>1, <3>2
  <2> QED
    BY <2>3, <2>4
<1>3. MemorySane'
  BY <1>1, <1>2 DEF MemorySane, FilterSane
<1>4. SaneCurve(def)'
  BY DEF SaneCurve, FilterSane
<1> QED
  BY <1>1, <1>2, <1>3, <1>4 DEF Tame, FilterSane

-----------------------------------------------------------------------------
(* The worker's steps.                                                     *)

Settled ==
  stage' # "filter" /\ site' = site /\ reading' \in Readings \cup {reading}

LEMMA ReadingsSane ==
  ASSUME FilterInv
  PROVE  /\ Readings \subseteq Temperatures \cup {None}
         /\ \A d \in Here.defs : SaneCurve(Normalized(d))
  BY SitesAssumption, NormalizedSane DEF FilterInv, Readings, Here

LEMMA SettledKeeps ==
  ASSUME FilterInv, Settled, Tame
  PROVE  FilterInv'
  BY ReadingsSane DEF FilterInv, Settled, Tame, FilterSane

LEMMA RequestKeeps ==
  ASSUME FilterInv, Request
  PROVE  FilterInv' /\ Tame
<1>1. site' = site /\ reading' = reading /\ stage' # "filter"
  BY DEF Request, ByHand, Automatic, Assign, Unassign, Tune, Edit, Receive,
         Calibrate, curveVars
<1>2. FilterSane
  BY DEF FilterInv
<1>3. Tame
  <2>1. ASSUME NEW encoded, ByHand(encoded)
        PROVE  Tame
    BY <1>2, <2>1, ForgetTame, UntouchedTame DEF ByHand, OffCurve
  <2>2. CASE Automatic
    BY <1>2, <2>2, ForgetTame, UntouchedTame DEF Automatic, OffCurve
  <2>3. CASE Assign \/ Unassign
    BY <1>2, <2>3, ForgetTame DEF Assign, Unassign
  <2>4. ASSUME NEW raw, Tune(raw)
        PROVE  Tame
    BY <1>2, <2>4, UntouchedTame DEF Tune
  <2>5. ASSUME NEW d \in Here.defs, Edit(d)
        PROVE  Tame
    BY <2>5, ReadingsSane, DefineTame DEF Edit
  <2>6. ASSUME NEW d \in Here.defs \cup {None}, NEW duty, Calibrate(d, duty)
        PROVE  Tame
    <3>1. CASE d = None
      BY <1>2, <2>6, <3>1, FilterAssumption, ElapseTame DEF Calibrate
    <3>2. CASE d # None
      BY <1>2, <2>6, <3>2, ReadingsSane, KeepingTame DEF Calibrate
    <3> QED
      BY <3>1, <3>2
  <2> QED
    BY <2>1, <2>2, <2>3, <2>4, <2>5, <2>6 DEF Request
<1> QED
  BY <1>1, <1>3, SettledKeeps DEF Settled

LEMMA WorkKeeps ==
  ASSUME FilterInv, Work
  PROVE  FilterInv' /\ Tame
<1>1. FilterSane
  BY DEF FilterInv
<1>2. ASSUME NEW elapsed \in Waits, Elapse(elapsed)
      PROVE  FilterInv' /\ Tame
  <2>1. elapsed \in Nat /\ FilterElapse(elapsed) /\ def' = def
    BY <1>2, PassAssumption DEF Elapse
  <2>2. site' = site /\ reading' = reading /\ stage' # "filter"
    BY <1>2 DEF Elapse, curveVars
  <2> QED
    BY <1>1, <2>1, <2>2, ElapseTame, SettledKeeps DEF Settled
<1>3. CASE Quiet \/ Restore \/ NoTick \/ TickRamp \/ NoCurve
  <2>1. /\ site' = site /\ reading' = reading /\ stage' # "filter"
        /\ UNCHANGED <<def, runtime, calm>>
    BY <1>3 DEF Quiet, Restore, NoTick, TickRamp, NoCurve, AfterTick,
                filterVars, curveVars
  <2> QED
    BY <1>1, <2>1, UntouchedTame, SettledKeeps DEF Settled
<1>4. CASE Drive
  <2>1. /\ site' = site /\ reading' = reading /\ stage' # "filter"
        /\ UNCHANGED <<def, runtime, calm>>
    BY <1>4 DEF Drive
  <2> QED
    BY <1>1, <2>1, UntouchedTame, SettledKeeps DEF Settled
<1>5. ASSUME NEW measured, Conclude(measured)
      PROVE  FilterInv' /\ Tame
  <2>1. Settled /\ UNCHANGED <<def, runtime, calm>>
    BY <1>5 DEF Conclude, Refreshed, Settled, filterVars
  <2> QED
    BY <1>1, <2>1, UntouchedTame, SettledKeeps DEF Settled
<1>6. CASE Update
  <2>1. /\ site' = site /\ stage' # "filter"
        /\ reading' \in Readings \/ reading' = reading
        /\ UNCHANGED <<def, runtime, calm>>
    BY <1>6 DEF Update, Refreshed, filterVars
  <2> QED
    BY <1>1, <2>1, UntouchedTame, SettledKeeps DEF Settled
<1>7. CASE ReadCurve
  <2>1. /\ site' = site /\ reading' = reading /\ def' = def
        /\ UNCHANGED <<def, runtime, calm>>
    BY <1>7 DEF ReadCurve, Begin, curveVars
  <2>2. PICK target \in {Yield} \ {None} : Begin(reading, target)
    BY <1>7 DEF ReadCurve
  <2>3. /\ reading \in Temperatures
        /\ target = Evaluate(def.kind, reading) /\ target # None
    BY <2>2 DEF Yield, FilterInv
  <2>4. \A t \in Temperatures : Evaluate(def.kind, t) \in Percents
    BY <1>1, <2>3 DEF FilterSane, SaneCurve
  <2>5. flow' = [at |-> reading, target |-> target, next |-> 1]
    BY <2>2 DEF Begin
  <2>6. FlowSane'
    BY <2>1, <2>3, <2>4, <2>5 DEF FlowSane
  <2>7. HeatFollowed'
    <3>1. target \in Int
      BY <2>3, <2>4 DEF Percents
    <3> QED
      BY <2>1, <2>3, <2>5, <3>1 DEF HeatFollowed, HalfPercent
  <2>8. Tame
    BY <1>1, <2>1, UntouchedTame
  <2> QED
    BY <2>1, <2>6, <2>7, <2>8 DEF FilterInv, Tame, FilterSane
<1>8. CASE Filter
  <2>1. /\ stage = "filter" /\ stage' = "filter" /\ FilterStep
        /\ site' = site /\ reading' = reading
    BY <1>8 DEF Filter, passVars, curveVars
  <2>2. FilterKept
    BY <1>1, <2>1, FilterStepKeeps DEF FilterInv
  <2> QED
    BY <2>1, <2>2 DEF FilterInv, FilterKept, Moves, Tame, FilterSane
<1> QED
  BY <1>2, <1>3, <1>4, <1>5, <1>6, <1>7, <1>8 DEF Work

LEMMA FilterInit == Init => FilterInv
<1> SUFFICES ASSUME Init PROVE FilterInv
  OBVIOUS
<1>1. PICK d \in Here.defs :
        /\ def = Normalized(d)
        /\ runtime = Blank(Normalized(d)) /\ calm = Zeros(Normalized(d))
  BY DEF Init
<1>2. site \in DOMAIN Sites /\ reading \in Readings /\ stage # "filter"
  BY DEF Init
<1>3. SaneCurve(def) /\ Readings \subseteq Temperatures \cup {None}
  BY <1>1, <1>2, SitesAssumption, NormalizedSane DEF Readings, Here
<1>4. MemorySane
  <2>1. /\ runtime = [i \in DOMAIN def.chain |-> None]
        /\ calm = [i \in DOMAIN def.chain |-> 0]
    BY <1>1 DEF Blank, Zeros
  <2>2. 0 \in 0..MaxDelay /\ None \in Memories
    BY FilterAssumption, MemoryKinds
  <2> QED
    BY <2>1, <2>2 DEF MemorySane, Waited
<1> QED
  BY <1>2, <1>3, <1>4 DEF FilterInv, FilterSane

LEMMA FilterStutter ==
  ASSUME FilterInv, UNCHANGED vars
  PROVE  FilterInv'
  BY DEF FilterInv, FilterSane, MemorySane, SaneCurve, FlowSane, HeatFollowed, Standards,
         vars, filterVars, passVars, curveVars

LEMMA FilterInvariant == Spec => []FilterInv
<1>1. FilterInv /\ [Next]_vars => FilterInv'
  BY FilterStutter, RequestKeeps, WorkKeeps DEF Next
<1> QED
  BY <1>1, FilterInit, PTL DEF Spec

(* Heat passes every chain of functions at once: a full target unchanged,  *)
(* and any target where only falling ones are held.                        *)
THEOREM HeatCorrect == Spec => []HeatFollowed
<1>1. FilterInv => HeatFollowed
  BY DEF FilterInv, HeatFollowed
<1> QED
  BY <1>1, FilterInvariant, PTL

(* A target that is held moves only after its response time.               *)
THEOREM DelayCorrect == Spec => DelayServed
<1>1. FilterInv /\ [Next]_vars =>
        [\A i \in Standards :
           (def' = def /\ i \in DOMAIN runtime')
             => Awaited(def.chain[i], calm[i], runtime[i], runtime'[i])]_vars
  BY RequestKeeps, WorkKeeps DEF Next, Tame
<1> QED
  BY <1>1, FilterInvariant, PTL DEF Spec, DelayServed
-----------------------------------------------------------------------------
(* The fan: its ramp, its command and the pass.                            *)
RampSane ==
  /\ settings \in Settings /\ SaneFit(cal)
  /\ requested \in Duties \cup {None} /\ ramp \in Ramp \cup {None}
  /\ control \in Duties \cup {AutoDuty} /\ shown \in Shown

LEMMA RequestTyped ==
  ASSUME RampSane, NEW s \in Settings, NEW encoded \in Duties,
         RequestTarget(s, encoded)
  PROVE  /\ requested' = encoded
         /\ ramp' \in Ramp \cup {None} /\ control' \in Duties \cup {AutoDuty}
<1>1. /\ DutyToPercent(encoded) \in Int
      /\ \A p \in Int : SteadyCommand(s, cal, p) \in Duties
      /\ \A p \in Int : EffectivePercent(s, cal, p) \in Percents
      /\ \A d \in Duties : SpeedOf(cal, d) \in Percents
      /\ StartCommand(s, cal) \in Duties \cup {None}
  BY DutyTyped, CommandTyped DEF RampSane, Percents
<1>2. Target(s, encoded) \in Percents /\ Steady(s, encoded) \in Duties
  BY <1>1 DEF Target, Steady, Percents
<1>3. requested' = encoded
  BY DEF RequestTarget, Boost, Direct, Prepare
<1>4. CASE Boost(s, encoded)
  <2>1. StartCommand(s, cal) \in Duties /\ BoostTicks \in 0..BoostTicks
    BY <1>1, <1>4, RampAssumption DEF Boost, Boosted
  <2> QED
    BY <1>1, <1>2, <1>3, <1>4, <2>1 DEF Boost, Ramp
<1>5. CASE Direct(s, encoded)
  BY <1>2, <1>3, <1>5 DEF Direct
<1>6. CASE Prepare(s, encoded)
  <2>1. StartsAt(s, encoded) \in Percents
    BY <1>1, <1>2 DEF StartsAt, RampSane, Ramp, Shown
  <2>2. 0 \in 0..BoostTicks
    BY RampAssumption
  <2> QED
    BY <1>2, <1>3, <1>6, <2>1, <2>2 DEF Prepare, Ramp, RampSane
<1> QED
  BY <1>3, <1>4, <1>5, <1>6 DEF RequestTarget

LEMMA TickTyped ==
  ASSUME RampSane, NEW n \in Nat, Tick(n), shown' = shown
  PROVE  RampSane'
<1>1. /\ ramp \in Ramp /\ ramp.current \in Percents /\ ramp.target \in Percents
      /\ Rate \in Nat \cup {None} /\ Clamp(n, 0, MaxStep) \in Nat
  BY RampAssumption DEF RampSane, Tick, Ticking, Ramp, Settings, Rate, Clamp
<1>2. Advanced(n) \in Percents
  <2>1. CASE Rate = None
    BY <1>1, <2>1 DEF Advanced
  <2>2. CASE Rate \in Nat
    <3>1. Rate * Clamp(n, 0, MaxStep) \in Int
      BY <1>1, <2>2
    <3>2. \A step \in Int : \A a, b \in Percents :
            /\ b > a => Clamp(a + step, a, b) \in Percents
            /\ ~(b > a) => Clamp(a - step, b, a) \in Percents
      BY FullTyped DEF Clamp, Percents
    <3> QED
      BY <1>1, <2>2, <3>1, <3>2, NoneAssumption DEF Advanced
  <2> QED
    BY <1>1, <2>1, <2>2
<1>3. SteadyCommand(settings, cal, Advanced(n)) \in Duties
  BY <1>2, CommandTyped DEF RampSane, Percents
<1>4. /\ control' \in Duties \cup {AutoDuty}
      /\ ramp' \in Ramp \cup {None}
  BY <1>1, <1>2, <1>3 DEF Tick, RampSane, Ramp
<1> QED
  BY <1>4 DEF Tick, RampSane

(* The pass: what is counted, flagged and cached; and a poll is under way  *)
(* in one stage only.                                                      *)
PassSane ==
  /\ stage \in {"wait", "restore", "conclude", "tick", "curve", "filter", "update"}
  /\ dt \in Nat /\ idle \in 0..PollTicks
  /\ asked \in BOOLEAN /\ dirty \in BOOLEAN
  /\ wrote \in BOOLEAN /\ assigned \in BOOLEAN
  /\ cached \in Duties \cup {None}
FlowPlaced ==
  \/ flow = Idle /\ stage # "filter"
  \/ flow.next \in 1..Len(def.chain) + 1 /\ stage = "filter"
DriveInv == FilterInv /\ RampSane /\ PassSane /\ FlowPlaced

LEMMA HereTyped ==
  ASSUME FilterInv
  PROVE  /\ Here.tunings \subseteq RawSettings
         /\ \A c \in Here.cals : SaneFit(Fitted(c))
         /\ Here.targets \subseteq Duties /\ Here.ladder \subseteq Duties
         /\ Here.stalls \subseteq BOOLEAN
  BY SitesAssumption, FittedSane DEF FilterInv, Here

LEMMA ShownTyped ==
  ASSUME FilterInv, RampSane, Refreshed
  PROVE  shown' \in Shown
  BY HereTyped DEF Refreshed, RampSane, Shown

LEMMA ElapsePass ==
  ASSUME DriveInv, NEW elapsed \in Waits, Elapse(elapsed)
  PROVE  RampSane' /\ PassSane' /\ FlowPlaced'
<1>1. elapsed \in Nat
  BY PassAssumption
<1>2. dt' \in Nat
  BY <1>1 DEF Elapse, DriveInv, PassSane
<1>3. idle' \in 0..PollTicks
  <2>1. idle + elapsed \in Int /\ PollTicks \in Int /\ 0 <= PollTicks
    BY <1>1, PassAssumption DEF DriveInv, PassSane
  <2> QED
    BY <2>1, ClampTyped DEF Elapse
<1>4. ramp' \in Ramp \cup {None}
  <2>1. CASE ramp = None
    BY <2>1 DEF Elapse, RampElapse
  <2>2. CASE ramp \in Ramp
    <3>1. ramp.hold \in 0..BoostTicks
      BY <2>2 DEF Ramp
    <3>2. Clamp(ramp.hold - elapsed, 0, BoostTicks) \in 0..BoostTicks
      <4>1. /\ ramp.hold - elapsed \in Int /\ 0 \in Int
            /\ BoostTicks \in Int /\ 0 <= BoostTicks
        BY <1>1, <3>1, RampAssumption
      <4> QED
        BY <4>1, ClampTyped
    <3>3. ramp' = [ramp EXCEPT !.hold = Clamp(ramp.hold - elapsed, 0, BoostTicks)]
          \/ ramp' = None
      BY DEF Elapse, RampElapse
    <3> QED
      BY <2>2, <3>2, <3>3 DEF Ramp
  <2> QED
    BY <2>1, <2>2 DEF DriveInv, RampSane
<1>5. UNCHANGED <<stage, asked, dirty, wrote, def, flow, settings, cal, requested,
                  control, shown, assigned, cached>>
  BY DEF Elapse, curveVars
<1>6. RampSane'
  BY <1>4, <1>5 DEF DriveInv, RampSane, SaneFit
<1>7. PassSane'
  BY <1>2, <1>3, <1>5 DEF DriveInv, PassSane
<1>8. FlowPlaced'
  BY <1>5 DEF DriveInv, FlowPlaced
<1> QED
  BY <1>6, <1>7, <1>8

(* A request is received in one stage, and the pass goes on in another.    *)
LEMMA ReceivePass ==
  ASSUME DriveInv, NEW writes \in BOOLEAN, NEW due \in BOOLEAN, Receive(writes, due),
         assigned' \in BOOLEAN, cached' \in {None, cached}
  PROVE  PassSane' /\ FlowPlaced'
<1>1. /\ stage = "wait" /\ stage' = "tick" /\ asked' = TRUE
      /\ wrote' = writes /\ dirty' = due
      /\ UNCHANGED <<dt, idle, flow>>
  BY DEF Receive
<1> QED
  BY <1>1 DEF DriveInv, PassSane, FlowPlaced

LEMMA RequestRamp ==
  ASSUME RampSane, settings' \in Settings, cal' = cal, shown' = shown,
         \/ UNCHANGED <<requested, ramp, control>>
         \/ HandBack
         \/ \E s \in Settings, encoded \in Duties : RequestTarget(s, encoded)
  PROVE  RampSane'
<1>1. CASE UNCHANGED <<requested, ramp, control>>
  BY <1>1 DEF RampSane, SaneFit
<1>2. CASE HandBack
  BY <1>2 DEF HandBack, RampSane, SaneFit
<1>3. CASE \E s \in Settings, encoded \in Duties : RequestTarget(s, encoded)
  <2>1. PICK s \in Settings, encoded \in Duties : RequestTarget(s, encoded)
    BY <1>3
  <2>2. /\ requested' = encoded
        /\ ramp' \in Ramp \cup {None} /\ control' \in Duties \cup {AutoDuty}
    BY <2>1, RequestTyped
  <2> QED
    BY <2>2 DEF RampSane, SaneFit
<1> QED
  BY <1>1, <1>2, <1>3

LEMMA RequestPass ==
  ASSUME DriveInv, Request
  PROVE  RampSane' /\ PassSane' /\ FlowPlaced'
<1>0. /\ RampSane /\ FilterInv /\ settings \in Settings /\ assigned \in BOOLEAN
      /\ requested \in Duties \cup {None}
  BY DEF DriveInv, RampSane, PassSane
<1>1. ASSUME NEW encoded \in Here.targets, ByHand(encoded)
      PROVE  RampSane' /\ PassSane' /\ FlowPlaced'
  <2>1. encoded \in Duties
    BY <1>0, HereTyped
  <2>2. RampSane'
    <3>1. /\ settings' = settings /\ cal' = cal /\ shown' = shown
          /\ RequestTarget(settings, encoded)
      BY <1>1 DEF ByHand, Receive
    <3> QED
      BY <1>0, <2>1, <3>1, RequestRamp
  <2>3. /\ Receive(Writes(settings, encoded), FALSE)
        /\ assigned' = FALSE /\ cached' \in {None, cached}
    BY <1>1 DEF ByHand, OffCurve
  <2>4. Writes(settings, encoded) \in BOOLEAN
    BY DEF Writes
  <2> QED
    BY <2>2, <2>3, <2>4, ReceivePass
<1>2. CASE Automatic \/ Assign \/ Unassign
  <2>1. RampSane'
    <3>1. /\ settings' = settings /\ cal' = cal /\ shown' = shown
          /\ HandBack \/ UNCHANGED <<requested, ramp, control>>
      BY <1>2 DEF Automatic, Assign, Unassign, Receive
    <3> QED
      BY <1>0, <3>1, RequestRamp
  <2>2. /\ \E writes \in BOOLEAN, due \in BOOLEAN : Receive(writes, due)
        /\ assigned' \in BOOLEAN /\ cached' \in {None, cached}
    BY <1>0, <1>2 DEF Automatic, Assign, Unassign, OffCurve
  <2> QED
    BY <2>1, <2>2, ReceivePass
<1>3. ASSUME NEW raw \in Here.tunings, Tune(raw)
      PROVE  RampSane' /\ PassSane' /\ FlowPlaced'
  <2>1. settings' \in Settings
    <3>1. raw \in RawSettings /\ settings' = Sanitized(raw)
      BY <1>0, <1>3, HereTyped DEF Tune
    <3> QED
      BY <3>1, SanitizedTyped
  <2>2. RampSane'
    <3>1. /\ cal' = cal /\ shown' = shown
          /\ \/ UNCHANGED <<requested, ramp, control>>
             \/ requested # None /\ RequestTarget(settings', requested)
      BY <1>3 DEF Tune, Receive
    <3> QED
      BY <1>0, <2>1, <3>1, RequestRamp
  <2>3. /\ Receive(requested # None /\ Writes(settings', requested), FALSE)
        /\ assigned' = assigned /\ cached' = cached
    BY <1>3 DEF Tune
  <2> QED
    BY <1>0, <2>2, <2>3, ReceivePass
<1>4. ASSUME NEW d, Edit(d)
      PROVE  RampSane' /\ PassSane' /\ FlowPlaced'
  <2>1. RampSane'
    <3>1. /\ settings' = settings /\ cal' = cal /\ shown' = shown
          /\ UNCHANGED <<requested, ramp, control>>
      BY <1>4 DEF Edit, Receive
    <3> QED
      BY <1>0, <3>1, RequestRamp
  <2>2. Receive(FALSE, TRUE) /\ assigned' = assigned /\ cached' = None
    BY <1>4 DEF Edit
  <2> QED
    BY <1>0, <2>1, <2>2, ReceivePass
<1>5. ASSUME NEW d, NEW duty \in Here.ladder, Calibrate(d, duty)
      PROVE  RampSane' /\ PassSane' /\ FlowPlaced'
  <2>1. /\ stage = "wait" /\ stage' = "restore" /\ asked' = TRUE
        /\ ramp' = None /\ control' = duty /\ duty \in Duties
        /\ UNCHANGED <<dt, idle, dirty, wrote, flow, settings, cal, requested,
                       shown, assigned, cached>>
    BY <1>0, <1>5, HereTyped DEF Calibrate, curveVars
  <2>2. RampSane'
    BY <2>1 DEF DriveInv, RampSane, SaneFit
  <2>3. PassSane' /\ FlowPlaced'
    BY <2>1 DEF DriveInv, PassSane, FlowPlaced
  <2> QED
    BY <2>2, <2>3
<1> QED
  BY <1>1, <1>2, <1>3, <1>4, <1>5 DEF Request

LEMMA WorkPass ==
  ASSUME DriveInv, Work
  PROVE  RampSane' /\ PassSane' /\ FlowPlaced'
<1>0. /\ RampSane /\ FilterInv /\ settings \in Settings /\ PassSane /\ FlowPlaced
      /\ requested \in Duties \cup {None} /\ shown \in Shown /\ dt \in Nat
  BY DEF DriveInv, RampSane, PassSane
<1>1. CASE \E elapsed \in Waits : Elapse(elapsed)
  BY <1>1, ElapsePass
<1>2. CASE Quiet \/ NoTick \/ NoCurve
  <2>1. /\ UNCHANGED <<settings, cal, requested, ramp, control, shown>>
        /\ UNCHANGED <<dt, idle, asked, dirty, wrote, assigned, cached, flow, def>>
        /\ stage # "filter" /\ stage' \in {"tick", "curve", "update"}
    BY <1>2 DEF Quiet, NoTick, NoCurve, AfterTick, rampVars, filterVars, curveVars
  <2>2. RampSane'
    BY <1>0, <2>1 DEF RampSane, SaneFit
  <2>3. PassSane' /\ FlowPlaced'
    BY <1>0, <2>1 DEF PassSane, FlowPlaced
  <2> QED
    BY <2>2, <2>3
<1>3. CASE Restore
  <2>1. /\ UNCHANGED <<dt, idle, asked, dirty, wrote, flow, def, settings, cal, shown,
                       assigned, cached>>
        /\ stage = "restore" /\ stage' = "conclude"
    BY <1>3 DEF Restore, filterVars, curveVars
  <2>2. HandBack \/ \E encoded \in Duties : RequestTarget(settings, encoded)
    BY <1>0, <1>3 DEF Restore, Shown
  <2>3. RampSane'
    BY <1>0, <2>1, <2>2, RequestRamp
  <2>4. PassSane' /\ FlowPlaced'
    BY <1>0, <2>1 DEF PassSane, FlowPlaced
  <2> QED
    BY <2>3, <2>4
<1>4. ASSUME NEW measured \in Here.cals, Conclude(measured)
      PROVE  RampSane' /\ PassSane' /\ FlowPlaced'
  <2>1. /\ UNCHANGED <<dt, asked, dirty, wrote, flow, def, settings, requested, ramp,
                       control, assigned, cached>>
        /\ stage = "conclude" /\ stage' = "tick" /\ idle' = 0
        /\ cal' = Fitted(measured) /\ SaneFit(Fitted(measured)) /\ shown' \in Shown
    BY <1>0, <1>4, HereTyped, ShownTyped DEF Conclude, filterVars
  <2>2. RampSane'
    BY <1>0, <2>1 DEF RampSane, SaneFit
  <2>3. 0 \in 0..PollTicks
    BY PassAssumption
  <2>4. PassSane' /\ FlowPlaced'
    BY <1>0, <2>1, <2>3 DEF PassSane, FlowPlaced
  <2> QED
    BY <2>2, <2>4
<1>5. CASE TickRamp
  <2>1. /\ UNCHANGED <<dt, idle, asked, dirty, flow, def, shown, assigned, cached>>
        /\ Tick(dt) /\ stage = "tick" /\ stage' \in {"curve", "update"}
        /\ wrote' = (wrote \/ TickWrites(dt))
    BY <1>5 DEF TickRamp, AfterTick, filterVars, curveVars
  <2>2. RampSane'
    BY <1>0, <2>1, TickTyped
  <2>3. wrote' \in BOOLEAN
    BY <2>1
  <2>4. PassSane' /\ FlowPlaced'
    BY <1>0, <2>1, <2>3 DEF PassSane, FlowPlaced
  <2> QED
    BY <2>2, <2>4
<1>6. CASE ReadCurve
  <2>1. /\ UNCHANGED <<settings, cal, requested, ramp, control, shown>>
        /\ UNCHANGED <<dt, idle, asked, dirty, wrote, assigned, cached, def>>
        /\ stage' = "filter" /\ flow'.next = 1
    BY <1>6 DEF ReadCurve, Begin, rampVars, curveVars
  <2>2. RampSane'
    BY <1>0, <2>1 DEF RampSane, SaneFit
  <2>3. Len(def.chain) \in Nat
    BY <1>0 DEF FilterInv, FilterSane, SaneCurve
  <2>4. PassSane' /\ FlowPlaced'
    BY <1>0, <2>1, <2>3 DEF PassSane, FlowPlaced
  <2> QED
    BY <2>2, <2>4
<1>7. CASE Filter
  <2>1. /\ UNCHANGED <<settings, cal, requested, ramp, control, shown>>
        /\ UNCHANGED <<dt, idle, asked, dirty, wrote, assigned, cached>>
        /\ stage = "filter" /\ stage' = "filter" /\ FilterStep
    BY <1>7 DEF Filter, passVars, rampVars, curveVars
  <2>2. InChain /\ flow'.next = flow.next + 1 /\ def' = def
    <3>1. InChain /\ \E at, out, memory : Leave(at, out, memory)
      <4>1. CASE Pass
        BY <4>1 DEF Pass, At
      <4>2. CASE Remember
        BY <4>2 DEF Remember, At, TakeOver
      <4>3. CASE Follow
        BY <4>3 DEF Follow, Holding, At, TakeOver
      <4>4. CASE HoldTarget
        BY <4>4 DEF HoldTarget, Holding, At
      <4>5. CASE HoldWithin
        BY <4>5 DEF HoldWithin, Holding, At
      <4>6. CASE FollowLate
        BY <4>6 DEF FollowLate, Holding, At, TakeOver
      <4>7. CASE HoldPending
        BY <4>7 DEF HoldPending, Holding, At
      <4>8. CASE \E value \in Temperatures : Smoothe(value)
        BY <4>8 DEF Smoothe, At
      <4> QED
        BY <2>1, <4>1, <4>2, <4>3, <4>4, <4>5, <4>6, <4>7, <4>8 DEF FilterStep
    <3> QED
      BY <3>1 DEF Leave
  <2>3. RampSane'
    BY <1>0, <2>1 DEF RampSane, SaneFit
  <2>4. Len(def.chain) \in Nat /\ DOMAIN def.chain = 1..Len(def.chain)
    BY <1>0 DEF FilterInv, FilterSane, SaneCurve
  <2>5. flow'.next \in 1..Len(def'.chain) + 1
    BY <2>2, <2>4 DEF InChain
  <2>6. PassSane' /\ FlowPlaced'
    BY <1>0, <2>1, <2>5 DEF PassSane, FlowPlaced
  <2> QED
    BY <2>3, <2>6
<1>8. CASE Drive
  <2> DEFINE encoded == PercentToDuty(flow.target)
             command == Steady(settings, encoded)
  <2>1. /\ stage = "filter" /\ stage' = "update" /\ flow' = Idle
        /\ UNCHANGED <<dt, idle, asked, dirty, def, settings, cal, shown, assigned>>
        /\ cached' = command
        /\ \/ RequestTarget(settings, encoded)
           \/ requested' = encoded /\ UNCHANGED <<ramp, control>>
        /\ wrote' \in {wrote, wrote \/ Writes(settings, encoded)}
    BY <1>8 DEF Drive
  <2>2. encoded \in Duties /\ command \in Duties
    <3>1. flow.target \in Int
      BY <1>0, <2>1 DEF FilterInv, FlowSane, Percents
    <3>2. encoded \in Duties
      BY <3>1, DutyTyped
    <3>3. Target(settings, encoded) \in Int
      BY <1>0, <3>2, DutyTyped, CommandTyped DEF Target, RampSane, Percents
    <3> QED
      BY <1>0, <3>2, <3>3, CommandTyped DEF Steady, RampSane
  <2> HIDE DEF encoded, command
  <2>3. RampSane'
    <3>1. CASE RequestTarget(settings, encoded)
      BY <1>0, <2>1, <2>2, <3>1, RequestRamp
    <3>2. CASE requested' = encoded /\ UNCHANGED <<ramp, control>>
      BY <1>0, <2>1, <2>2, <3>2 DEF RampSane, SaneFit
    <3> QED
      BY <2>1, <3>1, <3>2
  <2>4. wrote' \in BOOLEAN
    BY <1>0, <2>1 DEF PassSane
  <2>5. PassSane' /\ FlowPlaced'
    BY <1>0, <2>1, <2>2, <2>4 DEF PassSane, FlowPlaced
  <2> QED
    BY <2>3, <2>5
<1>9. CASE Update
  <2>1. /\ UNCHANGED <<flow, def, settings, cal, requested, ramp, control, assigned,
                       cached>>
        /\ stage = "update" /\ stage' = "wait" /\ dt' = 0
        /\ idle' \in {0, idle}
        /\ asked' = FALSE /\ dirty' = FALSE /\ wrote' = FALSE
        /\ Refreshed \/ shown' = shown
    BY <1>9 DEF Update, filterVars
  <2>2. RampSane'
    <3>1. shown' \in Shown
      BY <1>0, <2>1, ShownTyped
    <3> QED
      BY <1>0, <2>1, <3>1 DEF RampSane, SaneFit
  <2>3. 0 \in 0..PollTicks
    BY PassAssumption
  <2>4. PassSane' /\ FlowPlaced'
    BY <1>0, <2>1, <2>3 DEF PassSane, FlowPlaced
  <2> QED
    BY <2>2, <2>4
<1> QED
  BY <1>1, <1>2, <1>3, <1>4, <1>5, <1>6, <1>7, <1>8, <1>9 DEF Work

LEMMA DriveTypes ==
  ASSUME DriveInv
  PROVE  TypeOK
<1>1. /\ def.chain \in Seq({Identity} \cup Standard \cup Ema)
      /\ DOMAIN def.chain \subseteq DOMAIN runtime
      /\ DOMAIN calm = DOMAIN runtime
      /\ \A i \in DOMAIN runtime : runtime[i] \in Memories /\ calm[i] \in 0..MaxDelay
  BY DEF DriveInv, FilterInv, FilterSane, SaneCurve, MemorySane
<1>2. \A i \in DOMAIN def.chain :
        /\ def.chain[i] \in {Identity} \cup Standard \cup Ema
        /\ i \in DOMAIN runtime /\ i \in DOMAIN calm
  BY <1>1
<1>3. \/ flow = Idle /\ stage # "filter"
      \/ /\ flow.at \in Temperatures /\ flow.target \in Percents
         /\ flow.next \in 1..Len(def.chain) + 1 /\ stage = "filter"
  BY DEF DriveInv, FlowPlaced, FilterInv, FlowSane
<1> QED
  BY <1>1, <1>2, <1>3 DEF DriveInv, FilterInv, RampSane, PassSane, TypeOK, Memories

LEMMA DriveInvariant == Spec => []DriveInv
<1>1. Init => RampSane /\ PassSane /\ FlowPlaced
  <2> SUFFICES ASSUME Init PROVE RampSane /\ PassSane /\ FlowPlaced
    OBVIOUS
  <2>1. settings \in Settings
    <3>1. PICK s \in Here.tunings : settings = Sanitized(s)
      BY DEF Init
    <3> QED
      BY FilterInit, <3>1, HereTyped, SanitizedTyped
  <2>2. SaneFit(cal)
    <3>1. PICK c \in Here.cals : cal = Fitted(c)
      BY DEF Init
    <3> QED
      BY FilterInit, <3>1, HereTyped
  <2>3. RampSane
    BY <2>1, <2>2 DEF Init, RampSane, Shown
  <2>4. 0 \in 0..PollTicks
    BY PassAssumption
  <2>5. PassSane /\ FlowPlaced
    BY <2>4 DEF Init, PassSane, FlowPlaced
  <2> QED
    BY <2>3, <2>5
<1>2. DriveInv /\ [Next]_vars => DriveInv'
  <2> SUFFICES ASSUME DriveInv, [Next]_vars PROVE DriveInv'
    OBVIOUS
  <2>1. CASE UNCHANGED vars
    <3>1. FilterInv'
      BY <2>1, FilterStutter DEF DriveInv
    <3>2. RampSane' /\ PassSane' /\ FlowPlaced'
      BY <2>1 DEF DriveInv, RampSane, SaneFit, PassSane, FlowPlaced, vars,
                  filterVars, rampVars, passVars, curveVars
    <3> QED
      BY <3>1, <3>2 DEF DriveInv
  <2>2. CASE Request
    BY <2>2, RequestKeeps, RequestPass DEF DriveInv
  <2>3. CASE Work
    BY <2>3, WorkKeeps, WorkPass DEF DriveInv
  <2> QED
    BY <2>1, <2>2, <2>3 DEF Next
<1>3. Init => DriveInv
  BY <1>1, FilterInit DEF DriveInv
<1> QED
  BY <1>2, <1>3, PTL DEF Spec

(* Whatever is requested, tuned, measured and read, every command in the   *)
(* hardware is a duty, every ramp runs between percentages, and every      *)
(* memory of a chain is of a function of its kind.                         *)
THEOREM DriveTyped == Spec => []TypeOK
  BY DriveInvariant, DriveTypes, PTL

-----------------------------------------------------------------------------
(* Ramps.                                                                  *)

(* More speed never takes less command: neither by a calibration, whatever *)
(* its dips, nor by the scale of duties, nor where the fan would stop.     *)
LEMMA CommandRises ==
  ASSUME NEW fit, SaneFit(fit), NEW s \in Settings,
         NEW p \in Int, NEW q \in Int, p <= q
  PROVE  SteadyCommand(s, fit, p) <= SteadyCommand(s, fit, q)
<1> DEFINE Command(x) == IF Invertible(fit) THEN CommandForSpeed(fit, x)
                                            ELSE PercentToDuty(x)
<1>1. /\ Clamp(p, 0, Full) \in Int /\ Clamp(q, 0, Full) \in Int
      /\ Clamp(p, 0, Full) <= Clamp(q, 0, Full)
  BY FullTyped DEF Clamp
<1>2. Command(p) <= Command(q) /\ Command(p) \in Duties /\ Command(q) \in Duties
  <2>1. CASE Invertible(fit)
    <3> DEFINE speeds == fit.speeds
               flipped == Flipped(speeds)
               n == Len(speeds)
    <3>1. /\ n \in Nat /\ n >= 2 /\ DOMAIN speeds = 1..n
          /\ \A i \in 1..n : speeds[i][1] \in Int /\ speeds[i][2] \in Int
          /\ \A i, j \in 1..n : i <= j => speeds[i][1] <= speeds[j][1]
      <4>1. speeds \in Seq(Duties \X Int) /\ InOrderOf(speeds) /\ n >= 2
        BY <2>1 DEF SaneFit, Invertible
      <4> HIDE DEF speeds
      <4>2. n \in Nat /\ DOMAIN speeds = 1..n /\ \A i \in 1..n : speeds[i] \in Duties \X Int
        BY <4>1
      <4>3. \A d \in Duties \X Int : d[1] \in Int /\ d[2] \in Int
        BY DEF Duties
      <4> QED
        BY <4>1, <4>2, <4>3 DEF InOrderOf
    <3>2. /\ flipped = [i \in 1..n |-> <<speeds[i][2], speeds[i][1]>>]
      BY <3>1 DEF Flipped
    <3> HIDE DEF speeds, flipped, n
    <3>3. /\ flipped \in Seq(Int \X Int) /\ Len(flipped) = n
      BY <3>1, <3>2
    <3>4. flipped # <<>> /\ \A i, j \in 1..Len(flipped) :
                              i <= j => flipped[i][2] <= flipped[j][2]
      <4>1. \A i \in 1..n : flipped[i][2] = speeds[i][1]
        BY <3>2
      <4>2. flipped # <<>>
        BY <3>1, <3>3
      <4> QED
        BY <3>1, <3>3, <4>1, <4>2
    <3>5. Height(flipped, Clamp(p, 0, Full)) <= Height(flipped, Clamp(q, 0, Full))
      BY <1>1, <3>3, <3>4, HeightRises
    <3> QED
      BY <2>1, <3>5, FitTyped DEF CommandForSpeed, flipped, speeds
  <2>2. CASE ~Invertible(fit)
    <3>1. Rounded(Clamp(p, 0, Full), 200) <= Rounded(Clamp(q, 0, Full), 200)
      BY <1>1, RoundedRises
    <3> QED
      BY <2>2, <3>1, DutyTyped DEF PercentToDuty
  <2> QED
    BY <2>1, <2>2
<1>3. /\ SteadyCommand(s, fit, p) =
           IF StopCommand(s, fit) # None /\ Command(p) <= StopCommand(s, fit)
           THEN 0 ELSE Command(p)
      /\ SteadyCommand(s, fit, q) =
           IF StopCommand(s, fit) # None /\ Command(q) <= StopCommand(s, fit)
           THEN 0 ELSE Command(q)
  BY DEF SteadyCommand
<1>4. StopCommand(s, fit) \in Duties \cup {None}
  BY CommandTyped
<1> DEFINE low == Command(p)
           high == Command(q)
           stop == StopCommand(s, fit)
<1>5. low \in Nat /\ high \in Nat /\ low <= high /\ stop \in Nat \cup {None}
  BY <1>2, <1>4 DEF Duties
<1> HIDE DEF low, high, stop
<1>6. (IF stop # None /\ low <= stop THEN 0 ELSE low)
        <= (IF stop # None /\ high <= stop THEN 0 ELSE high)
  BY <1>5
<1> QED
  BY <1>3, <1>6 DEF low, high, stop

(* A tick goes from where the ramp is towards its target, and no further.  *)
LEMMA AdvancedWithin ==
  ASSUME RampSane, ramp \in Ramp, NEW n \in Nat
  PROVE  \/ ramp.current <= Advanced(n) /\ Advanced(n) <= ramp.target
         \/ ramp.target <= Advanced(n) /\ Advanced(n) <= ramp.current
<1>1. /\ ramp.current \in Int /\ ramp.target \in Int
      /\ Rate \in Nat \cup {None} /\ Clamp(n, 0, MaxStep) \in Nat
  BY RampAssumption DEF RampSane, Ramp, Percents, Settings, Rate, Clamp
<1>2. CASE Rate = None
  BY <1>1, <1>2 DEF Advanced
<1>3. CASE Rate \in Nat
  <2> DEFINE step == Rate * Clamp(n, 0, MaxStep)
  <2>1. step \in Int
    BY <1>1, <1>3
  <2>2. Advanced(n) = IF ramp.target > ramp.current
                      THEN Clamp(ramp.current + step, ramp.current, ramp.target)
                      ELSE Clamp(ramp.current - step, ramp.target, ramp.current)
    BY <1>3, NoneAssumption DEF Advanced
  <2> HIDE DEF step
  <2> QED
    BY <1>1, <2>1, <2>2 DEF Clamp
<1> QED
  BY <1>1, <1>2, <1>3

LEMMA TickTowards ==
  ASSUME RampSane, NEW n \in Nat, Tick(n),
         control = SteadyCommand(settings, cal, ramp.current)
  PROVE  LET end == SteadyCommand(settings, cal, ramp.target)
         IN \/ control <= control' /\ control' <= end
            \/ end <= control' /\ control' <= control
<1> DEFINE Command(p) == SteadyCommand(settings, cal, p)
           now == Advanced(n)
<1>1. ramp \in Ramp /\ SaneFit(cal) /\ settings \in Settings
  BY DEF RampSane, Tick, Ticking
<1>2. /\ ramp.current \in Int /\ ramp.target \in Int /\ now \in Int
      /\ \/ ramp.current <= now /\ now <= ramp.target
         \/ ramp.target <= now /\ now <= ramp.current
  <2>1. /\ ramp.current \in Int /\ ramp.target \in Int
        /\ Rate \in Nat \cup {None} /\ Clamp(n, 0, MaxStep) \in Nat
    BY <1>1, RampAssumption DEF Ramp, Percents, Settings, Rate, Clamp
  <2>2. now \in Int
    <3>1. CASE Rate = None
      BY <2>1, <3>1 DEF Advanced
    <3>2. CASE Rate \in Nat
      <4>1. Rate * Clamp(n, 0, MaxStep) \in Int
        BY <2>1, <3>2
      <4> QED
        BY <2>1, <3>2, <4>1, NoneAssumption DEF Advanced, Clamp
    <3> QED
      BY <2>1, <3>1, <3>2
  <2> QED
    BY <1>1, <2>1, <2>2, AdvancedWithin
<1> HIDE DEF now
<1>3. /\ Command(ramp.current) \in Duties /\ Command(ramp.target) \in Duties
      /\ Command(now) \in Duties
  BY <1>1, <1>2, CommandTyped
<1>4. /\ ramp.current <= now => Command(ramp.current) <= Command(now)
      /\ now <= ramp.current => Command(now) <= Command(ramp.current)
      /\ ramp.target <= now => Command(ramp.target) <= Command(now)
      /\ now <= ramp.target => Command(now) <= Command(ramp.target)
  BY <1>1, <1>2, CommandRises
<1>5. control' \in {control, Command(now)} /\ control = Command(ramp.current)
  BY DEF Tick, now
<1> DEFINE begin == Command(ramp.current)
           end == Command(ramp.target)
           value == Command(now)
<1>6. /\ begin \in Int /\ end \in Int /\ value \in Int
      /\ control = begin /\ control' \in {begin, value}
      /\ \/ begin <= value /\ value <= end
         \/ end <= value /\ value <= begin
  BY <1>2, <1>3, <1>4, <1>5 DEF Duties
<1> HIDE DEF begin, end, value
<1>7. \/ control <= control' /\ control' <= end
      \/ end <= control' /\ control' <= control
  BY <1>6
<1> QED
  BY <1>7 DEF end

(* Wherever a ramp takes a fan that is at its command, it does so towards  *)
(* the command its target ends at and never past it (`tick_ramps`), for    *)
(* any calibration that may be measured: the inverse the code takes by     *)
(* the first segment to reach a speed rises with the speed.                *)
THEOREM TowardsCorrect == Spec => RampTowards
<1>1. ASSUME DriveInv, TickRamp, control = SteadyCommand(settings, cal, ramp.current)
      PROVE  LET end == SteadyCommand(settings, cal, ramp.target)
             IN \/ control <= control' /\ control' <= end
                \/ end <= control' /\ control' <= control
  <2>1. RampSane /\ dt \in Nat /\ Tick(dt)
    BY <1>1 DEF DriveInv, PassSane, TickRamp
  <2> QED
    BY <1>1, <2>1, TickTowards
<1>2. DriveInv /\ [Next]_vars =>
        [(TickRamp /\ control = SteadyCommand(settings, cal, ramp.current))
          => LET end == SteadyCommand(settings, cal, ramp.target)
             IN \/ control <= control' /\ control' <= end
                \/ end <= control' /\ control' <= control]_vars
  BY <1>1
<1> QED
  BY <1>2, DriveInvariant, PTL DEF Spec, RampTowards

(* What a ramp last wrote stays what the fan stands at: a request begins a *)
(* ramp that wrote what the fan gets, or nothing, or it ends the ramp; a   *)
(* tick leaves the two equal, having written or not.                       *)
LEMMA RequestWrites ==
  ASSUME NEW s, NEW encoded, RequestTarget(s, encoded)
  PROVE  RampWritten'
<1>1. CASE Boost(s, encoded)
  BY <1>1 DEF Boost, RampWritten
<1>2. CASE Direct(s, encoded)
  BY <1>2 DEF Direct, RampWritten
<1>3. CASE Prepare(s, encoded)
  BY <1>3 DEF Prepare, RampWritten
<1> QED
  BY <1>1, <1>2, <1>3 DEF RequestTarget

LEMMA TickKeepsWritten ==
  ASSUME RampSane, RampWritten, NEW n \in Nat, Tick(n)
  PROVE  RampWritten'
<1> DEFINE now == Advanced(n)
           value == SteadyCommand(settings, cal, now)
<1>1. ramp \in Ramp /\ ramp # None
  BY DEF RampSane, Tick, Ticking
<1>2. /\ control' = IF ramp.last # value THEN value ELSE control
      /\ ramp' = IF now = ramp.target THEN None
                 ELSE [ramp EXCEPT !.current = now, !.last = value]
  BY DEF Tick
<1> HIDE DEF now, value
<1>3. CASE now = ramp.target
  BY <1>2, <1>3 DEF RampWritten
<1>4. CASE now # ramp.target
  <2>1. ramp'.last = value
    BY <1>1, <1>2, <1>4 DEF Ramp
  <2>2. value # None => control' = value
    BY <1>1, <1>2 DEF RampWritten
  <2> QED
    BY <2>1, <2>2 DEF RampWritten
<1> QED
  BY <1>3, <1>4

LEMMA WrittenKept ==
  ASSUME DriveInv, RampWritten, [Next]_vars
  PROVE  RampWritten'
<1>1. CASE UNCHANGED <<ramp, control>> \/ ramp' = None
  BY <1>1 DEF RampWritten
<1>2. CASE \E s, encoded : RequestTarget(s, encoded)
  BY <1>2, RequestWrites
<1>3. CASE \E elapsed \in Waits : Elapse(elapsed)
  <2>1. PICK elapsed \in Waits : Elapse(elapsed)
    BY <1>3
  <2>2. /\ control' = control
        /\ ramp' = IF ramp = None THEN None
                   ELSE [ramp EXCEPT !.hold = Clamp(@ - elapsed, 0, BoostTicks)]
    BY <2>1 DEF Elapse, RampElapse
  <2>3. ramp # None => ramp \in Ramp
    BY DEF DriveInv, RampSane
  <2>4. ramp # None => ramp'.last = ramp.last
    BY <2>2, <2>3 DEF Ramp
  <2> QED
    BY <2>2, <2>4 DEF RampWritten
<1>4. CASE TickRamp
  <2>1. RampSane /\ dt \in Nat /\ Tick(dt)
    BY <1>4 DEF DriveInv, PassSane, TickRamp
  <2> QED
    BY <2>1, TickKeepsWritten
<1>5. CASE Request
  <2>1. \/ UNCHANGED <<ramp, control>> \/ ramp' = None
        \/ \E s, encoded : RequestTarget(s, encoded)
    <3>1. ASSUME NEW encoded, ByHand(encoded)
          PROVE  RequestTarget(settings, encoded)
      BY <3>1 DEF ByHand
    <3>2. CASE Automatic
      BY <3>2 DEF Automatic, HandBack
    <3>3. CASE Assign \/ Unassign
      BY <3>3 DEF Assign, Unassign, HandBack
    <3>4. ASSUME NEW raw, Tune(raw)
          PROVE  UNCHANGED <<ramp, control>> \/ RequestTarget(settings', requested)
      BY <3>4 DEF Tune
    <3>5. ASSUME NEW d, Edit(d)
          PROVE  UNCHANGED <<ramp, control>>
      BY <3>5 DEF Edit
    <3>6. ASSUME NEW d, NEW duty, Calibrate(d, duty)
          PROVE  ramp' = None
      BY <3>6 DEF Calibrate
    <3> QED
      BY <1>5, <3>1, <3>2, <3>3, <3>4, <3>5, <3>6 DEF Request
  <2> QED
    BY <1>1, <1>2, <2>1
<1>6. CASE Work
  <2>1. CASE Quiet \/ NoTick \/ NoCurve \/ ReadCurve \/ Filter \/ Update
             \/ \E measured \in Here.cals : Conclude(measured)
    <3>1. UNCHANGED <<ramp, control>>
      BY <2>1 DEF Quiet, NoTick, NoCurve, ReadCurve, Filter, Update, Conclude, rampVars
    <3> QED
      BY <1>1, <3>1
  <2>2. CASE Restore
    <3>1. ramp' = None \/ \E encoded : RequestTarget(settings, encoded)
      BY <2>2 DEF Restore, HandBack
    <3> QED
      BY <1>1, <1>2, <3>1
  <2>3. CASE Drive
    <3>1. \/ UNCHANGED <<ramp, control>>
          \/ \E encoded : RequestTarget(settings, encoded)
      BY <2>3 DEF Drive
    <3> QED
      BY <1>1, <1>2, <3>1
  <2> QED
    BY <1>3, <1>4, <1>6, <2>1, <2>2, <2>3 DEF Work
<1>7. CASE UNCHANGED vars
  BY <1>1, <1>7 DEF vars, rampVars
<1> QED
  BY <1>5, <1>6, <1>7 DEF Next

(* A tick that skips its write because the ramp last wrote that command    *)
(* (`last_written`) skips nothing the fan lacks, through every boost,      *)
(* request, tuning and calibration in between.                             *)
THEOREM WrittenCorrect == Spec => []RampWritten
<1>1. Init => RampWritten
  BY DEF Init, RampWritten
<1> QED
  BY <1>1, WrittenKept, DriveInvariant, PTL DEF Spec
=============================================================================
