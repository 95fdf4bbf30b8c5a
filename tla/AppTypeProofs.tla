---------------------------- MODULE AppTypeProofs ----------------------------
(* What the window edits and the service is sent, under every handler: the *)
(* window and the service hold only definitions as they are evaluated, a   *)
(* dragged point is one of its curve's, and fans are asked only what fans  *)
(* can be asked.                                                           *)
EXTENDS AppWindowProofs, SequenceTheorems

-----------------------------------------------------------------------------
(* Normalizing twice is normalizing.                                       *)

(* What lies between the bounds is left alone.                             *)
LEMMA ClampStays ==
  ASSUME NEW lo \in Int, NEW hi \in Int, NEW x \in lo..hi
  PROVE  Clamp(x, lo, hi) = x
  BY DEF Clamp

(* Settings a client sends are settings once sanitized, and stay so.       *)
LEMMA SettingsStay ==
  ASSUME NEW s \in RawSettings
  PROVE  /\ Sanitized(s) \in RawSettings /\ Sanitized(Sanitized(s)) = Sanitized(s)
         /\ DOMAIN s = {"up", "down", "start", "stop", "offset", "minimum"}
<1> DEFINE Percent(v) == IF v = None THEN None ELSE Clamp(v, 0, Full)
           Rate(v) == IF v = None \/ v <= 0 THEN None ELSE Clamp(v, 0, Full \div 4)
           Built(t) == [up |-> Rate(t.up), down |-> Rate(t.down),
                        start |-> Percent(t.start), stop |-> Percent(t.stop),
                        offset |-> Clamp(t.offset, -Full, Full),
                        minimum |-> Clamp(t.minimum, 0, Full)]
<1>1. \A t : Sanitized(t) = Built(t)
  BY DEF Sanitized
<1>2. /\ {s.up, s.down, s.start, s.stop} \subseteq Int \cup {None}
      /\ s.offset \in Int /\ s.minimum \in Int
      /\ DOMAIN s = {"up", "down", "start", "stop", "offset", "minimum"}
  BY DEF RawSettings
<1>3. ASSUME NEW v \in Int \cup {None}
      PROVE  /\ Percent(v) \in Int \cup {None} /\ Percent(Percent(v)) = Percent(v)
             /\ Rate(v) \in Int \cup {None} /\ Rate(Rate(v)) = Rate(v)
  BY NoneAssumption DEF Clamp, Full
<1>4. ASSUME NEW v \in Int
      PROVE  /\ Clamp(v, -Full, Full) \in Int /\ Clamp(v, 0, Full) \in Int
             /\ Clamp(Clamp(v, -Full, Full), -Full, Full) = Clamp(v, -Full, Full)
             /\ Clamp(Clamp(v, 0, Full), 0, Full) = Clamp(v, 0, Full)
  BY DEF Clamp, Full
<1> HIDE DEF Percent, Rate
<1>5. Built(s) \in RawSettings
  BY <1>2, <1>3, <1>4 DEF RawSettings
<1>6. Built(Built(s)) = Built(s)
  BY <1>2, <1>3, <1>4
<1> HIDE DEF Built
<1> QED
  BY <1>1, <1>2, <1>5, <1>6

(* The points a graph is read from.                                        *)
LEMMA GraphStays ==
  ASSUME NEW points \in Seq(Int \X Int)
  PROVE  GraphPoints(GraphPoints(points)) = GraphPoints(points)
<1> DEFINE q == GraphPoints(points)
           n == Len(q)
           sane == [i \in DOMAIN q |-> SanePoint(q[i])]
<1>1. q \in Seq(Temperatures \X Percents) /\ InOrderOf(q)
  BY GraphTyped
<1> HIDE DEF q
<1>2. /\ n \in Nat /\ DOMAIN q = 1..n /\ q = [k \in 1..n |-> q[k]]
      /\ \A i \in 1..n : q[i] \in Temperatures \X Percents
  BY <1>1
<1>3. ASSUME NEW p \in Temperatures \X Percents
      PROVE  SanePoint(p) = p
  <2>1. p[1] \in Temperatures /\ p[2] \in Percents /\ p = <<p[1], p[2]>>
    OBVIOUS
  <2>2. /\ p[1] \in Coldest..Hottest /\ p[2] \in 0..Full
        /\ Coldest \in Int /\ Hottest \in Int /\ 0 \in Int /\ Full \in Int
    BY <2>1, TemperaturesAssumption, FullTyped DEF Temperatures, Percents
  <2> QED
    BY <2>1, <2>2, ClampStays DEF SanePoint
<1>4. sane = q
  BY <1>2, <1>3
<1>5. Listing(q, n)
  BY <1>2, TemperaturesAssumption DEF Listing, Temperatures
<1> HIDE DEF n
<1>6. Sorted(q) = q
  BY <1>1, <1>2, <1>5, SortedStays
<1>7. GraphPoints(q) = Sorted(sane)
  BY DEF GraphPoints
<1> HIDE DEF sane
<1> QED
  BY <1>4, <1>6, <1>7 DEF q

(* The ends a line is read between.                                        *)
LEMMA LinearStays ==
  ASSUME NEW p \in Int \X Int, NEW q \in Int \X Int
  PROVE  LET ends == LinearPoints(p, q)
         IN /\ ends[1] \in Temperatures \X Percents /\ ends[2] \in Temperatures \X Percents
            /\ LinearPoints(ends[1], ends[2]) = ends
<1> DEFINE ends == LinearPoints(p, q)
<1>1. /\ ends \in Seq(Temperatures \X Percents) /\ Len(ends) = 2
      /\ ends[1][1] + MinSpan <= ends[2][1]
  BY LinearTyped
<1>2. PICK a, b : ends = <<a, b>>
  BY Zenon DEF LinearPoints, InOrder, Apart
<1> HIDE DEF ends
<1>3. /\ a \in Temperatures \X Percents /\ b \in Temperatures \X Percents
      /\ a[1] + MinSpan <= b[1]
  BY <1>1, <1>2
<1>4. /\ a[1] \in Coldest..Hottest /\ b[1] \in Coldest..Hottest
      /\ a[2] \in 0..Full /\ b[2] \in 0..Full /\ a = <<a[1], a[2]>> /\ b = <<b[1], b[2]>>
      /\ Coldest \in Int /\ Hottest \in Int /\ MinSpan \in Nat \ {0} /\ Full \in Int /\ 0 \in Int
  <2>1. /\ a[1] \in Temperatures /\ b[1] \in Temperatures /\ a[2] \in Percents /\ b[2] \in Percents
        /\ a = <<a[1], a[2]>> /\ b = <<b[1], b[2]>>
    BY <1>3
  <2> QED
    BY <2>1, TemperaturesAssumption, FullTyped DEF Temperatures, Percents
<1>5. SanePoint(a) = a /\ SanePoint(b) = b
  BY <1>4, ClampStays DEF SanePoint
<1>6. ~(b[1] < a[1]) /\ ~(b[1] - a[1] < MinSpan) /\ ~(a[1] > b[1] - MinSpan)
  BY <1>3, <1>4
<1>7. LinearPoints(a, b) = <<a, b>>
  BY <1>4, <1>5, <1>6 DEF LinearPoints, InOrder, Apart
<1> QED
  BY <1>2, <1>3, <1>7 DEF ends

(* The kind of a curve, ...                                                *)
LEMMA KindStays ==
  ASSUME NEW kind \in RawKinds
  PROVE  /\ SaneKind(kind) \in RawKinds /\ SaneKind(kind).kind = kind.kind
         /\ SaneKind(SaneKind(kind)) = SaneKind(kind)
         /\ kind.kind = "graph" => SaneKind(kind).points \in Seq(Temperatures \X Percents)
<1>0. /\ Coldest \in Int /\ Hottest \in Int /\ Coldest <= Hottest
      /\ Temperatures \subseteq Int /\ Percents \subseteq Int
  BY TemperaturesAssumption DEF Temperatures, Percents
<1>00. \A x \in Int : Clamp(x, Coldest, Hottest) \in Coldest..Hottest /\ Clamp(x, 0, Full) \in 0..Full
  BY <1>0, FullTyped DEF Clamp
<1>1. CASE kind \in [kind: {"graph"}, points: Seq(Int \X Int)]
  <2> DEFINE q == GraphPoints(kind.points)
  <2>1. kind.kind = "graph" /\ kind.points \in Seq(Int \X Int) /\ DOMAIN kind = {"kind", "points"}
    BY <1>1
  <2>2. q \in Seq(Temperatures \X Percents) /\ GraphPoints(q) = q
    BY <2>1, GraphTyped, GraphStays
  <2>3. Seq(Temperatures \X Percents) \subseteq Seq(Int \X Int)
    <3>1. (Temperatures \X Percents) \subseteq Int \X Int
      BY <1>0
    <3> QED
      BY <3>1
  <2>4. SaneKind(kind) = [kind |-> "graph", points |-> q]
    BY <2>1 DEF SaneKind
  <2> HIDE DEF q
  <2>5. SaneKind([kind |-> "graph", points |-> q]) = [kind |-> "graph", points |-> GraphPoints(q)]
    BY DEF SaneKind
  <2>6. q \in Seq(Int \X Int)
    BY <2>2, <2>3
  <2>7. [kind |-> "graph", points |-> q] \in RawKinds
    BY <2>6 DEF RawKinds
  <2> QED
    BY <2>1, <2>2, <2>4, <2>5, <2>7
<1>2. CASE kind \in [kind: {"linear"}, start: Int \X Int, end: Int \X Int]
  <2> DEFINE ends == LinearPoints(kind.start, kind.end)
             a == ends[1]
             b == ends[2]
  <2>1. /\ kind.kind = "linear" /\ DOMAIN kind = {"kind", "start", "end"}
        /\ kind.start \in Int \X Int /\ kind.end \in Int \X Int
    BY <1>2
  <2>2. /\ a \in Temperatures \X Percents /\ b \in Temperatures \X Percents
        /\ LinearPoints(a, b) = ends
    BY <2>1, LinearStays
  <2>3. SaneKind(kind) = [kind |-> "linear", start |-> a, end |-> b]
    BY <2>1 DEF SaneKind
  <2> HIDE DEF a, b
  <2>4. SaneKind([kind |-> "linear", start |-> a, end |-> b])
          = [kind |-> "linear", start |-> LinearPoints(a, b)[1], end |-> LinearPoints(a, b)[2]]
    BY DEF SaneKind
  <2>5. a \in Int \X Int /\ b \in Int \X Int
    BY <1>0, <2>2
  <2>6. [kind |-> "linear", start |-> a, end |-> b] \in RawKinds
    BY <2>5 DEF RawKinds
  <2>7. LinearPoints(a, b)[1] = a /\ LinearPoints(a, b)[2] = b
    BY <2>2 DEF a, b
  <2> QED
    BY <2>1, <2>3, <2>4, <2>6, <2>7
<1>3. CASE kind \in [kind: {"trigger"}, threshold: Int, before: Int, after: Int]
  <2> DEFINE t == Clamp(kind.threshold, Coldest, Hottest)
             a == Clamp(kind.before, 0, Full)
             b == Clamp(kind.after, 0, Full)
  <2>1. /\ kind.kind = "trigger" /\ DOMAIN kind = {"kind", "threshold", "before", "after"}
        /\ kind.threshold \in Int /\ kind.before \in Int /\ kind.after \in Int
    BY <1>3
  <2>2. t \in Coldest..Hottest /\ a \in 0..Full /\ b \in 0..Full
    BY <1>00, <2>1
  <2>3. SaneKind(kind) = [kind |-> "trigger", threshold |-> t, before |-> a, after |-> b]
    BY <2>1 DEF SaneKind
  <2> HIDE DEF t, a, b
  <2>4. SaneKind([kind |-> "trigger", threshold |-> t, before |-> a, after |-> b])
          = [kind |-> "trigger", threshold |-> Clamp(t, Coldest, Hottest),
             before |-> Clamp(a, 0, Full), after |-> Clamp(b, 0, Full)]
    BY DEF SaneKind
  <2>5. Clamp(t, Coldest, Hottest) = t /\ Clamp(a, 0, Full) = a /\ Clamp(b, 0, Full) = b
    BY <1>0, <2>2, ClampStays, FullTyped
  <2>6. [kind |-> "trigger", threshold |-> t, before |-> a, after |-> b] \in RawKinds
    BY <1>0, <2>2, FullTyped DEF RawKinds
  <2> QED
    BY <2>1, <2>3, <2>4, <2>5, <2>6
<1> QED
  BY <1>1, <1>2, <1>3 DEF RawKinds

(* ... its functions ...                                                   *)
LEMMA FunctionStays ==
  ASSUME NEW f \in RawFunctions
  PROVE  /\ SaneFunction(f) \in RawFunctions /\ SaneFunction(SaneFunction(f)) = SaneFunction(f)
         /\ f.fn = "standard" <=> f \in RawStandard
         /\ SaneFunction(f).fn = f.fn
<1>0. MaxDegrees \in Nat /\ MaxDelay \in Nat /\ 0 \in Int /\ 1 \in Int /\ 100 \in Int
  BY EditorAssumption
<1>00. \A x \in Int : /\ Clamp(x, 0, MaxDegrees) \in 0..MaxDegrees
                      /\ Clamp(x, 0, MaxDelay) \in 0..MaxDelay /\ Clamp(x, 1, 100) \in 1..100
  BY <1>0 DEF Clamp
<1>1. CASE f \in [fn: {"identity"}]
  BY <1>1 DEF SaneFunction, RawFunctions, RawStandard
<1>2. CASE f \in RawStandard
  <2> DEFINE a == Clamp(f.degrees, 0, MaxDegrees)
             b == Clamp(f.delay, 0, MaxDelay)
  <2>1. /\ f.fn = "standard" /\ DOMAIN f = {"fn", "degrees", "delay", "downward"}
        /\ f.degrees \in Int /\ f.delay \in Int /\ f.downward \in BOOLEAN
    BY <1>2 DEF RawStandard
  <2>2. a \in 0..MaxDegrees /\ b \in 0..MaxDelay
    BY <1>00, <2>1
  <2>3. SaneFunction(f)
          = [fn |-> "standard", degrees |-> a, delay |-> b, downward |-> f.downward]
    BY <2>1 DEF SaneFunction
  <2> HIDE DEF a, b
  <2>4. SaneFunction([fn |-> "standard", degrees |-> a, delay |-> b, downward |-> f.downward])
          = [fn |-> "standard", degrees |-> Clamp(a, 0, MaxDegrees),
             delay |-> Clamp(b, 0, MaxDelay), downward |-> f.downward]
    BY DEF SaneFunction
  <2>5. Clamp(a, 0, MaxDegrees) = a /\ Clamp(b, 0, MaxDelay) = b
    BY <1>0, <2>2, ClampStays
  <2>6. [fn |-> "standard", degrees |-> a, delay |-> b, downward |-> f.downward] \in RawStandard
    BY <1>0, <2>1, <2>2 DEF RawStandard
  <2> QED
    BY <1>2, <2>1, <2>3, <2>4, <2>5, <2>6 DEF RawFunctions
<1>3. CASE f \in [fn: {"ema"}, alpha: Int]
  <2> DEFINE a == Clamp(f.alpha, 1, 100)
  <2>1. f.fn = "ema" /\ DOMAIN f = {"fn", "alpha"} /\ f.alpha \in Int
    BY <1>3
  <2>2. a \in 1..100
    BY <1>00, <2>1
  <2>3. SaneFunction(f) = [fn |-> "ema", alpha |-> a]
    BY <2>1 DEF SaneFunction
  <2> HIDE DEF a
  <2>4. SaneFunction([fn |-> "ema", alpha |-> a]) = [fn |-> "ema", alpha |-> Clamp(a, 1, 100)]
    BY DEF SaneFunction
  <2>5. Clamp(a, 1, 100) = a
    BY <1>0, <2>2, ClampStays
  <2>6. [fn |-> "ema", alpha |-> a] \in RawFunctions
    BY <2>2 DEF RawFunctions
  <2>7. f \notin RawStandard
    BY <2>1 DEF RawStandard
  <2> QED
    BY <2>1, <2>3, <2>4, <2>5, <2>6, <2>7
<1> QED
  BY <1>1, <1>2, <1>3 DEF RawFunctions
(* ... one of which a definition always has ...                            *)
LEMMA FunctionsStay ==
  ASSUME NEW def, IsDef(def)
  PROVE  LET fns == SaneFunctions(def)
         IN /\ fns \in Seq(RawFunctions) /\ fns # <<>> /\ fns[1] \in RawFunctions
            /\ \A d : d.functions = fns => SaneFunctions(d) = fns
            /\ fns[1].fn = "standard" => fns[1] \in RawStandard
<1> DEFINE raw == IF def.functions = <<>> THEN <<def.hysteresis>> ELSE def.functions
           fns == SaneFunctions(def)
<1>1. raw \in Seq(RawFunctions) /\ raw # <<>>
  <2>1. def.hysteresis \in RawFunctions /\ def.functions \in Seq(RawFunctions)
    BY DEF IsDef, RawFunctions
  <2>2. <<def.hysteresis>> \in Seq(RawFunctions) /\ <<def.hysteresis>> # <<>>
    BY <2>1
  <2> QED
    BY <2>1, <2>2
<1>2. fns = [i \in DOMAIN raw |-> SaneFunction(raw[i])]
  BY Zenon DEF SaneFunctions
<1> HIDE DEF raw, fns
<1>3. PICK n \in Nat : n # 0 /\ DOMAIN raw = 1..n /\ \A i \in 1..n : raw[i] \in RawFunctions
  <2>1. Len(raw) \in Nat /\ Len(raw) # 0 /\ DOMAIN raw = 1..Len(raw)
        /\ \A i \in 1..Len(raw) : raw[i] \in RawFunctions
    BY <1>1
  <2> QED
    BY <2>1
<1>4. /\ fns = [i \in 1..n |-> fns[i]] /\ DOMAIN fns = 1..n
      /\ \A i \in 1..n : fns[i] = SaneFunction(raw[i])
  BY <1>2, <1>3
<1>5. \A i \in 1..n : fns[i] \in RawFunctions /\ SaneFunction(fns[i]) = fns[i]
  BY <1>3, <1>4, FunctionStays
<1>6. fns \in Seq(RawFunctions) /\ fns # <<>> /\ 1 \in 1..n
  <2>1. [i \in 1..n |-> fns[i]] \in Seq(RawFunctions) /\ 1 \in 1..n
    BY <1>3, <1>5
  <2>2. fns \in Seq(RawFunctions)
    BY <1>4, <2>1, Zenon
  <2> QED
    BY <1>4, <2>1, <2>2
<1>7. ASSUME NEW d, d.functions = fns
      PROVE  SaneFunctions(d) = fns
  <2>1. SaneFunctions(d) = [i \in DOMAIN fns |-> SaneFunction(fns[i])]
    BY <1>6, <1>7 DEF SaneFunctions
  <2> QED
    BY <1>4, <1>5, <2>1
<1>8. fns[1].fn = "standard" => fns[1] \in RawStandard
  BY <1>5, <1>6, FunctionStays
<1> QED
  BY <1>5, <1>6, <1>7, <1>8 DEF fns

(* ... and its window.                                                     *)
LEMMA SpreadStays ==
  ASSUME NEW lo \in Int, NEW hi \in Int, NEW span \in Nat \ {0}, lo + span <= hi,
         NEW a \in Int, NEW b \in Int
  PROVE  LET ends == Spread(a, b, lo, hi, span)
         IN /\ ends = <<ends[1], ends[2]>> /\ ends[1] \in lo..hi /\ ends[2] \in lo..hi
            /\ ends[1] + span <= ends[2] /\ Spread(ends[1], ends[2], lo, hi, span) = ends
<1>1. ASSUME NEW least \in lo..hi, NEW most \in lo..hi, least <= most
      PROVE  \E l, t \in lo..hi : Separate(least, most, lo, hi, span) = <<l, t>> /\ l + span <= t
  <2> DEFINE top == IF most - least < span THEN Clamp(least + span, lo, hi) ELSE most
             low == IF top - span < least THEN top - span ELSE least
  <2>1. Separate(least, most, lo, hi, span) = <<low, top>>
    BY DEF Separate
  <2>2. top \in lo..hi /\ top - span >= lo
    BY <1>1 DEF Clamp
  <2> HIDE DEF top
  <2>3. low \in lo..hi /\ low + span <= top
    BY <2>2
  <2> HIDE DEF low
  <2> QED
    BY <2>1, <2>2, <2>3
<1>2. Clamp(a, lo, hi) \in lo..hi /\ Clamp(b, lo, hi) \in lo..hi
  BY DEF Clamp
<1>3. \E l, t \in lo..hi : Spread(a, b, lo, hi, span) = <<l, t>> /\ l + span <= t
  <2> DEFINE p == Clamp(a, lo, hi)
             q == Clamp(b, lo, hi)
  <2>1. Spread(a, b, lo, hi, span) = IF q < p THEN Separate(q, p, lo, hi, span)
                                     ELSE Separate(p, q, lo, hi, span)
    BY DEF Spread
  <2> HIDE DEF p, q
  <2>2. p \in lo..hi /\ q \in lo..hi /\ (q < p \/ p <= q)
    BY <1>2 DEF p, q
  <2>3. CASE q < p
    <3>1. q <= p
      BY <2>2, <2>3
    <3> QED
      BY <1>1, <2>1, <2>2, <2>3, <3>1
  <2>4. CASE ~(q < p)
    <3>1. p <= q
      BY <2>2, <2>4
    <3> QED
      BY <1>1, <2>1, <2>2, <2>4, <3>1
  <2> QED
    BY <2>3, <2>4
<1>4. ASSUME NEW l \in lo..hi, NEW t \in lo..hi, l + span <= t
      PROVE  Spread(l, t, lo, hi, span) = <<l, t>>
  <2>1. Clamp(l, lo, hi) = l /\ Clamp(t, lo, hi) = t
    BY ClampStays
  <2>2. ~(t < l) /\ ~(t - l < span) /\ ~(t - span < l)
    BY <1>4
  <2> QED
    BY <2>1, <2>2 DEF Spread, Separate
<1> QED
  BY <1>3, <1>4

(* Of what the plot shows of the plane.                                    *)
LEMMA WindowStays ==
  ASSUME NEW w \in RawWindows
  PROVE  /\ SaneWindow(w) \in RawWindows /\ SaneWindow(SaneWindow(w)) = SaneWindow(w)
         /\ SaneWindow(w).low \in Percents /\ SaneWindow(w).high \in Percents
         /\ SaneWindow(w).low <= SaneWindow(w).high
<1>1. /\ Coldest \in Int /\ Hottest \in Int /\ TempSpan \in Nat \ {0}
      /\ Coldest + TempSpan <= Hottest /\ 0 + DutySpan <= Full
      /\ Full \in Int /\ 0 \in Int /\ DutySpan \in Nat \ {0}
      /\ w.left \in Int /\ w.right \in Int /\ w.low \in Int /\ w.high \in Int
  BY TemperaturesAssumption, EditorAssumption, FullTyped DEF RawWindows
<1> DEFINE temps == Spread(w.left, w.right, Coldest, Hottest, TempSpan)
           duties == Spread(w.low, w.high, 0, Full, DutySpan)
           l == temps[1]
           t == temps[2]
           m == duties[1]
           h == duties[2]
<1>2. /\ l \in Coldest..Hottest /\ t \in Coldest..Hottest
      /\ Spread(l, t, Coldest, Hottest, TempSpan) = temps
  BY <1>1, SpreadStays
<1>3. /\ m \in 0..Full /\ h \in 0..Full /\ m + DutySpan <= h
      /\ Spread(m, h, 0, Full, DutySpan) = duties
  <2>1. ASSUME NEW lo \in Int, lo = 0
        PROVE  LET ends == Spread(w.low, w.high, lo, Full, DutySpan)
               IN /\ ends[1] \in lo..Full /\ ends[2] \in lo..Full /\ ends[1] + DutySpan <= ends[2]
                  /\ Spread(ends[1], ends[2], lo, Full, DutySpan) = ends
    <3>1. lo + DutySpan <= Full
      BY <1>1, <2>1
    <3>2. /\ w.low \in Int /\ w.high \in Int /\ Full \in Int
          /\ DutySpan \in Nat \ {0}
      BY <1>1
    <3> HIDE DEF temps, duties, l, t, m, h
    <3> QED
      BY <2>1, <3>1, <3>2, SpreadStays
  <2> QED
    BY <1>1, <2>1, Zenon
<1>4. SaneWindow(w) = [left |-> l, right |-> t, low |-> m, high |-> h]
  BY <1>2, <1>3 DEF SaneWindow
<1>5. SaneWindow([left |-> l, right |-> t, low |-> m, high |-> h])
        = [left |-> l, right |-> t, low |-> m, high |-> h]
  BY <1>2, <1>3 DEF SaneWindow
<1> HIDE DEF l, t, m, h
<1>6. l \in Int /\ t \in Int /\ m \in Percents /\ h \in Percents /\ m \in Int /\ h \in Int /\ m <= h
  BY <1>1, <1>2, <1>3 DEF Percents
<1> QED
  BY <1>4, <1>5, <1>6 DEF RawWindows

(* A definition as it is evaluated is evaluated as it is.                  *)
Sane(def) == IsDef(def) /\ NormalizedDef(def) = def

(* Normalizing makes a definition one that is evaluated as it is.          *)
LEMMA NormalizedStays ==
  ASSUME NEW def, IsDef(def)
  PROVE  Sane(NormalizedDef(def))
<1> DEFINE fns == SaneFunctions(def)
           hyst == IF fns[1].fn = "standard" THEN fns[1] ELSE def.hysteresis
           win == SaneWindow(def.window)
           kind == SaneKind(def.kind)
           n == [source |-> def.source, functions |-> fns, hysteresis |-> hyst,
                 window |-> win, kind |-> kind]
<1>1. /\ DOMAIN def = {"source", "functions", "hysteresis", "window", "kind"}
      /\ def.window \in RawWindows /\ def.kind \in RawKinds /\ def.hysteresis \in RawStandard
  BY DEF IsDef
<1>2. NormalizedDef(def) = n
  <2>1. NormalizedDef(def)
          = [def EXCEPT !.functions = fns,
                        !.hysteresis = IF fns[1].fn = "standard" THEN fns[1] ELSE @,
                        !.window = SaneWindow(@), !.kind = SaneKind(@)]
    BY DEF NormalizedDef
  <2> HIDE DEF fns
  <2> QED
    BY <1>1, <2>1
<1>3. /\ fns \in Seq(RawFunctions) /\ \A d : d.functions = fns => SaneFunctions(d) = fns
      /\ hyst \in RawStandard
  BY <1>1, FunctionsStay
<1>4. win \in RawWindows /\ SaneWindow(win) = win /\ kind \in RawKinds /\ SaneKind(kind) = kind
  BY <1>1, WindowStays, KindStays
<1> HIDE DEF fns, win, kind
<1>5. hyst = IF fns[1].fn = "standard" THEN fns[1] ELSE hyst
  OBVIOUS
<1> HIDE DEF hyst
<1>6. IsDef(n)
  BY <1>3, <1>4 DEF IsDef
<1>7. /\ DOMAIN n = {"source", "functions", "hysteresis", "window", "kind"}
      /\ SaneFunctions(n) = fns
      /\ n.source = def.source /\ n.hysteresis = hyst /\ n.window = win /\ n.kind = kind
      /\ n.functions = fns
  BY <1>3
<1>8. NormalizedDef(n) = n
  <2> DEFINE m == NormalizedDef(n)
  <2>1. m = [n EXCEPT !.functions = fns,
                      !.hysteresis = IF fns[1].fn = "standard" THEN fns[1] ELSE @,
                      !.window = SaneWindow(@), !.kind = SaneKind(@)]
    BY <1>7 DEF NormalizedDef
  <2>2. m = [source |-> def.source, functions |-> fns,
             hysteresis |-> IF fns[1].fn = "standard" THEN fns[1] ELSE hyst,
             window |-> SaneWindow(win), kind |-> SaneKind(kind)]
    BY <2>1
  <2> HIDE DEF m
  <2>3. m = n
    BY <1>4, <1>5, <2>2
  <2> QED
    BY <2>3 DEF m
<1> QED
  BY <1>2, <1>6, <1>8 DEF Sane

(* What is written of a definition is one.                                 *)
LEMMA WrittenTyped ==
  ASSUME NEW def, IsDef(def)
  PROVE  IsDef(Written(def))
<1>1. /\ DOMAIN def = {"source", "functions", "hysteresis", "window", "kind"}
      /\ def.window \in RawWindows /\ def.kind \in RawKinds
  BY DEF IsDef
<1>2. /\ SaneFunctions(def) \in Seq(RawFunctions)
      /\ SaneWindow(def.window) \in RawWindows /\ SaneKind(def.kind) \in RawKinds
  BY <1>1, FunctionsStay, WindowStays, KindStays
<1>3. Hysteresis \in RawStandard
  BY DEF Hysteresis, RawStandard
<1>4. Written(def) = [source |-> def.source, functions |-> SaneFunctions(def),
                      hysteresis |-> Hysteresis, window |-> SaneWindow(def.window),
                      kind |-> SaneKind(def.kind)]
  <2> DEFINE fns == SaneFunctions(def)
  <2>1. Written(def) = [def EXCEPT !.functions = fns, !.hysteresis = Hysteresis,
                                   !.window = SaneWindow(@), !.kind = SaneKind(@)]
    BY DEF Written
  <2> HIDE DEF fns
  <2>2. Written(def) = [source |-> def.source, functions |-> fns, hysteresis |-> Hysteresis,
                        window |-> SaneWindow(def.window), kind |-> SaneKind(def.kind)]
    BY <1>1, <2>1
  <2> QED
    BY <2>2 DEF fns
<1> QED
  BY <1>2, <1>3, <1>4 DEF IsDef

-----------------------------------------------------------------------------
(* Under the mouse.                                                        *)

(* Sequences of points of a graph that is drawn.                           *)
Drawn == Seq(Int \X Percents)

(* A member of a sequence taken away or put in.                            *)
LEMMA SeqEdits ==
  ASSUME NEW S, NEW s \in Seq(S)
  PROVE  /\ \A i \in 1..Len(s) : RemoveAt(s, i) \in Seq(S)
         /\ \A i \in 1..(Len(s) + 1), x \in S :
              InsertAt(s, i, x) \in Seq(S) /\ Len(InsertAt(s, i, x)) = Len(s) + 1
         /\ \A i \in 1..Len(s), x \in S : [s EXCEPT ![i] = x] \in Seq(S)
         /\ \A x \in S : Append(s, x) \in Seq(S)
<1> DEFINE n == Len(s)
<1>1. n \in Nat /\ \A i \in 1..n : s[i] \in S
  OBVIOUS
<1> HIDE DEF n
<1>2. ASSUME NEW i \in 1..n
      PROVE  RemoveAt(s, i) \in Seq(S)
  <2>1. SubSeq(s, 1, i - 1) \in Seq(S)
    <3>1. i - 1 \in Int /\ 1 \in Int /\ \A j \in 1..(i - 1) : s[j] \in S
      BY <1>1
    <3> QED
      BY <3>1, SubSeqProperties
  <2>2. SubSeq(s, i + 1, n) \in Seq(S)
    <3>1. i + 1 \in Int /\ n \in Int /\ \A j \in (i + 1)..n : s[j] \in S
      BY <1>1
    <3> QED
      BY <3>1, SubSeqProperties
  <2>3. SubSeq(s, 1, i - 1) \o SubSeq(s, i + 1, n) \in Seq(S)
    BY <2>1, <2>2, ConcatProperties
  <2> QED
    BY <2>3 DEF RemoveAt, n
<1>3. ASSUME NEW i \in 1..(n + 1), NEW x \in S
      PROVE  InsertAt(s, i, x) \in Seq(S) /\ Len(InsertAt(s, i, x)) = n + 1
  <2> DEFINE front == SubSeq(s, 1, i - 1)
             back == SubSeq(s, i, n)
  <2>1. front \in Seq(S) /\ Len(front) = i - 1
    <3>1. i - 1 \in Int /\ 1 \in Int /\ \A j \in 1..(i - 1) : s[j] \in S
      BY <1>1
    <3>2. front \in Seq(S) /\ Len(front) = IF 1 <= i - 1 THEN (i - 1) - 1 + 1 ELSE 0
      BY <3>1, SubSeqProperties
    <3> HIDE DEF front
    <3> QED
      BY <1>1, <3>2
  <2>2. back \in Seq(S) /\ Len(back) = n + 1 - i
    <3>1. i \in Int /\ n \in Int /\ \A j \in i..n : s[j] \in S
      BY <1>1
    <3>2. back \in Seq(S) /\ Len(back) = IF i <= n THEN n - i + 1 ELSE 0
      BY <3>1, SubSeqProperties
    <3> HIDE DEF back
    <3> QED
      BY <1>1, <3>2
  <2>3. <<x>> \in Seq(S) /\ Len(<<x>>) = 1
    OBVIOUS
  <2>4. InsertAt(s, i, x) = (front \o <<x>>) \o back
    BY DEF InsertAt, n
  <2> HIDE DEF front, back
  <2>5. front \o <<x>> \in Seq(S) /\ Len(front \o <<x>>) = i
    BY <1>1, <2>1, <2>3, ConcatProperties
  <2> DEFINE before == front \o <<x>>
  <2>6. before \o back \in Seq(S) /\ Len(before \o back) = i + (n + 1 - i)
    <3>1. before \in Seq(S) /\ Len(before) = i
      BY <2>5
    <3> HIDE DEF before
    <3> QED
      BY <2>2, <3>1, ConcatProperties
  <2>7. i + (n + 1 - i) = n + 1
    BY <1>1
  <2> HIDE DEF before
  <2>8. InsertAt(s, i, x) = before \o back
    BY <2>4 DEF before
  <2> QED
    BY <2>6, <2>7, <2>8
<1>4. ASSUME NEW i \in 1..n, NEW x \in S
      PROVE  [s EXCEPT ![i] = x] \in Seq(S)
  BY ExceptSeq DEF n
<1>5. ASSUME NEW x \in S
      PROVE  Append(s, x) \in Seq(S)
  OBVIOUS
<1> QED
  BY <1>2, <1>3, <1>4, <1>5 DEF n

(* What the cursor stands for is a temperature and a percentage.           *)
LEMMA PlotTyped ==
  ASSUME NEW w \in RawWindows, NEW cursor \in Int \X Int
  PROVE  PlotValue(SaneWindow(w), cursor) \in Int \X Percents
<1> DEFINE window == SaneWindow(w)
           at == Shown(window, cursor)
<1>1. /\ window.left \in Int /\ window.right \in Int
      /\ window.low \in Percents /\ window.high \in Percents
  BY WindowStays DEF RawWindows
<1> HIDE DEF window
<1>2. at[1] \in Int /\ at[2] \in Percents
  BY <1>1, FullTyped DEF Shown, Clamp, Percents
<1> HIDE DEF at
<1>3. Whole(at[1], 2 * MinSpan) \in Int
  <2>1. 2 * MinSpan \in Nat \ {0}
    BY TemperaturesAssumption
  <2> DEFINE d == 2 * MinSpan
             q == (2 * at[1] + d) \div (2 * d)
  <2>2. d \in Nat \ {0}
    BY <2>1
  <2> HIDE DEF d
  <2>3. 2 * d \in Nat \ {0} /\ 2 * at[1] + d \in Int
    BY <1>2, <2>2
  <2>4. q \in Int
    BY <2>3, Quotient
  <2> HIDE DEF q
  <2>5. d * q \in Int
    BY <2>2, <2>4
  <2> QED
    BY <2>5 DEF Whole, Rounded, d, q
<1>4. Whole(at[2], 510) \in Percents
  <2> DEFINE y == at[2]
             r == Rounded(y, 510)
  <2>1. y \in Int /\ 0 <= y /\ y <= Full
    BY <1>2, FullTyped DEF Percents
  <2> HIDE DEF y
  <2>2. ASSUME NEW lo \in Int, NEW hi \in Int, NEW d \in Nat \ {0}, lo = 0, hi = 100, d = 510
        PROVE  r \in lo..hi
    <3>1. lo * d <= y /\ y <= hi * d
      BY <2>1, <2>2 DEF Full
    <3>2. Rounded(y, d) \in lo..hi
      BY <2>1, <3>1, RoundedWithin
    <3> QED
      BY <2>2, <3>2
  <2>3. r \in 0..100
    BY <2>2
  <2> HIDE DEF r
  <2>4. 510 * r \in Int /\ 0 <= 510 * r /\ 510 * r <= 51000
    BY <2>3
  <2> DEFINE z == 510 * r
  <2> HIDE DEF z
  <2>5. z \in Int /\ 0 <= z /\ z <= Full
    BY <2>4 DEF Full, z
  <2>6. z \in Percents
    BY <2>5, FullTyped DEF Percents
  <2> QED
    BY <2>6 DEF Whole, z, r, y
<1>5. PlotValue(window, cursor) = <<Whole(at[1], 2 * MinSpan), Whole(at[2], 510)>>
  BY DEF PlotValue, at
<1> QED
  BY <1>3, <1>4, <1>5 DEF window

(* Points that come down to one and rise to it.                            *)
LEMMA MonotonicTyped ==
  ASSUME NEW points \in Drawn, NEW i \in DOMAIN points
  PROVE  EnforceMonotonic(points, i) \in Drawn /\ Len(EnforceMonotonic(points, i)) = Len(points)
<1> DEFINE n == Len(points)
           Heights(from, to) == {points[k][2] : k \in from..to}
           height == [j \in 1..n |-> IF j < i THEN Min(Heights(j, i)) ELSE Max(Heights(i, j))]
           new == [j \in 1..n |-> <<points[j][1], height[j]>>]
<1>1. n \in Nat /\ DOMAIN points = 1..n /\ \A k \in 1..n : points[k] \in Int \X Percents
  BY DEF Drawn
<1>2. i \in 1..n
  BY <1>1
<1>3. EnforceMonotonic(points, i) = new
  BY <1>1 DEF EnforceMonotonic
<1> HIDE DEF n
<1>4. Full \in Nat /\ Percents = 0..Full /\ Percents \subseteq Nat
  BY FullTyped DEF Percents
<1>5. ASSUME NEW j \in 1..n
      PROVE  height[j] \in Percents
  <2>1. ASSUME NEW from \in 1..n, NEW to \in 1..n, from <= to
        PROVE  /\ Heights(from, to) \in SUBSET Percents /\ Heights(from, to) # {}
    <3>1. \A k \in from..to : points[k][2] \in Percents
      BY <1>1
    <3>2. from \in from..to
      BY <1>1, <2>1
    <3> QED
      BY <3>1, <3>2
  <2>2. CASE j < i
    <3> DEFINE S == Heights(j, i)
    <3>1. S \in SUBSET Percents /\ S # {}
      BY <1>2, <2>1, <2>2
    <3>2. height[j] = Min(S)
      BY <2>2
    <3> HIDE DEF S
    <3>3. S \in SUBSET Nat
      BY <1>4, <3>1
    <3> QED
      BY <3>1, <3>2, <3>3, MinIn
  <2>3. CASE ~(j < i)
    <3> DEFINE S == Heights(i, j)
    <3>1. i <= j
      BY <1>1, <1>2, <2>3
    <3>2. S \in SUBSET Percents /\ S # {}
      BY <1>2, <2>1, <3>1
    <3>3. height[j] = Max(S)
      BY <2>3
    <3> HIDE DEF S
    <3>4. S \in SUBSET (0..Full)
      BY <1>4, <3>2
    <3> QED
      BY <1>4, <3>2, <3>3, <3>4, MaxIn
  <2> QED
    BY <2>2, <2>3
<1> HIDE DEF height
<1>6. \A j \in 1..n : <<points[j][1], height[j]>> \in Int \X Percents
  BY <1>1, <1>5
<1>7. new \in Drawn /\ Len(new) = n
  BY <1>1, <1>6 DEF Drawn
<1> QED
  BY <1>3, <1>7 DEF n

(* A point is put in where it belongs, ...                                 *)
LEMMA InsertTyped ==
  ASSUME NEW points \in Drawn, NEW at \in Int \X Percents
  PROVE  /\ InsertPoint(points, at) \in Drawn
         /\ InsertPlace(points, at) \in DOMAIN InsertPoint(points, at)
         /\ InsertPlace(points, at) # 0
<1> DEFINE n == Len(points)
           i == InsertPlace(points, at)
           Later == {k \in 1..n : points[k][1] > at[1]}
           more == InsertAt(points, i, at)
<1>1. n \in Nat
  BY DEF Drawn
<1>2. i \in 1..(n + 1)
  <2>1. SelectInSeq(points, LAMBDA p : p[1] > at[1]) = IF Later # {} THEN Min(Later) ELSE 0
    BY DEF SelectInSeq
  <2>2. Later \in SUBSET Nat /\ \A k \in Later : k \in 1..n
    BY <1>1
  <2> HIDE DEF Later
  <2>3. Later # {} => Min(Later) \in 1..n
    BY <2>2, MinIn
  <2>4. i = IF SelectInSeq(points, LAMBDA p : p[1] > at[1]) = 0 THEN n + 1
            ELSE SelectInSeq(points, LAMBDA p : p[1] > at[1])
    BY DEF InsertPlace
  <2> HIDE DEF i
  <2> QED
    BY <1>1, <2>1, <2>3, <2>4
<1> HIDE DEF i
<1>3. more \in Drawn /\ Len(more) = n + 1
  BY <1>2, SeqEdits DEF Drawn
<1>4. InsertPoint(points, at) = EnforceMonotonic(more, i)
  BY DEF InsertPoint, i
<1> HIDE DEF more
<1>5. i \in DOMAIN more
  BY <1>2, <1>3 DEF Drawn
<1>6. EnforceMonotonic(more, i) \in Drawn /\ Len(EnforceMonotonic(more, i)) = n + 1
  BY <1>3, <1>5, MonotonicTyped
<1>7. i \in DOMAIN EnforceMonotonic(more, i) /\ i # 0
  BY <1>1, <1>2, <1>6 DEF Drawn
<1> QED
  BY <1>4, <1>6, <1>7 DEF i

(* ... and one that is dragged stays in its place.                         *)
LEMMA DragTyped ==
  ASSUME NEW points \in Drawn, NEW i \in DOMAIN points, NEW window \in RawWindows,
         NEW at \in Int \X Percents
  PROVE  /\ DragPoint(points, i, window, at) \in Drawn
         /\ i \in DOMAIN DragPoint(points, i, window, at)
<1> DEFINE n == Len(points)
           lo == IF i > 1 THEN points[i - 1][1] + MinSpan ELSE window.left
           hi == IF i < Len(points) THEN points[i + 1][1] - MinSpan ELSE window.right
           temp == Clamp(at[1], lo, Larger(lo, hi))
           moved == [points EXCEPT ![i] = <<temp, at[2]>>]
<1>1. n \in Nat /\ DOMAIN points = 1..n /\ \A k \in 1..n : points[k][1] \in Int
  BY DEF Drawn
<1>2. lo \in Int /\ hi \in Int
  <2>1. /\ window.left \in Int /\ window.right \in Int /\ MinSpan \in Int /\ i \in 1..n
    BY <1>1, TemperaturesAssumption DEF RawWindows
  <2>2. i > 1 => i - 1 \in 1..n
    BY <1>1, <2>1
  <2>3. i < n => i + 1 \in 1..n
    BY <1>1, <2>1
  <2> QED
    BY <1>1, <2>1, <2>2, <2>3
<1> HIDE DEF lo, hi, n
<1>3. temp \in Int
  BY <1>2 DEF Clamp, Larger
<1> HIDE DEF temp
<1>4. <<temp, at[2]>> \in Int \X Percents
  BY <1>3
<1>5. moved \in Drawn /\ Len(moved) = n
  BY <1>1, <1>4, ExceptSeq DEF Drawn, n
<1>6. DragPoint(points, i, window, at) = EnforceMonotonic(moved, i)
  BY DEF DragPoint, temp, lo, hi
<1> HIDE DEF moved
<1>7. i \in DOMAIN moved
  BY <1>1, <1>5 DEF Drawn
<1>8. EnforceMonotonic(moved, i) \in Drawn /\ Len(EnforceMonotonic(moved, i)) = n
  BY <1>5, <1>7, MonotonicTyped
<1> QED
  BY <1>1, <1>6, <1>8 DEF Drawn

-----------------------------------------------------------------------------
(* In the side panel.                                                      *)

(* A kind, field by field.                                                 *)
LEMMA KindParts ==
  ASSUME NEW kind \in RawKinds
  PROVE  /\ kind.kind \in {"graph", "linear", "trigger"}
         /\ kind.kind = "graph" =>
              kind = [kind |-> "graph", points |-> kind.points] /\ kind.points \in Seq(Int \X Int)
         /\ kind.kind = "linear" =>
              /\ kind = [kind |-> "linear", start |-> kind.start, end |-> kind.end]
              /\ kind.start \in Int \X Int /\ kind.end \in Int \X Int
         /\ kind.kind = "trigger" =>
              /\ kind = [kind |-> "trigger", threshold |-> kind.threshold,
                         before |-> kind.before, after |-> kind.after]
              /\ kind.threshold \in Int /\ kind.before \in Int /\ kind.after \in Int
<1>1. CASE kind \in [kind: {"graph"}, points: Seq(Int \X Int)]
  BY <1>1
<1>2. CASE kind \in [kind: {"linear"}, start: Int \X Int, end: Int \X Int]
  BY <1>2
<1>3. CASE kind \in [kind: {"trigger"}, threshold: Int, before: Int, after: Int]
  BY <1>3
<1> QED
  BY <1>1, <1>2, <1>3 DEF RawKinds

(* Kinds made of their fields.                                             *)
LEMMA KindsBuilt ==
  /\ \A points \in Seq(Int \X Int) : [kind |-> "graph", points |-> points] \in RawKinds
  /\ \A p, q \in Int \X Int : [kind |-> "linear", start |-> p, end |-> q] \in RawKinds
  /\ \A t, x, y \in Int :
       [kind |-> "trigger", threshold |-> t, before |-> x, after |-> y] \in RawKinds
<1>1. ASSUME NEW points \in Seq(Int \X Int)
      PROVE  [kind |-> "graph", points |-> points] \in RawKinds
  BY DEF RawKinds
<1>2. ASSUME NEW p \in Int \X Int, NEW q \in Int \X Int
      PROVE  [kind |-> "linear", start |-> p, end |-> q] \in RawKinds
  BY DEF RawKinds
<1>3. ASSUME NEW t \in Int, NEW x \in Int, NEW y \in Int
      PROVE  [kind |-> "trigger", threshold |-> t, before |-> x, after |-> y] \in RawKinds
  BY DEF RawKinds
<1> QED
  BY <1>1, <1>2, <1>3

(* The tabs make kinds of kinds.                                           *)
LEMMA TabsTyped ==
  ASSUME NEW sane \in RawKinds, NEW blank \in RawKinds
  PROVE  /\ AsGraph(sane) \in RawKinds /\ AsTrigger(sane, blank) \in RawKinds
         /\ AsLinear(sane, blank) \in RawKinds
<1>0. \A x, lo, hi \in Int : Clamp(x, lo, hi) \in Int
  BY DEF Clamp
<1>00. Coldest \in Int /\ Hottest \in Int /\ MinSpan \in Int /\ 20 * MinSpan \in Int
  BY TemperaturesAssumption
<1>1. CASE sane.kind = "graph"
  <2> DEFINE points == sane.points
             n == Len(points)
  <2>1. points \in Seq(Int \X Int)
    BY <1>1, KindParts
  <2> HIDE DEF points
  <2>2. CASE points = <<>>
    <3>1. sane.points = <<>>
      BY <2>2 DEF points
    <3> QED
      BY <1>1, <3>1 DEF AsGraph, AsTrigger, AsLinear
  <2>3. CASE points # <<>>
    <3>1. n \in Nat /\ n # 0 /\ DOMAIN points = 1..n /\ \A i \in 1..n : points[i] \in Int \X Int
      BY <2>1, <2>3
    <3>2. (n - 1) \div 2 + 1 \in 1..n /\ 1 \in 1..n /\ n \in 1..n
      BY <3>1
    <3> DEFINE m == (n - 1) \div 2 + 1
    <3>3. Last(points) = points[n]
      BY DEF Last
    <3> HIDE DEF m
    <3>4. points[m] \in Int \X Int /\ points[1] \in Int \X Int /\ Last(points) \in Int \X Int
      BY <3>1, <3>2, <3>3 DEF m
    <3>5. /\ AsTrigger(sane, blank) = [kind |-> "trigger", threshold |-> points[m][1],
                                       before |-> points[1][2], after |-> Last(points)[2]]
          /\ AsLinear(sane, blank) = [kind |-> "linear", start |-> points[1], end |-> Last(points)]
      BY <1>1, <2>3 DEF AsTrigger, AsLinear, points, m, n
    <3>6. points[m][1] \in Int /\ points[1][2] \in Int /\ Last(points)[2] \in Int
      BY <3>4
    <3>7. AsGraph(sane) = sane
      BY <1>1 DEF AsGraph
    <3> QED
      BY <3>4, <3>5, <3>6, <3>7, KindsBuilt
  <2> QED
    BY <2>2, <2>3
<1>2. CASE sane.kind = "linear"
  <2>1. sane.start \in Int \X Int /\ sane.end \in Int \X Int
    BY <1>2, KindParts
  <2>2. /\ AsGraph(sane) = [kind |-> "graph", points |-> <<sane.start, sane.end>>]
        /\ AsTrigger(sane, blank) = [kind |-> "trigger", threshold |-> sane.start[1],
                                     before |-> sane.start[2], after |-> sane.end[2]]
        /\ AsLinear(sane, blank) = sane
    BY <1>2 DEF AsGraph, AsTrigger, AsLinear
  <2>3. <<sane.start, sane.end>> \in Seq(Int \X Int)
    BY <2>1
  <2>4. sane.start[1] \in Int /\ sane.start[2] \in Int /\ sane.end[2] \in Int
    BY <2>1
  <2> QED
    BY <2>2, <2>3, <2>4, KindsBuilt
<1>3. CASE sane.kind = "trigger"
  <2> DEFINE t == Clamp(sane.threshold + MinSpan, Coldest, Hottest)
             u == Clamp(sane.threshold + 20 * MinSpan, Coldest, Hottest)
  <2>1. sane.threshold \in Int /\ sane.before \in Int /\ sane.after \in Int
    BY <1>3, KindParts
  <2>2. t \in Int
    <3>1. sane.threshold + MinSpan \in Int
      BY <1>00, <2>1
    <3> QED
      BY <1>0, <1>00, <3>1
  <2>3. u \in Int
    <3> DEFINE far == 20 * MinSpan
    <3>1. sane.threshold + far \in Int
      BY <1>00, <2>1
    <3> QED
      BY <1>0, <1>00, <3>1
  <2>4. /\ AsGraph(sane) = [kind |-> "graph", points |->
                               << <<sane.threshold, sane.before>>, <<t, sane.after>> >>]
        /\ AsTrigger(sane, blank) = sane
        /\ AsLinear(sane, blank) = [kind |-> "linear", start |-> <<sane.threshold, sane.before>>,
                                    end |-> <<u, sane.after>>]
    BY <1>3 DEF AsGraph, AsTrigger, AsLinear
  <2> HIDE DEF t, u
  <2>5. << <<sane.threshold, sane.before>>, <<t, sane.after>> >> \in Seq(Int \X Int)
    BY <2>1, <2>2
  <2>6. <<sane.threshold, sane.before>> \in Int \X Int /\ <<u, sane.after>> \in Int \X Int
    BY <2>1, <2>3
  <2> QED
    BY <2>4, <2>5, <2>6, KindsBuilt
<1> QED
  BY <1>1, <1>2, <1>3, KindParts

(* A definition with one of its parts replaced.                            *)
LEMMA DefEdits ==
  ASSUME NEW def, IsDef(def)
  PROVE  /\ \A w \in RawWindows : IsDef([def EXCEPT !.window = w])
         /\ \A kind \in RawKinds : IsDef([def EXCEPT !.kind = kind])
         /\ \A source : IsDef([def EXCEPT !.source = source])
         /\ \A fns \in Seq(RawFunctions), h \in RawStandard :
              IsDef([def EXCEPT !.functions = fns, !.hysteresis = h])
  BY DEF IsDef

(* The first function, ...                                                 *)
LEMMA PrimaryTyped ==
  ASSUME NEW def, IsDef(def)
  PROVE  PrimaryFunction(def) \in RawFunctions
<1> DEFINE raw == IF def.functions = <<>> THEN def.hysteresis ELSE def.functions[1]
<1>1. def.functions \in Seq(RawFunctions) /\ def.hysteresis \in RawFunctions
  BY DEF IsDef, RawFunctions
<1>2. def.functions # <<>> => def.functions[1] \in RawFunctions
  BY <1>1
<1>3. raw \in RawFunctions
  BY <1>1, <1>2
<1>4. PrimaryFunction(def) = SaneFunction(raw)
  BY DEF PrimaryFunction
<1> HIDE DEF raw
<1> QED
  BY <1>3, <1>4, FunctionStays

(* ... replaced, ...                                                       *)
LEMMA WithFunctionTyped ==
  ASSUME NEW def, IsDef(def), NEW f \in RawFunctions
  PROVE  IsDef(WithFunction(def, f))
<1> DEFINE g == SaneFunction(f)
           fns == IF def.functions = <<>> THEN <<g>> ELSE ReplaceAt(def.functions, 1, g)
           h == IF f.fn = "standard" THEN g ELSE def.hysteresis
<1>1. /\ g \in RawFunctions
      /\ f.fn = "standard" => g \in RawStandard
  <2>1. g \in RawFunctions /\ g.fn = f.fn
    BY FunctionStays
  <2> HIDE DEF g
  <2>2. g.fn = "standard" => g \in RawStandard
    BY <2>1, FunctionStays
  <2> QED
    BY <2>1, <2>2
<1>2. WithFunction(def, f) = [def EXCEPT !.functions = fns, !.hysteresis = h]
  <2>1. DOMAIN def = {"source", "functions", "hysteresis", "window", "kind"}
    BY DEF IsDef
  <2> HIDE DEF g
  <2>2. WithFunction(def, f)
          = [def EXCEPT !.functions = IF @ = <<>> THEN <<g>> ELSE ReplaceAt(@, 1, g),
                        !.hysteresis = IF f.fn = "standard" THEN g ELSE @]
    BY DEF WithFunction, g
  <2> QED
    BY <2>1, <2>2
<1> HIDE DEF g
<1>3. fns \in Seq(RawFunctions)
  <2>1. def.functions \in Seq(RawFunctions)
    BY DEF IsDef
  <2>2. <<g>> \in Seq(RawFunctions)
    BY <1>1
  <2>3. ASSUME def.functions # <<>>
        PROVE  ReplaceAt(def.functions, 1, g) \in Seq(RawFunctions)
    <3>1. ReplaceAt(def.functions, 1, g) = [def.functions EXCEPT ![1] = g]
      BY DEF ReplaceAt
    <3>2. ASSUME NEW i, i = 1 PROVE [def.functions EXCEPT ![i] = g] \in Seq(RawFunctions)
      <4>1. i \in 1..Len(def.functions)
        BY <2>1, <2>3, <3>2
      <4> QED
        BY <1>1, <2>1, <4>1, SeqEdits
    <3> QED
      BY <3>1, <3>2
  <2> QED
    BY <2>1, <2>2, <2>3
<1>4. h \in RawStandard
  BY <1>1 DEF IsDef
<1> HIDE DEF fns, h
<1>5. IsDef([def EXCEPT !.functions = fns, !.hysteresis = h])
  BY <1>3, <1>4, DefEdits
<1> QED
  BY <1>2, <1>5

(* A field set, of a kind ...                                              *)
LEMMA KindFieldTyped ==
  ASSUME NEW sane \in RawKinds, NEW field, NEW v \in Int
  PROVE  WithKindField(sane, field, v) = None \/ WithKindField(sane, field, v) \in RawKinds
<1>0. \A x, lo, hi \in Int : Clamp(x, lo, hi) \in Int
  BY DEF Clamp
<1>00. Coldest \in Int /\ Hottest \in Int /\ MinSpan \in Int
  BY TemperaturesAssumption
<1> DEFINE new == WithKindField(sane, field, v)
<1>1. CASE sane.kind = "graph"
  <2>1. new = None
    BY <1>1 DEF WithKindField
  <2> QED
    BY <2>1
<1>2. CASE sane.kind = "trigger"
  <2>1. /\ sane = [kind |-> "trigger", threshold |-> sane.threshold,
                   before |-> sane.before, after |-> sane.after]
        /\ sane.threshold \in Int /\ sane.before \in Int /\ sane.after \in Int
    BY <1>2, KindParts
  <2>2. CASE field \in TriggerFields
    <3>1. new = [sane EXCEPT ![field] = v]
      BY <1>2, <2>2 DEF WithKindField
    <3> HIDE DEF new
    <3> DEFINE t == IF field = "threshold" THEN v ELSE sane.threshold
               x == IF field = "before" THEN v ELSE sane.before
               y == IF field = "after" THEN v ELSE sane.after
    <3>2. new = [kind |-> "trigger", threshold |-> t, before |-> x, after |-> y]
      <4>1. \A x0 : /\ [sane EXCEPT !.threshold = x0] = [kind |-> "trigger", threshold |-> x0,
                                        before |-> sane.before, after |-> sane.after]
                    /\ [sane EXCEPT !.before = x0] = [kind |-> "trigger", threshold |-> sane.threshold,
                                        before |-> x0, after |-> sane.after]
                    /\ [sane EXCEPT !.after = x0] = [kind |-> "trigger", threshold |-> sane.threshold,
                                        before |-> sane.before, after |-> x0]
        BY <2>1
      <4>2. CASE field = "threshold"
        BY <3>1, <4>1, <4>2
      <4>3. CASE field = "before"
        BY <3>1, <4>1, <4>3
      <4>4. CASE field = "after"
        BY <3>1, <4>1, <4>4
      <4> QED
        BY <2>2, <4>2, <4>3, <4>4 DEF TriggerFields
    <3>3. t \in Int /\ x \in Int /\ y \in Int
      BY <2>1
    <3> HIDE DEF t, x, y
    <3> QED
      BY <3>2, <3>3, KindsBuilt DEF new
  <2>3. CASE field \notin TriggerFields
    <3>1. new = None
      BY <1>2, <2>3 DEF WithKindField
    <3> QED
      BY <3>1
  <2> QED
    BY <2>2, <2>3
<1>3. CASE sane.kind = "linear"
  <2> DEFINE p == sane.start
             q == sane.end
             Made(s, t) == [kind |-> "linear", start |-> s, end |-> t]
             right == Clamp(v, Coldest, q[1] - MinSpan)
             apart == Clamp(v, p[1] + MinSpan, Hottest)
  <2>1. sane = Made(p, q) /\ p \in Int \X Int /\ q \in Int \X Int
    BY <1>3, KindParts
  <2>2. p = <<p[1], p[2]>> /\ q = <<q[1], q[2]>> /\ {p[1], p[2], q[1], q[2]} \subseteq Int
    BY <2>1
  <2>3. right \in Int /\ apart \in Int
    <3>1. q[1] - MinSpan \in Int /\ p[1] + MinSpan \in Int
      BY <1>00, <2>2
    <3> QED
      BY <1>0, <1>00, <3>1
  <2> HIDE DEF right, apart
  <2>4. \/ new = None
        \/ new = [sane EXCEPT !.start[1] = right] \/ new = [sane EXCEPT !.start[2] = v]
        \/ new = [sane EXCEPT !.end[1] = apart] \/ new = [sane EXCEPT !.end[2] = v]
    BY <1>3 DEF WithKindField, right, apart
  <2> HIDE DEF new
  <2>5. \/ new = None
        \/ new = Made(<<right, p[2]>>, q) \/ new = Made(<<p[1], v>>, q)
        \/ new = Made(p, <<apart, q[2]>>) \/ new = Made(p, <<q[1], v>>)
    <3> HIDE DEF p, q
    <3>1. ASSUME NEW x
          PROVE  /\ [sane EXCEPT !.start[1] = x] = Made(<<x, p[2]>>, q)
                 /\ [sane EXCEPT !.start[2] = x] = Made(<<p[1], x>>, q)
                 /\ [sane EXCEPT !.end[1] = x] = Made(p, <<x, q[2]>>)
                 /\ [sane EXCEPT !.end[2] = x] = Made(p, <<q[1], x>>)
      <4>1. /\ [p EXCEPT ![1] = x] = <<x, p[2]>> /\ [p EXCEPT ![2] = x] = <<p[1], x>>
            /\ [q EXCEPT ![1] = x] = <<x, q[2]>> /\ [q EXCEPT ![2] = x] = <<q[1], x>>
        BY <2>2
      <4>2. /\ [sane EXCEPT !.start[1] = x] = Made([p EXCEPT ![1] = x], q)
            /\ [sane EXCEPT !.start[2] = x] = Made([p EXCEPT ![2] = x], q)
            /\ [sane EXCEPT !.end[1] = x] = Made(p, [q EXCEPT ![1] = x])
            /\ [sane EXCEPT !.end[2] = x] = Made(p, [q EXCEPT ![2] = x])
        BY <2>1
      <4> QED
        BY <4>1, <4>2
    <3> QED
      BY <2>4, <3>1
  <2>6. /\ <<right, p[2]>> \in Int \X Int /\ <<p[1], v>> \in Int \X Int
        /\ <<apart, q[2]>> \in Int \X Int /\ <<q[1], v>> \in Int \X Int
    BY <2>2, <2>3
  <2>7. new = None \/ new \in RawKinds
    BY <2>1, <2>5, <2>6, KindsBuilt
  <2> QED
    BY <2>7 DEF new
<1> QED
  BY <1>1, <1>2, <1>3, KindParts

(* ... or a function, ...                                                  *)
LEMMA FunctionFieldTyped ==
  ASSUME NEW first \in RawFunctions, NEW field, NEW v \in Int
  PROVE  WithFunctionField(first, field, v) \in RawFunctions
<1>1. /\ Clamp(v, 1, 100) \in Int /\ Clamp(v, 0, MaxDegrees) \in Int
      /\ Clamp(v, 0, MaxDelay) \in Int
  BY EditorAssumption DEF Clamp
<1> DEFINE base == IF first.fn = "standard" THEN first ELSE Hysteresis
<1>2. base \in RawStandard
  <2>1. Hysteresis \in RawStandard
    BY DEF Hysteresis, RawStandard
  <2> QED
    BY <2>1, FunctionStays
<1> HIDE DEF base
<1>3. \A x \in Int : [base EXCEPT !.degrees = x] \in RawStandard /\ [base EXCEPT !.delay = x] \in RawStandard
  BY <1>2 DEF RawStandard
<1>4. \A x \in Int : [fn |-> "ema", alpha |-> x] \in RawFunctions
  BY DEF RawFunctions
<1>5. \/ WithFunctionField(first, field, v) = [fn |-> "ema", alpha |-> Clamp(v, 1, 100)]
      \/ WithFunctionField(first, field, v) = [base EXCEPT !.degrees = Clamp(v, 0, MaxDegrees)]
      \/ WithFunctionField(first, field, v) = [base EXCEPT !.delay = Clamp(v, 0, MaxDelay)]
  BY DEF WithFunctionField, base
<1>6. RawStandard \subseteq RawFunctions
  BY DEF RawFunctions
<1> QED
  BY <1>1, <1>3, <1>4, <1>5, <1>6

AllFields == WindowFields \cup FunctionFields \cup TriggerFields \cup LinearFields

(* ... or of the whole definition.                                         *)
LEMMA FieldTyped ==
  ASSUME NEW def, IsDef(def), NEW field \in AllFields, NEW v \in Int
  PROVE  WithField(def, field, v) = None \/ IsDef(WithField(def, field, v))
<1> DEFINE new == WithField(def, field, v)
<1>1. CASE field \in WindowFields
  <2> DEFINE w == SaneWindow(def.window)
             set == [w EXCEPT ![field] = v]
  <2>1. w \in RawWindows
    BY WindowStays DEF IsDef
  <2> HIDE DEF w
  <2>2. set \in RawWindows
    BY <1>1, <2>1 DEF RawWindows, WindowFields
  <2>3. new = [def EXCEPT !.window = SaneWindow([SaneWindow(@) EXCEPT ![field] = v])]
    BY <1>1, SMTT(30) DEF WithField, WindowFields, FunctionFields, TriggerFields, LinearFields
  <2> HIDE DEF new
  <2>4. new = [def EXCEPT !.window = SaneWindow(set)]
    BY <2>3 DEF IsDef, w
  <2> HIDE DEF set
  <2>5. SaneWindow(set) \in RawWindows
    BY <2>2, WindowStays
  <2>6. IsDef([def EXCEPT !.window = SaneWindow(set)])
    BY <2>5, DefEdits, Zenon
  <2> QED
    BY <2>4, <2>6, Zenon DEF new
<1>2. CASE field \notin WindowFields /\ field \in FunctionFields
  <2>1. new = WithFunction(def, WithFunctionField(PrimaryFunction(def), field, v))
    BY <1>2 DEF WithField, WindowFields, FunctionFields, TriggerFields, LinearFields
  <2>2. WithFunctionField(PrimaryFunction(def), field, v) \in RawFunctions
    BY PrimaryTyped, FunctionFieldTyped
  <2> QED
    BY <2>1, <2>2, WithFunctionTyped
<1>3. CASE field \notin WindowFields \cup FunctionFields
  <2> DEFINE kind == WithKindField(SaneKind(def.kind), field, v)
  <2>1. SaneKind(def.kind) \in RawKinds
    BY KindStays DEF IsDef
  <2>2. kind = None \/ kind \in RawKinds
    BY <2>1, KindFieldTyped
  <2>3. new = IF kind = None THEN None ELSE [def EXCEPT !.kind = SaneKind(kind)]
    BY <1>3 DEF WithField, AllFields, WindowFields, FunctionFields, TriggerFields, LinearFields
  <2> HIDE DEF kind
  <2>4. kind \in RawKinds => SaneKind(kind) \in RawKinds
    BY KindStays
  <2>5. kind \in RawKinds => IsDef([def EXCEPT !.kind = SaneKind(kind)])
    BY <2>4, DefEdits
  <2> QED
    BY <2>2, <2>3, <2>5
<1> QED
  BY <1>1, <1>2, <1>3

(* What a field shows is a number.                                         *)
LEMMA FieldValueTyped ==
  ASSUME NEW def, IsDef(def), NEW field \in Offered(def)
  PROVE  FieldValue(def, field) \in Int /\ field \in AllFields /\ StepOf(field) \in Int
<1> DEFINE kind == SaneKind(def.kind)
           first == PrimaryFunction(def)
<1>1. kind \in RawKinds /\ kind.kind = def.kind.kind
  BY KindStays DEF IsDef
<1>2. first \in RawFunctions
  BY PrimaryTyped
<1>3. \/ field \in WindowFields
      \/ def.kind.kind = "trigger" /\ field \in TriggerFields
      \/ def.kind.kind = "linear" /\ field \in LinearFields
      \/ first.fn = "standard" /\ field \in {"degrees", "delay"}
      \/ first.fn = "ema" /\ field = "alpha"
  <2>1. def.kind.kind \in {"graph", "linear", "trigger"}
    BY KindParts DEF IsDef
  <2>2. first.fn \in {"identity", "standard", "ema"}
    BY <1>2 DEF RawFunctions, RawStandard
  <2> HIDE DEF first
  <2>3. Offered(def) = WindowFields
          \cup CASE def.kind.kind = "graph" -> {}
                 [] def.kind.kind = "trigger" -> TriggerFields
                 [] def.kind.kind = "linear" -> LinearFields
          \cup CASE first.fn = "identity" -> {}
                 [] first.fn = "standard" -> {"degrees", "delay"}
                 [] first.fn = "ema" -> {"alpha"}
    BY DEF Offered, first
  <2> QED
    BY <2>1, <2>2, <2>3
<1>4. field \in AllFields
  BY <1>3 DEF AllFields, FunctionFields
<1>5. StepOf(field) \in Int
  BY <1>4, TemperaturesAssumption
     DEF StepOf, AllFields, WindowFields, FunctionFields, TriggerFields, LinearFields
<1>6. FieldValue(def, field) \in Int
  <2>1. CASE field \in WindowFields
    <3>1. SaneWindow(def.window) \in RawWindows
      BY WindowStays DEF IsDef
    <3>2. FieldValue(def, field) = SaneWindow(def.window)[field]
      BY <2>1 DEF FieldValue, WindowFields, FunctionFields, TriggerFields, LinearFields
    <3> DEFINE w == SaneWindow(def.window)
    <3> HIDE DEF w
    <3>3. w \in RawWindows => w[field] \in Int
      BY <2>1 DEF RawWindows, WindowFields
    <3> QED
      BY <3>1, <3>2, <3>3 DEF w
  <2>2. CASE def.kind.kind = "trigger" /\ field \in TriggerFields
    <3>1. kind.threshold \in Int /\ kind.before \in Int /\ kind.after \in Int
      BY <1>1, <2>2, KindParts
    <3>2. FieldValue(def, field) = kind[field]
      BY <2>2 DEF FieldValue, WindowFields, FunctionFields, TriggerFields
    <3> HIDE DEF kind
    <3> QED
      BY <2>2, <3>1, <3>2 DEF TriggerFields
  <2>3. CASE def.kind.kind = "linear" /\ field \in LinearFields
    <3>1. kind.start \in Int \X Int /\ kind.end \in Int \X Int
      BY <1>1, <2>3, KindParts
    <3> DEFINE p == kind.start
               q == kind.end
    <3>2. FieldValue(def, field) \in {p[1], p[2], q[1], q[2]}
      BY <2>3 DEF FieldValue, WindowFields, FunctionFields, TriggerFields, LinearFields
    <3>3. p \in Int \X Int /\ q \in Int \X Int
      BY <3>1
    <3> HIDE DEF p, q
    <3>4. {p[1], p[2], q[1], q[2]} \subseteq Int
      BY <3>3
    <3> QED
      BY <3>2, <3>4
  <2>4. CASE first.fn = "standard" /\ field \in {"degrees", "delay"}
    <3>1. first \in RawStandard
      BY <1>2, <2>4, FunctionStays
    <3>2. FieldValue(def, field) = first[field]
      BY <2>4 DEF FieldValue, WindowFields, FunctionFields, TriggerFields, LinearFields
    <3> HIDE DEF first
    <3>3. first.degrees \in Int /\ first.delay \in Int
      BY <3>1 DEF RawStandard
    <3> QED
      BY <2>4, <3>2, <3>3
  <2>5. CASE first.fn = "ema" /\ field = "alpha"
    <3>1. FieldValue(def, field) = first.alpha
      BY <2>5 DEF FieldValue, WindowFields, FunctionFields, TriggerFields, LinearFields
    <3> HIDE DEF first
    <3>2. first.alpha \in Int
      BY <1>2, <2>5 DEF RawFunctions, RawStandard
    <3> QED
      BY <3>1, <3>2
  <2> QED
    BY <1>3, <2>1, <2>2, <2>3, <2>4, <2>5
<1> QED
  BY <1>4, <1>5, <1>6

-----------------------------------------------------------------------------
(* The curves of a file and of the config it is loaded into.               *)

RawEntry(c) == DOMAIN c = {"id", "name", "def"} /\ IsDef(c.def)
RawTable(t) == \E S : t \in Seq(S) /\ \A c \in S : RawEntry(c)

SaneEntry(c) == RawEntry(c) /\ Sane(c.def) /\ c.name # <<>>
SaneTable(t) == \E S : t \in Seq(S) /\ \A c \in S : SaneEntry(c)

(* A table, entry by entry, ...                                            *)
LEMMA TableParts ==
  ASSUME NEW t
  PROVE  /\ RawTable(t) => /\ Len(t) \in Nat /\ DOMAIN t = 1..Len(t)
                           /\ \A i \in 1..Len(t) : RawEntry(t[i])
         /\ SaneTable(t) => /\ Len(t) \in Nat /\ DOMAIN t = 1..Len(t)
                            /\ \A i \in 1..Len(t) : SaneEntry(t[i])
<1>1. ASSUME NEW S, t \in Seq(S)
      PROVE  Len(t) \in Nat /\ DOMAIN t = 1..Len(t) /\ \A i \in 1..Len(t) : t[i] \in S
  BY <1>1
<1> QED
  BY <1>1 DEF RawTable, SaneTable

(* ... and built of entries.                                               *)
LEMMA TableBuilt ==
  ASSUME NEW n \in Nat, NEW t, t = [i \in 1..n |-> t[i]]
  PROVE  /\ (\A i \in 1..n : RawEntry(t[i])) => RawTable(t)
         /\ (\A i \in 1..n : SaneEntry(t[i])) => SaneTable(t)
<1> DEFINE S == {t[i] : i \in 1..n}
<1>1. [i \in 1..n |-> t[i]] \in Seq(S)
  OBVIOUS
<1>2. t \in Seq(S)
  BY <1>1, Zenon
<1>3. (\A i \in 1..n : RawEntry(t[i])) => \A c \in S : RawEntry(c)
  OBVIOUS
<1>4. (\A i \in 1..n : SaneEntry(t[i])) => \A c \in S : SaneEntry(c)
  OBVIOUS
<1> HIDE DEF S
<1> QED
  BY <1>2, <1>3, <1>4 DEF RawTable, SaneTable

(* What the edits make of a table.                                         *)
LEMMA TableEdits ==
  ASSUME NEW t, RawTable(t)
  PROVE  /\ \A c : RawEntry(c) => RawTable(PutEntry(t, c))
         /\ \A id : RawTable(RemoveEntry(t, id))
         /\ \A id, name : RawTable(RenameEntry(t, id, name))
<1>1. PICK S : t \in Seq(S) /\ \A c \in S : RawEntry(c)
  BY DEF RawTable
<1>2. Len(t) \in Nat /\ DOMAIN t = 1..Len(t)
  BY <1>1
<1>3. ASSUME NEW id
      PROVE  Place(t, id) # 0 => Place(t, id) \in 1..Len(t)
  <2> DEFINE places == {i \in DOMAIN t : EntryId(t, i) = id}
  <2>1. places \in SUBSET Nat /\ places \subseteq 1..Len(t)
    BY <1>2
  <2>2. Place(t, id) = IF places = {} THEN 0 ELSE Min(places)
    BY DEF Place
  <2> HIDE DEF places
  <2>3. places # {} => Min(places) \in places
    BY <2>1, MinIn
  <2> QED
    BY <2>1, <2>2, <2>3
<1>4. ASSUME NEW c, RawEntry(c)
      PROVE  /\ RawTable(Append(t, c))
             /\ \A i \in 1..Len(t) : RawTable([t EXCEPT ![i] = c])
  <2> DEFINE T == S \cup {c}
  <2>1. t \in Seq(T) /\ c \in T /\ \A x \in T : RawEntry(x)
    <3>1. S \subseteq T
      OBVIOUS
    <3> QED
      BY <1>1, <1>4, <3>1
  <2> HIDE DEF T
  <2>2. Append(t, c) \in Seq(T) /\ \A i \in 1..Len(t) : [t EXCEPT ![i] = c] \in Seq(T)
    BY <2>1, SeqEdits
  <2> QED
    BY <2>1, <2>2 DEF RawTable
<1>5. ASSUME NEW c, RawEntry(c)
      PROVE  RawTable(PutEntry(t, c))
  <2>1. PutEntry(t, c) = IF Place(t, c.id) = 0 THEN Append(t, c)
                         ELSE [t EXCEPT ![Place(t, c.id)] = c]
    BY DEF PutEntry
  <2> QED
    BY <1>3, <1>4, <1>5, <2>1
<1>6. ASSUME NEW id
      PROVE  RawTable(RemoveEntry(t, id))
  <2>1. RemoveEntry(t, id) = IF Place(t, id) = 0 THEN t ELSE RemoveAt(t, Place(t, id))
    BY DEF RemoveEntry
  <2>2. \A i \in 1..Len(t) : RemoveAt(t, i) \in Seq(S)
    BY <1>1, SeqEdits
  <2> QED
    BY <1>1, <1>3, <2>1, <2>2 DEF RawTable
<1>7. ASSUME NEW id, NEW name
      PROVE  RawTable(RenameEntry(t, id, name))
  <2> DEFINE i == Place(t, id)
             c == [t[i] EXCEPT !.name = name]
  <2>1. CASE i = 0
    BY <2>1 DEF RenameEntry
  <2>2. CASE i # 0
    <3>1. i \in 1..Len(t)
      BY <1>3, <2>2
    <3>2. RenameEntry(t, id, name) = [t EXCEPT ![i].name = name]
      BY <2>2 DEF RenameEntry
    <3> HIDE DEF i
    <3>3. [t EXCEPT ![i].name = name] = [t EXCEPT ![i] = c]
      BY <1>2, <3>1
    <3>4. RawEntry(t[i])
      BY <1>1, <3>1
    <3>5. RawEntry(c)
      BY <3>4 DEF RawEntry
    <3> HIDE DEF c
    <3> QED
      BY <1>4, <3>1, <3>2, <3>3, <3>5
  <2> QED
    BY <2>1, <2>2
<1> QED
  BY <1>5, <1>6, <1>7

DocTyped(doc) ==
  /\ DOMAIN doc = {"curves", "customs", "dashboard", "hidden", "values"}
  /\ RawTable(doc.curves)
FileTyped(file) == DOMAIN file = {"form", "doc"} /\ DocTyped(file.doc)

(* What the edits make of a config.                                        *)
LEMMA DocEdits ==
  ASSUME NEW doc, DocTyped(doc)
  PROVE  /\ \A c : RawEntry(c) => DocTyped(SaveCurve(doc, c))
         /\ \A id : DocTyped(DeleteCurve(doc, id))
         /\ \A id, name : DocTyped(SaveCurveName(doc, id, name))
         /\ \A c : DocTyped(SaveCustom(doc, c))
         /\ \A id : DocTyped(DeleteCustom(doc, id))
         /\ \A id, name : DocTyped(SaveCustomName(doc, id, name))
         /\ \A section, key, v : DocTyped(SetValue(doc, section, key, v))
<1>1. ASSUME NEW t, RawTable(t)
      PROVE  DocTyped([doc EXCEPT !.curves = t])
  BY <1>1 DEF DocTyped
<1>2. \A x : DocTyped([doc EXCEPT !.customs = x]) /\ DocTyped([doc EXCEPT !.values = x])
  BY DEF DocTyped
<1>3. RawTable(doc.curves)
  BY DEF DocTyped
<1>4. ASSUME NEW c, RawEntry(c)
      PROVE  DocTyped(SaveCurve(doc, c))
  <2> DEFINE w == [c EXCEPT !.def = Written(@)]
  <2>1. w = [c EXCEPT !.def = Written(c.def)]
    OBVIOUS
  <2>2. IsDef(Written(c.def))
    BY <1>4, WrittenTyped DEF RawEntry
  <2> HIDE DEF w
  <2>3. RawEntry(w)
    BY <1>4, <2>1, <2>2 DEF RawEntry
  <2>4. RawTable(PutEntry(doc.curves, w))
    BY <1>3, <2>3, TableEdits
  <2>5. SaveCurve(doc, c) = [doc EXCEPT !.curves = PutEntry(doc.curves, w)]
    BY DEF SaveCurve, w
  <2> QED
    BY <1>1, <2>4, <2>5
<1>5. ASSUME NEW id
      PROVE  DocTyped(DeleteCurve(doc, id)) /\ DocTyped(DeleteCustom(doc, id))
  <2>1. DeleteCurve(doc, id) = [doc EXCEPT !.curves = RemoveEntry(doc.curves, id)]
    BY DEF DeleteCurve
  <2>2. DeleteCustom(doc, id) = [doc EXCEPT !.customs = RemoveEntry(doc.customs, id)]
    BY DEF DeleteCustom
  <2>3. RawTable(RemoveEntry(doc.curves, id))
    BY <1>3, TableEdits
  <2> QED
    BY <1>1, <1>2, <2>1, <2>2, <2>3
<1>6. ASSUME NEW id, NEW name
      PROVE  DocTyped(SaveCurveName(doc, id, name)) /\ DocTyped(SaveCustomName(doc, id, name))
  <2>1. SaveCurveName(doc, id, name) = [doc EXCEPT !.curves = RenameEntry(doc.curves, id, name)]
    BY DEF SaveCurveName
  <2>2. SaveCustomName(doc, id, name) = [doc EXCEPT !.customs = RenameEntry(doc.customs, id, name)]
    BY DEF SaveCustomName
  <2>3. RawTable(RenameEntry(doc.curves, id, name))
    BY <1>3, TableEdits
  <2> QED
    BY <1>1, <1>2, <2>1, <2>2, <2>3
<1>7. ASSUME NEW c
      PROVE  DocTyped(SaveCustom(doc, c))
  <2>1. SaveCustom(doc, c) = [doc EXCEPT !.customs = PutEntry(doc.customs, c)]
    BY DEF SaveCustom
  <2> QED
    BY <1>2, <2>1
<1>8. ASSUME NEW section, NEW key, NEW v
      PROVE  DocTyped(SetValue(doc, section, key, v))
  <2>1. \E x : SetValue(doc, section, key, v) = [doc EXCEPT !.values = x]
    BY Zenon DEF SetValue
  <2> QED
    BY <1>2, <2>1
<1> QED
  BY <1>4, <1>5, <1>6, <1>7, <1>8

(* Pins, what is hidden and how lines look leave the curves alone.         *)
LEMMA ArrangedTyped ==
  ASSUME NEW doc, DocTyped(doc), NEW names, NEW key
  PROVE  /\ DocTyped(Pinned(doc, names, key)) /\ DocTyped(Hidden(doc, names, key))
         /\ DocTyped(Toggled(doc, names, key))
         /\ \A color, style : DocTyped(Restyled(doc, key, color, style))
<1>1. \A x : DocTyped([doc EXCEPT !.dashboard = x]) /\ DocTyped([doc EXCEPT !.hidden = x])
  BY DEF DocTyped
<1>2. \E x : Pinned(doc, names, key) = [doc EXCEPT !.dashboard = x]
  BY Zenon DEF Pinned, SetDashboardPinned
<1>3. \E x : Hidden(doc, names, key) = [doc EXCEPT !.hidden = x]
  BY Zenon DEF Hidden, SetHidden
<1>4. \E v : Toggled(doc, names, key) = SetValue(doc, "graph_shown", key, v)
  BY Zenon DEF Toggled, SetGraphField
<1>5. ASSUME NEW color, NEW style
      PROVE  DocTyped(Restyled(doc, key, color, style))
  <2>1. DocTyped(SetValue(doc, "graph_color", key, color))
    BY DocEdits
  <2>2. Restyled(doc, key, color, style)
          = SetValue(SetValue(doc, "graph_color", key, color), "graph_style", key, style)
    BY DEF Restyled, SetGraphField
  <2> QED
    BY <2>1, <2>2, DocEdits
<1>6. DocTyped(Pinned(doc, names, key)) /\ DocTyped(Hidden(doc, names, key))
  BY <1>1, <1>2, <1>3
<1>7. \A v : DocTyped(SetValue(doc, "graph_shown", key, v))
  BY DocEdits
<1>8. DocTyped(Toggled(doc, names, key))
  BY <1>4, <1>7
<1> QED
  BY <1>5, <1>6, <1>8

(* A config that was never written is one.                                 *)
LEMMA BlankTyped == DocTyped(BlankDoc)
<1>1. RawTable(<<>>)
  <2>1. ASSUME NEW t, t = <<>>, NEW S, S = {}
        PROVE  RawTable(t)
    <3>1. t \in Seq(S) /\ \A c \in S : RawEntry(c)
      BY <2>1
    <3> QED
      BY <3>1 DEF RawTable
  <2> QED
    BY <2>1
<1> QED
  BY <1>1 DEF DocTyped, BlankDoc

(* A file is loaded into curves as they are evaluated, with names.         *)
LEMMA LoadTyped ==
  ASSUME NEW file, FileTyped(file)
  PROVE  SaneTable(Load(file).curves)
<1> DEFINE doc == IF file.form = "good" THEN file.doc ELSE BlankDoc
           t == doc.curves
           named == WithFallbacks("curve", t)
           loaded == [i \in DOMAIN named |-> [named[i] EXCEPT !.def = NormalizedDef(@)]]
           n == Len(t)
<1>1. DocTyped(doc)
  BY BlankTyped DEF FileTyped
<1>2. Load(file) = [doc EXCEPT !.curves = loaded, !.customs = WithFallbacks("custom", @),
                               !.dashboard = Pins(@)]
  BY DEF Load
<1> HIDE DEF doc
<1>3. n \in Nat /\ DOMAIN t = 1..n /\ \A i \in 1..n : RawEntry(t[i])
  BY <1>1, TableParts DEF DocTyped
<1>4. Load(file).curves = loaded
  <2> HIDE DEF loaded
  <2>1. "curves" \in DOMAIN doc
    BY <1>1 DEF DocTyped
  <2> QED
    BY <1>2, <2>1
<1> HIDE DEF t, n
<1>5. named = [i \in 1..n |->
        [t[i] EXCEPT !.id = IF t[i].id \in {None, 0} THEN i ELSE t[i].id,
                     !.name = IF @ = <<>>
                              THEN IdName("curve", IF t[i].id \in {None, 0} THEN i ELSE t[i].id)
                              ELSE @]]
  BY <1>3 DEF WithFallbacks
<1> HIDE DEF named
<1>6. loaded = [i \in 1..n |-> loaded[i]] /\ DOMAIN named = 1..n
  BY <1>5
<1>7. ASSUME NEW i \in 1..n
      PROVE  SaneEntry(loaded[i])
  <2> DEFINE id == IF t[i].id \in {None, 0} THEN i ELSE t[i].id
             name == IF t[i].name = <<>> THEN IdName("curve", id) ELSE t[i].name
             def == NormalizedDef(t[i].def)
  <2>1. DOMAIN t[i] = {"id", "name", "def"} /\ IsDef(t[i].def)
    BY <1>3 DEF RawEntry
  <2>2. name # <<>>
    <3>1. IdName("curve", id) # <<>>
      BY DEF IdName, Encode
    <3> QED
      BY <3>1
  <2>3. Sane(def)
    BY <2>1, NormalizedStays
  <2>4. named[i] = [id |-> id, name |-> name, def |-> t[i].def]
    <3>1. named[i] = [t[i] EXCEPT !.id = id, !.name = IF @ = <<>> THEN IdName("curve", id) ELSE @]
      BY <1>5
    <3> HIDE DEF id
    <3> QED
      BY <2>1, <3>1
  <2>5. loaded[i] = [id |-> id, name |-> name, def |-> def]
    <3>1. loaded[i] = [named[i] EXCEPT !.def = NormalizedDef(named[i].def)]
      BY <1>6
    <3> HIDE DEF id, name, loaded
    <3> QED
      BY <2>4, <3>1
  <2> HIDE DEF id, name, def, loaded
  <2> QED
    BY <2>2, <2>3, <2>5 DEF SaneEntry, RawEntry, Sane
<1> HIDE DEF loaded
<1>8. n \in Nat
  BY <1>3
<1> QED
  BY <1>4, <1>6, <1>7, <1>8, TableBuilt

-----------------------------------------------------------------------------
(* What the window holds and asks.                                         *)

(* A curve in a dialog: a graph there is one that was drawn.               *)
Displayed(c) ==
  RawEntry(c) /\ (c.def.kind.kind = "graph" => c.def.kind.points \in Drawn)

(* A point is dragged, of the copy of a curve, or none is.                 *)
EditTyped(drag, edit) ==
  \/ drag = 0 /\ edit = None
  \/ /\ drag # 0 /\ edit # None /\ Displayed(edit) /\ edit.def.kind.kind = "graph"
     /\ drag \in DOMAIN edit.def.kind.points

NumberTyped(number) ==
  number # None =>
    /\ DOMAIN number = {"curve", "field", "value"}
    /\ number.field \in AllFields /\ number.value \in Int \cup {Bad}

SettingNames == {"up", "down", "start", "stop", "offset", "minimum"}
TuningTyped(tuning) ==
  tuning # None =>
    /\ DOMAIN tuning = {"fan", "field", "value"}
    /\ tuning.fan \in Fans /\ tuning.field \in SettingNames
    /\ tuning.value \in Int \cup {None, Bad}

StateTyped(state) ==
  state \notin {Connecting, Gone, Busy} =>
    /\ DOMAIN state.fans = Fans
    /\ \A f \in Fans : /\ state.fans[f].settings \in RawSettings
                       /\ state.fans[f].target \in Percents \cup {None}
                       /\ state.fans[f].readback \in Percents \cup {None}
                       /\ state.fans[f].floor \in Int

PendingTyped(pending) ==
  DOMAIN pending \subseteq Fans /\ \A f \in DOMAIN pending : pending[f] \in Percents
TunedTyped(tuned) ==
  DOMAIN tuned \subseteq Fans /\ \A f \in DOMAIN tuned : tuned[f] \in RawSettings

RequestTyped(r) ==
  /\ r.req = "curves" => SaneTable(r.to)
  /\ r.req = "settings" => r.to \in RawSettings
  /\ r.req = "target" => r.to \in Duties \cup {None}
QueueTyped(out) == \E S : out \in Seq(S) /\ \A r \in S : RequestTyped(r)

AppKeys ==
  {"file", "news", "names", "synced", "out", "state", "templated", "dialog",
   "name", "number", "edit", "drag", "custom", "customName", "renaming",
   "confirm", "clipboard", "tuning", "slider", "pending", "assigns", "tuned",
   "last", "asked", "mistaken", "units"}

AppTyped(x) ==
  /\ DOMAIN x = AppKeys
  /\ FileTyped(x.file) /\ SaneTable(x.names.curves)
  /\ EditTyped(x.drag, x.edit) /\ NumberTyped(x.number)
  /\ StateTyped(x.state) /\ x.slider \in Fans \cup {None} /\ TuningTyped(x.tuning)
  /\ PendingTyped(x.pending) /\ DOMAIN x.assigns \subseteq Fans /\ TunedTyped(x.tuned)
  /\ QueueTyped(x.out)

(* A handler that leaves all of this alone.                                *)
TypesKept(x, y) ==
  /\ DOMAIN y = DOMAIN x
  /\ y.file = x.file /\ y.names = x.names /\ y.drag = x.drag /\ y.edit = x.edit
  /\ y.number = x.number /\ y.state = x.state /\ y.slider = x.slider /\ y.tuning = x.tuning
  /\ y.pending = x.pending /\ y.assigns = x.assigns /\ y.tuned = x.tuned /\ y.out = x.out

(* The types depend on nothing else.                                       *)
LEMMA KeptTyped ==
  ASSUME NEW x, AppTyped(x), NEW y, TypesKept(x, y)
  PROVE  AppTyped(y)
  BY DEF AppTyped, TypesKept

(* A request is queued, if it is one.                                      *)
LEMMA SendTyped ==
  ASSUME NEW x, AppTyped(x), NEW req, NEW fan, NEW to,
         RequestTyped([req |-> req, fan |-> fan, to |-> to])
  PROVE  AppTyped(Send(x, req, fan, to))
<1> DEFINE r == [req |-> req, fan |-> fan, to |-> to]
           q == Append(x.out, r)
<1>1. QueueTyped(q)
  <2>1. PICK S : x.out \in Seq(S) /\ \A s \in S : RequestTyped(s)
    BY DEF AppTyped, QueueTyped
  <2> DEFINE T == S \cup {r}
  <2> HIDE DEF r
  <2>2. S \subseteq T /\ r \in T
    OBVIOUS
  <2>3. \A s \in T : RequestTyped(s)
    BY <2>1 DEF r
  <2> HIDE DEF T
  <2>4. q \in Seq(T)
    BY <2>1, <2>2
  <2> QED
    BY <2>3, <2>4 DEF QueueTyped
<1>2. Send(x, req, fan, to) = [x EXCEPT !.out = q]
  BY DEF Send
<1> HIDE DEF q
<1> QED
  BY <1>1, <1>2 DEF AppTyped, AppKeys

(* A config is written, or the file left to its author.                    *)
LEMMA WroteTyped ==
  ASSUME NEW x, AppTyped(x), NEW doc, DocTyped(doc)
  PROVE  AppTyped(Wrote(x, doc))
<1>1. FileTyped(Edited(x.file, doc))
  BY DEF AppTyped, FileTyped, Edited
<1> DEFINE file == Edited(x.file, doc)
<1>2. Wrote(x, doc) = [x EXCEPT !.file = file, !.news = @ \/ x.file.form # "torn"]
  BY DEF Wrote
<1> HIDE DEF file
<1> QED
  BY <1>1, <1>2 DEF AppTyped, AppKeys, file

(* The file is read again.                                                 *)
LEMMA ReadTyped ==
  ASSUME NEW x, AppTyped(x)
  PROVE  AppTyped(Reread(x)) /\ AppTyped(ReloadConfig(x))
<1> DEFINE names == Load(x.file)
           y == Reread(x)
           z == ReloadConfig(x)
<1>1. SaneTable(names.curves)
  BY LoadTyped DEF AppTyped
<1>2. y = [x EXCEPT !.names = names, !.news = FALSE]
  BY DEF Reread
<1>3. z = [y EXCEPT !.synced = FALSE]
  BY DEF ReloadConfig
<1> HIDE DEF names, y, z
<1>4. AppTyped(y)
  BY <1>1, <1>2 DEF AppTyped, AppKeys
<1>5. TypesKept(y, z)
  BY <1>3, <1>4 DEF TypesKept
<1> QED
  BY <1>4, <1>5, KeptTyped DEF y, z

(* What every handler that edits the file ends with.                       *)
LEMMA SavedTyped ==
  ASSUME NEW x, AppTyped(x), NEW doc, DocTyped(doc)
  PROVE  AppTyped(ReloadConfig(Wrote(x, doc))) /\ AppTyped(Reread(Wrote(x, doc)))
  BY WroteTyped, ReadTyped

(* A map of fans that are known, cut down or added to.                     *)
LEMMA MapEdits ==
  ASSUME NEW map, DOMAIN map \subseteq Fans
  PROVE  /\ \A T \in SUBSET DOMAIN map :
              /\ DOMAIN Restrict(map, T) = T /\ \A f \in T : Restrict(map, T)[f] = map[f]
         /\ \A f \in Fans : \A v :
              /\ DOMAIN Put(map, f, v) \subseteq Fans
              /\ \A g \in DOMAIN Put(map, f, v) :
                   Put(map, f, v)[g] = v \/ (g \in DOMAIN map /\ Put(map, f, v)[g] = map[g])
         /\ \A f : /\ DOMAIN Without(map, f) \subseteq DOMAIN map
                   /\ \A g \in DOMAIN Without(map, f) : Without(map, f)[g] = map[g]
<1>1. ASSUME NEW T \in SUBSET DOMAIN map
      PROVE  DOMAIN Restrict(map, T) = T /\ \A f \in T : Restrict(map, T)[f] = map[f]
  BY DEF Restrict
<1>2. ASSUME NEW f \in Fans, NEW v
      PROVE  /\ DOMAIN Put(map, f, v) \subseteq Fans
             /\ \A g \in DOMAIN Put(map, f, v) :
                  Put(map, f, v)[g] = v \/ (g \in DOMAIN map /\ Put(map, f, v)[g] = map[g])
  BY DEF Put
<1>3. ASSUME NEW f
      PROVE  /\ DOMAIN Without(map, f) \subseteq DOMAIN map
             /\ \A g \in DOMAIN Without(map, f) : Without(map, f)[g] = map[g]
  BY <1>1 DEF Without
<1> QED
  BY <1>1, <1>2, <1>3

(* A state is taken from the service, and a file written to start with.    *)
LEMMA TakenTyped ==
  ASSUME NEW x, AppTyped(x), NEW state, StateTyped(state)
  PROVE  AppTyped(Taken(x, state))
<1> DEFINE pending == IF x.slider = None THEN <<>> ELSE x.pending
           y == [x EXCEPT !.state = state, !.pending = pending]
           file == IF x.templated THEN y.file ELSE WriteTemplate(y.file)
           Heard(map, shown) == {f \in DOMAIN map :
                                   f \in DOMAIN state.fans => state.fans[f][shown] # map[f]}
           tuned == Restrict(y.tuned, Heard(y.tuned, "settings"))
           assigns == Restrict(y.assigns, Heard(y.assigns, "curve"))
           z == Taken(x, state)
<1>1. AppTyped(y)
  <2>1. PendingTyped(pending)
    <3>1. ASSUME NEW none, none = <<>>
          PROVE  PendingTyped(none)
      <4>1. DOMAIN none = {}
        BY <3>1
      <4> QED
        BY <4>1 DEF PendingTyped
    <3> QED
      BY <3>1 DEF AppTyped
  <2> HIDE DEF pending
  <2> QED
    BY <2>1 DEF AppTyped, AppKeys
<1>2. FileTyped(file)
  <2>1. FileTyped(y.file)
    BY <1>1 DEF AppTyped
  <2>2. DocTyped(SaveUnits(BlankDoc, "celsius", "rpm"))
    <3>1. DocTyped(SetValue(BlankDoc, "units", <<"temperature", 0>>, "celsius"))
      BY BlankTyped, DocEdits
    <3> QED
      BY <3>1, DocEdits DEF SaveUnits
  <2> HIDE DEF y
  <2> QED
    BY <2>1, <2>2 DEF WriteTemplate, FileTyped
<1>3. z = IF ~Ready(y) THEN y
          ELSE [y EXCEPT !.tuned = tuned, !.assigns = assigns, !.file = file,
                         !.news = @ \/ (~x.templated /\ x.file.form = "none"),
                         !.templated = TRUE]
  <2>1. y = [x EXCEPT !.state = state, !.pending = IF x.slider = None THEN <<>> ELSE @]
    BY DEF AppTyped, AppKeys
  <2> HIDE DEF y
  <2>2. z = IF ~Ready(y) THEN y
            ELSE [y EXCEPT !.tuned = Restrict(@, Heard(@, "settings")),
                           !.assigns = Restrict(@, Heard(@, "curve")),
                           !.file = IF x.templated THEN @ ELSE WriteTemplate(@),
                           !.news = @ \/ (~x.templated /\ x.file.form = "none"),
                           !.templated = TRUE]
    BY <2>1, Zenon DEF Taken
  <2> HIDE DEF Heard, z
  <2> QED
    BY <2>2
<1>4. TunedTyped(tuned) /\ DOMAIN assigns \subseteq Fans
  <2>1. TunedTyped(y.tuned) /\ DOMAIN y.assigns \subseteq Fans
    BY <1>1 DEF AppTyped
  <2> HIDE DEF y
  <2>2. /\ Heard(y.tuned, "settings") \in SUBSET DOMAIN y.tuned
        /\ Heard(y.assigns, "curve") \in SUBSET DOMAIN y.assigns
    OBVIOUS
  <2> HIDE DEF Heard
  <2>3. /\ DOMAIN tuned \subseteq DOMAIN y.tuned /\ \A f \in DOMAIN tuned : tuned[f] = y.tuned[f]
        /\ DOMAIN assigns \subseteq DOMAIN y.assigns
    BY <2>1, <2>2, MapEdits DEF TunedTyped
  <2> HIDE DEF tuned, assigns
  <2> QED
    BY <2>1, <2>3 DEF TunedTyped
<1> HIDE DEF y, file, tuned, assigns, z
<1>5. AppTyped(z)
  BY <1>1, <1>2, <1>3, <1>4 DEF AppTyped, AppKeys
<1> QED
  BY <1>5 DEF z

(* The file is read because it changed.                                    *)
LEMMA HotReloadedTyped ==
  ASSUME NEW x, AppTyped(x)
  PROVE  AppTyped(HotReloaded(x))
<1> DEFINE y == ReloadConfig(x)
           z == [y EXCEPT !.units = UnitsOf(y.names)]
<1>1. AppTyped(y)
  BY ReadTyped
<1>2. HotReloaded(x) = IF ~x.news THEN x ELSE z
  BY DEF HotReloaded
<1> HIDE DEF y
<1>3. TypesKept(y, z)
  BY <1>1 DEF TypesKept
<1> HIDE DEF z
<1> QED
  BY <1>1, <1>2, <1>3, KeptTyped

(* The definitions are queued for the service.                             *)
LEMMA SyncedTyped ==
  ASSUME NEW x, AppTyped(x)
  PROVE  AppTyped(Synced(x))
<1> DEFINE y == Send(x, "customs", None, x.names.customs)
           z == Send(y, "curves", None, x.names.curves)
<1>1. AppTyped(y)
  <2>1. RequestTyped([req |-> "customs", fan |-> None, to |-> x.names.customs])
    BY DEF RequestTyped
  <2> QED
    BY <2>1, SendTyped
<1> HIDE DEF y
<1>2. AppTyped(z)
  <2>1. SaneTable(x.names.curves)
    BY DEF AppTyped
  <2>2. RequestTyped([req |-> "curves", fan |-> None, to |-> x.names.curves])
    BY <2>1 DEF RequestTyped
  <2> QED
    BY <1>1, <2>2, SendTyped
<1>3. \/ Synced(x) = [z EXCEPT !.synced = TRUE]
      \/ Synced(x) = [x EXCEPT !.synced = FALSE]
      \/ Synced(x) = x
  BY Zenon DEF Synced, y
<1> HIDE DEF z
<1>4. TypesKept(z, [z EXCEPT !.synced = TRUE]) /\ TypesKept(x, [x EXCEPT !.synced = FALSE])
  BY DEF TypesKept
<1> QED
  BY <1>2, <1>3, <1>4, KeptTyped

-----------------------------------------------------------------------------
(* Fans.                                                                   *)

(* The last curve of a fan is written.                                     *)
LEMMA RememberTyped ==
  ASSUME NEW x, AppTyped(x), NEW f, NEW id
  PROVE  /\ AppTyped(Remember(x, f, id)) /\ Remember(x, f, id).state = x.state
         /\ AppTyped(RememberCurrent(x, f)) /\ RememberCurrent(x, f).state = x.state
<1>1. ASSUME NEW to PROVE AppTyped(Remember(x, f, to)) /\ Remember(x, f, to).state = x.state
  <2> DEFINE y == [x EXCEPT !.last = Put(@, f, to)]
             doc == SaveFanCurve(y.file.doc, <<"fan", f>>, to)
             z == Wrote(y, doc)
  <2>1. Remember(x, f, to) = IF Ready(y) THEN z ELSE y
    BY DEF Remember
  <2>2. TypesKept(x, y)
    BY DEF TypesKept
  <2> HIDE DEF y
  <2>3. AppTyped(y)
    BY <2>2, KeptTyped
  <2>4. DocTyped(doc)
    <3>1. DocTyped(y.file.doc)
      BY <2>3 DEF AppTyped, FileTyped
    <3> QED
      BY <3>1, DocEdits DEF SaveFanCurve
  <2> HIDE DEF doc
  <2>5. AppTyped(z) /\ z.state = y.state
    <3>1. z.state = y.state
      BY DEF Wrote
    <3> QED
      BY <2>3, <2>4, <3>1, WroteTyped
  <2> HIDE DEF z
  <2> QED
    BY <2>1, <2>2, <2>3, <2>5 DEF TypesKept
<1>2. \/ RememberCurrent(x, f) = x
      \/ \E to : RememberCurrent(x, f) = Remember(x, f, to)
  BY Zenon DEF RememberCurrent
<1>3. AppTyped(RememberCurrent(x, f)) /\ RememberCurrent(x, f).state = x.state
  BY <1>1, <1>2
<1> QED
  BY <1>1, <1>3

(* A fan is let go of, and what is assumed of it replaced.                 *)
LEMMA SwitchedTyped ==
  ASSUME NEW x, AppTyped(x), NEW f \in Fans, NEW id
  PROVE  /\ AppTyped([x EXCEPT !.pending = Without(@, f), !.assigns = Put(@, f, id)])
         /\ AppTyped([x EXCEPT !.assigns = Put(@, f, id)])
<1> DEFINE pending == Without(x.pending, f)
           assigns == Put(x.assigns, f, id)
<1>1. PendingTyped(x.pending) /\ DOMAIN x.assigns \subseteq Fans
  BY DEF AppTyped
<1>2. PendingTyped(pending)
  <2>1. /\ DOMAIN pending \subseteq DOMAIN x.pending
        /\ \A g \in DOMAIN pending : pending[g] = x.pending[g]
    BY <1>1, MapEdits DEF PendingTyped
  <2> HIDE DEF pending
  <2> QED
    BY <1>1, <2>1 DEF PendingTyped
<1>3. DOMAIN assigns \subseteq Fans
  BY <1>1, MapEdits
<1> HIDE DEF pending, assigns
<1>4. AppTyped([x EXCEPT !.pending = pending, !.assigns = assigns])
  BY <1>2, <1>3 DEF AppTyped, AppKeys
<1>5. AppTyped([x EXCEPT !.assigns = assigns])
  BY <1>3 DEF AppTyped, AppKeys
<1> QED
  BY <1>4, <1>5 DEF pending, assigns

(* A fan is given a curve, or taken off it.                                *)
LEMMA AssignTyped ==
  ASSUME NEW x, AppTyped(x), NEW f \in Fans, NEW id
  PROVE  AppTyped(AssignFan(x, f, id)) /\ AssignFan(x, f, id).state = x.state
<1> DEFINE y == IF id = None THEN RememberCurrent(x, f) ELSE Remember(x, f, id)
           z == [y EXCEPT !.pending = Without(@, f), !.assigns = Put(@, f, id)]
<1>1. AssignFan(x, f, id) = Send(z, "assign", f, id)
  BY DEF AssignFan
<1>2. AppTyped(y) /\ y.state = x.state
  BY RememberTyped, Zenon
<1> HIDE DEF y
<1>3. AppTyped(z) /\ z.state = y.state
  <2>1. z.state = y.state
    OBVIOUS
  <2> QED
    BY <1>2, <2>1, SwitchedTyped
<1> HIDE DEF z
<1>4. RequestTyped([req |-> "assign", fan |-> f, to |-> id])
  BY DEF RequestTyped
<1>5. AppTyped(Send(z, "assign", f, id))
  BY <1>3, <1>4, SendTyped
<1>6. Send(z, "assign", f, id).state = z.state
  BY DEF Send
<1> QED
  BY <1>1, <1>2, <1>3, <1>5, <1>6

(* What is known of a fan once the service was heard of.                   *)
LEMMA StatusTyped ==
  ASSUME NEW x, AppTyped(x), NEW f \in Fans
  PROVE  /\ FanStatus(x, f) # None =>
              /\ FanSettings(x, f) \in RawSettings
              /\ FanStatus(x, f).target \in Percents \cup {None}
              /\ FanStatus(x, f).floor \in Int
         /\ Ready(x) => /\ FanSettings(x, f) \in RawSettings
                        /\ FanStatus(x, f).target \in Percents \cup {None}
                        /\ FanStatus(x, f).readback \in Percents \cup {None}
<1>1. Ready(x) => /\ FanStatus(x, f) = x.state.fans[f]
                  /\ x.state.fans[f].settings \in RawSettings
                  /\ x.state.fans[f].target \in Percents \cup {None}
                  /\ x.state.fans[f].readback \in Percents \cup {None}
                  /\ x.state.fans[f].floor \in Int
  BY DEF AppTyped, StateTyped, FanStatus, Ready
<1>2. ~Ready(x) => FanStatus(x, f) = None
  BY DEF FanStatus
<1>3. f \in DOMAIN x.tuned => FanSettings(x, f) \in RawSettings
  BY DEF AppTyped, TunedTyped, FanSettings
<1>4. f \notin DOMAIN x.tuned => FanSettings(x, f) = FanStatus(x, f).settings
  BY DEF FanSettings
<1> QED
  BY <1>1, <1>2, <1>3, <1>4

(* A fan is moved by hand.                                                 *)
LEMMA PercentTyped ==
  ASSUME NEW x, AppTyped(x), NEW f \in Fans, NEW percent \in Int
  PROVE  AppTyped(ApplyPercent(x, f, percent))
<1> DEFINE fan == FanStatus(x, f)
           floor == IF fan = None THEN 0
                    ELSE Clamp(Larger(FanSettings(x, f).minimum, fan.floor), 0, Full)
           p == Clamp(percent, floor, Full)
           pending == Put(x.pending, f, p)
           z == [x EXCEPT !.pending = pending]
           b == RememberCurrent(z, f)
           c == [b EXCEPT !.assigns = Put(@, f, None)]
<1>1. ApplyPercent(x, f, percent) = Send(c, "target", f, PercentToDuty(p))
  <2>1. z = [x EXCEPT !.pending = Put(@, f, p)]
    BY DEF AppTyped, AppKeys
  <2> HIDE DEF z, p
  <2>2. ApplyPercent(x, f, percent)
          = Send([RememberCurrent([x EXCEPT !.pending = Put(@, f, p)], f)
                    EXCEPT !.assigns = Put(@, f, None)], "target", f, PercentToDuty(p))
    BY Zenon DEF ApplyPercent, p
  <2> QED
    BY <2>1, <2>2
<1>2. p \in Percents
  <2>1. floor \in Percents
    <3>1. CASE fan = None
      BY <3>1, FullTyped DEF Percents
    <3>2. CASE fan # None
      <4> DEFINE least == Larger(FanSettings(x, f).minimum, fan.floor)
      <4>1. FanSettings(x, f).minimum \in Int /\ fan.floor \in Int
        BY <3>2, StatusTyped DEF RawSettings
      <4>2. least \in Int
        BY <4>1 DEF Larger
      <4> HIDE DEF least
      <4>3. Clamp(least, 0, Full) \in Percents
        BY <4>2, ClampedTyped
      <4> QED
        BY <3>2, <4>3 DEF least
    <3> QED
      BY <3>1, <3>2
  <2> HIDE DEF floor
  <2> QED
    BY <2>1, FullTyped DEF Percents, Clamp
<1> HIDE DEF p
<1>3. PendingTyped(pending)
  <2>1. PendingTyped(x.pending)
    BY DEF AppTyped
  <2>2. /\ DOMAIN pending \subseteq Fans
        /\ \A g \in DOMAIN pending : pending[g] = p \/ (g \in DOMAIN x.pending /\ pending[g] = x.pending[g])
    BY <2>1, MapEdits DEF PendingTyped
  <2> HIDE DEF pending
  <2> QED
    BY <1>2, <2>1, <2>2 DEF PendingTyped
<1> HIDE DEF pending
<1>4. AppTyped(z)
  BY <1>3 DEF AppTyped, AppKeys
<1> HIDE DEF z
<1>5. AppTyped(b)
  BY <1>4, RememberTyped
<1> HIDE DEF b
<1>6. AppTyped(c)
  BY <1>5, SwitchedTyped
<1> HIDE DEF c
<1>7. RequestTyped([req |-> "target", fan |-> f, to |-> PercentToDuty(p)])
  <2>1. PercentToDuty(p) \in Duties
    BY <1>2, FullTyped, DutyTyped DEF Percents
  <2> QED
    BY <2>1 DEF RequestTyped
<1> QED
  BY <1>1, <1>6, <1>7, SendTyped

(* The modes of a fan.                                                     *)
LEMMA ModesTyped ==
  ASSUME NEW x, AppTyped(x), NEW f \in Fans
  PROVE  /\ AppTyped(SetCurveMode(x, f)) /\ AppTyped(SetAuto(x, f))
         /\ Ready(x) => AppTyped(SetManual(x, f))
<1>1. AppTyped(SetCurveMode(x, f))
  BY AssignTyped, Zenon DEF SetCurveMode
<1>2. Ready(x) => AppTyped(SetManual(x, f))
  <2> DEFINE fan == FanStatus(x, f)
             shown == IF f \in DOMAIN x.pending THEN x.pending[f]
                      ELSE IF fan.target # None THEN fan.target ELSE fan.readback
             percent == IF shown = None THEN Full \div 2 ELSE shown
  <2>1. SetManual(x, f) = ApplyPercent(x, f, percent)
    BY DEF SetManual
  <2>2. f \in DOMAIN x.pending => x.pending[f] \in Percents
    BY DEF AppTyped, PendingTyped
  <2>3. Ready(x) => /\ fan.target \in Percents \cup {None}
                    /\ fan.readback \in Percents \cup {None}
    BY StatusTyped
  <2> HIDE DEF fan
  <2>4. Ready(x) => shown \in Percents \cup {None}
    BY <2>2, <2>3
  <2> HIDE DEF shown
  <2>5. Full \div 2 \in Int /\ Percents \subseteq Int
    BY DEF Percents, Full
  <2>6. Ready(x) => percent \in Int
    BY <2>4, <2>5
  <2> HIDE DEF percent
  <2> QED
    BY <2>1, <2>6, PercentTyped
<1>3. AppTyped(SetAuto(x, f))
  <2> DEFINE b == RememberCurrent(x, f)
             c == [b EXCEPT !.pending = Without(@, f), !.assigns = Put(@, f, None)]
  <2>1. SetAuto(x, f) = Send(c, "target", f, None)
    BY DEF SetAuto
  <2>2. AppTyped(b)
    BY RememberTyped
  <2> HIDE DEF b
  <2>3. AppTyped(c)
    BY <2>2, SwitchedTyped
  <2> HIDE DEF c
  <2>4. RequestTyped([req |-> "target", fan |-> f, to |-> None])
    BY DEF RequestTyped
  <2> QED
    BY <2>1, <2>3, <2>4, SendTyped
<1> QED
  BY <1>1, <1>2, <1>3

(* A setting of a fan is committed.                                        *)
LEMMA TuneTyped ==
  ASSUME NEW x, AppTyped(x)
  PROVE  AppTyped(CommitTuning(x))
<1> DEFINE edit == x.tuning
           b == [x EXCEPT !.tuning = None]
           settings == WithSetting(FanSettings(x, edit.fan), edit.field, edit.value)
           tuned == Put(x.tuned, edit.fan, settings)
           c == [b EXCEPT !.tuned = tuned,
                          !.asked = Put(@, <<edit.fan, edit.field>>, edit.value)]
           d == Send(c, "settings", edit.fan, settings)
<1>1. \/ CommitTuning(x) = x \/ CommitTuning(x) = b
      \/ /\ edit # None /\ edit.value # Bad /\ FanStatus(x, edit.fan) # None
         /\ CommitTuning(x) = d
  <2>1. b.tuned = x.tuned /\ "tuned" \in DOMAIN b
    BY DEF AppTyped, AppKeys
  <2> DEFINE e == [b EXCEPT !.tuned = Put(@, edit.fan, settings),
                            !.asked = Put(@, <<edit.fan, edit.field>>, edit.value)]
  <2>2. c = e
    <3> HIDE DEF b, settings
    <3> QED
      BY <2>1
  <2>3. \/ CommitTuning(x) = x \/ CommitTuning(x) = b
        \/ /\ edit # None /\ edit.value # Bad /\ FanStatus(x, edit.fan) # None
           /\ CommitTuning(x) = Send(e, "settings", edit.fan, settings)
    BY Zenon DEF CommitTuning
  <2> HIDE DEF b, c, e
  <2> QED
    BY <2>2, <2>3
<1>2. AppTyped(b)
  BY DEF AppTyped, AppKeys, TuningTyped
<1>3. ASSUME edit # None, edit.value # Bad, FanStatus(x, edit.fan) # None
      PROVE  AppTyped(d)
  <2>1. edit.fan \in Fans /\ edit.field \in SettingNames /\ edit.value \in Int \cup {None}
    BY <1>3 DEF AppTyped, TuningTyped
  <2>2. FanSettings(x, edit.fan) \in RawSettings
    BY <1>3, <2>1, StatusTyped
  <2> DEFINE s == FanSettings(x, edit.fan)
             v == edit.value
             rate == IF v = None \/ v <= 0 THEN None ELSE Clamp(v, 0, Full \div 4)
             percent == IF v = None THEN None ELSE Clamp(v, 0, Full)
             new == CASE edit.field \in {"up", "down"} -> rate
                      [] edit.field \in {"start", "stop"} -> percent
                      [] edit.field = "offset" -> IF v = None THEN 0 ELSE Clamp(v, -Full, Full)
                      [] edit.field = "minimum" -> IF v = None THEN 0 ELSE percent
  <2>3. settings = [s EXCEPT ![edit.field] = new]
    BY DEF WithSetting
  <2>4. /\ rate \in Int \cup {None} /\ percent \in Int \cup {None}
        /\ v # None => percent \in Int /\ Clamp(v, -Full, Full) \in Int
    BY <2>1 DEF Clamp, Full
  <2> HIDE DEF rate, percent, s
  <2>5. /\ edit.field \in {"up", "down", "start", "stop"} => new \in Int \cup {None}
        /\ edit.field \in {"offset", "minimum"} => new \in Int
    BY <2>1, <2>4 DEF SettingNames
  <2> HIDE DEF new, settings
  <2>6. settings \in RawSettings
    BY <2>1, <2>2, <2>3, <2>5 DEF RawSettings, SettingNames, s
  <2>7. TunedTyped(tuned)
    <3>1. TunedTyped(x.tuned)
      BY DEF AppTyped
    <3>2. /\ DOMAIN tuned \subseteq Fans
          /\ \A g \in DOMAIN tuned : tuned[g] = settings \/ (g \in DOMAIN x.tuned /\ tuned[g] = x.tuned[g])
      BY <2>1, <3>1, MapEdits DEF TunedTyped
    <3> HIDE DEF tuned
    <3> QED
      BY <2>6, <3>1, <3>2 DEF TunedTyped
  <2> HIDE DEF b, tuned
  <2>8. AppTyped(c)
    BY <1>2, <2>7 DEF AppTyped, AppKeys
  <2> HIDE DEF c
  <2>9. RequestTyped([req |-> "settings", fan |-> edit.fan, to |-> settings])
    BY <2>6 DEF RequestTyped
  <2> QED
    BY <2>8, <2>9, SendTyped
<1> HIDE DEF d, b
<1> QED
  BY <1>1, <1>2, <1>3

-----------------------------------------------------------------------------
(* Curves.                                                                 *)

(* What is found in the loaded table is a curve as it is evaluated.        *)
LEMMA StoredTyped ==
  ASSUME NEW table, SaneTable(table), NEW id
  PROVE  Stored(table, id) = None \/ SaneEntry(Stored(table, id))
<1> DEFINE Found == {i \in 1..Len(table) : table[i].id = id}
           i == SelectInSeq(table, LAMBDA e : e.id = id)
<1>1. /\ Len(table) \in Nat /\ DOMAIN table = 1..Len(table)
      /\ \A k \in 1..Len(table) : SaneEntry(table[k])
  BY TableParts
<1>2. i = IF Found # {} THEN Min(Found) ELSE 0
  BY DEF SelectInSeq
<1>3. Found \in SUBSET Nat /\ Found \subseteq DOMAIN table
  BY <1>1
<1>4. Stored(table, id) = IF i = 0 THEN None ELSE table[i]
  BY DEF Stored
<1> HIDE DEF i, Found
<1>5. i = 0 \/ i \in DOMAIN table
  BY <1>2, <1>3, MinIn
<1> QED
  BY <1>1, <1>4, <1>5

(* A graph as it is evaluated is one that was drawn.                       *)
LEMMA SaneDisplayed ==
  ASSUME NEW c, SaneEntry(c)
  PROVE  Displayed(c)
<1> DEFINE kind == c.def.kind
<1>1. RawEntry(c) /\ IsDef(c.def) /\ NormalizedDef(c.def) = c.def
  BY DEF SaneEntry, RawEntry, Sane
<1>2. kind \in RawKinds
  BY <1>1 DEF IsDef
<1>3. SaneKind(kind) = kind
  <2> DEFINE def == c.def
             fns == SaneFunctions(def)
             h == IF fns[1].fn = "standard" THEN fns[1] ELSE def.hysteresis
             w == SaneWindow(def.window)
             k == SaneKind(def.kind)
  <2>1. NormalizedDef(def) = [def EXCEPT !.functions = fns, !.hysteresis = h, !.window = w, !.kind = k]
    <3>1. DOMAIN def = {"source", "functions", "hysteresis", "window", "kind"}
      BY <1>1 DEF IsDef
    <3> HIDE DEF fns, def
    <3>2. NormalizedDef(def)
            = [def EXCEPT !.functions = fns,
                          !.hysteresis = IF fns[1].fn = "standard" THEN fns[1] ELSE @,
                          !.window = SaneWindow(@), !.kind = SaneKind(@)]
      BY DEF NormalizedDef, fns
    <3> QED
      BY <3>1, <3>2
  <2>2. "kind" \in DOMAIN def
    BY <1>1 DEF IsDef
  <2> HIDE DEF fns, h, w, k
  <2>3. NormalizedDef(def).kind = k
    BY <2>1, <2>2
  <2> QED
    BY <1>1, <2>3 DEF k
<1>4. kind.kind = "graph" => kind.points \in Seq(Temperatures \X Percents)
  BY <1>2, <1>3, KindStays
<1>5. Temperatures \X Percents \subseteq Int \X Percents
  BY TemperaturesAssumption DEF Temperatures
<1> HIDE DEF kind
<1>6. kind.kind = "graph" => kind.points \in Seq(Int \X Percents)
  BY <1>4, <1>5
<1> QED
  BY <1>1, <1>6 DEF Displayed, Drawn, kind

(* However a curve is named or redefined, it is a curve.                   *)
LEMMA RedefinedTyped ==
  ASSUME NEW c, RawEntry(c)
  PROVE  /\ \A name : /\ RawEntry([c EXCEPT !.name = name])
                      /\ Displayed(c) => Displayed([c EXCEPT !.name = name])
         /\ \A def : IsDef(def) => RawEntry([c EXCEPT !.def = def])
         /\ \A source : RawEntry([c EXCEPT !.def.source = source])
         /\ \A kind \in RawKinds : RawEntry([c EXCEPT !.def.kind = kind])
<1>1. DOMAIN c = {"id", "name", "def"} /\ IsDef(c.def)
  BY DEF RawEntry
<1>2. ASSUME NEW name
      PROVE  [c EXCEPT !.name = name].def = c.def /\ RawEntry([c EXCEPT !.name = name])
  BY <1>1 DEF RawEntry
<1>3. ASSUME NEW def, IsDef(def)
      PROVE  RawEntry([c EXCEPT !.def = def])
  BY <1>1, <1>3 DEF RawEntry
<1>4. ASSUME NEW source
      PROVE  RawEntry([c EXCEPT !.def.source = source])
  <2> DEFINE def == [c.def EXCEPT !.source = source]
  <2>1. IsDef(def)
    BY <1>1, DefEdits
  <2>2. [c EXCEPT !.def.source = source] = [c EXCEPT !.def = def]
    BY <1>1
  <2> HIDE DEF def
  <2> QED
    BY <1>3, <2>1, <2>2
<1>5. ASSUME NEW kind \in RawKinds
      PROVE  RawEntry([c EXCEPT !.def.kind = kind])
  <2> DEFINE def == [c.def EXCEPT !.kind = kind]
  <2>1. IsDef(def)
    BY <1>1, DefEdits
  <2>2. [c EXCEPT !.def.kind = kind] = [c EXCEPT !.def = def]
    BY <1>1
  <2> HIDE DEF def
  <2> QED
    BY <1>3, <2>1, <2>2
<1>6. ASSUME NEW name, Displayed(c)
      PROVE  Displayed([c EXCEPT !.name = name])
  <2> DEFINE y == [c EXCEPT !.name = name]
  <2>1. y.def = c.def /\ RawEntry(y)
    BY <1>2
  <2> HIDE DEF y
  <2>2. Displayed(y)
    BY <1>6, <2>1 DEF Displayed
  <2> QED
    BY <2>2 DEF y
<1> QED
  BY <1>2, <1>3, <1>4, <1>5, <1>6

(* The curve in the dialog, under the name being typed.                    *)
LEMMA ShownTyped ==
  ASSUME NEW x, AppTyped(x), NEW id
  PROVE  CurveForDisplay(x, id) = None \/ Displayed(CurveForDisplay(x, id))
<1> DEFINE curve == IF x.edit # None /\ x.edit.id = id THEN x.edit ELSE Stored(x.names.curves, id)
           typed == IF x.name # None /\ x.name.id = id THEN Trimmed(x.name.field.text) ELSE <<>>
<1>1. curve = None \/ Displayed(curve)
  <2>1. x.edit # None => Displayed(x.edit)
    BY DEF AppTyped, EditTyped
  <2>2. Stored(x.names.curves, id) = None \/ Displayed(Stored(x.names.curves, id))
    BY StoredTyped, SaneDisplayed DEF AppTyped
  <2> QED
    BY <2>1, <2>2
<1>2. CurveForDisplay(x, id) = IF curve = None \/ typed = <<>> THEN curve ELSE [curve EXCEPT !.name = typed]
  BY DEF CurveForDisplay
<1> HIDE DEF curve, typed
<1>3. curve # None => Displayed([curve EXCEPT !.name = typed])
  BY <1>1, RedefinedTyped DEF Displayed
<1> QED
  BY <1>1, <1>2, <1>3

(* A curve or a sensor is written and the file read.                       *)
LEMMA CommitTyped ==
  ASSUME NEW x, AppTyped(x)
  PROVE  /\ \A c : RawEntry(c) => AppTyped(CommitCurve(x, c))
         /\ \A sensor : AppTyped(CommitCustom(x, sensor))
<1>1. DocTyped(x.file.doc)
  BY DEF AppTyped, FileTyped
<1>2. ASSUME NEW c, RawEntry(c)
      PROVE  AppTyped(CommitCurve(x, c))
  <2>1. DocTyped(SaveCurve(x.file.doc, c))
    BY <1>1, <1>2, DocEdits
  <2> QED
    BY <2>1, SavedTyped DEF CommitCurve
<1>3. ASSUME NEW sensor
      PROVE  AppTyped(CommitCustom(x, sensor))
  <2>1. DocTyped(SaveCustom(x.file.doc, sensor))
    BY <1>1, DocEdits
  <2> QED
    BY <2>1, SavedTyped DEF CommitCustom
<1> QED
  BY <1>2, <1>3

(* The copy under the mouse is let go of, or written.                      *)
LEMMA LetGoTyped ==
  ASSUME NEW x, AppTyped(x)
  PROVE  AppTyped([x EXCEPT !.drag = 0, !.edit = None]) /\ AppTyped(EndCurveDrag(x))
<1> DEFINE y == [x EXCEPT !.drag = 0, !.edit = None]
<1>1. AppTyped(y)
  BY DEF AppTyped, AppKeys, EditTyped
<1>2. EndCurveDrag(x) = IF x.drag = 0 THEN x ELSE IF x.edit = None THEN y ELSE CommitCurve(y, x.edit)
  BY DEF EndCurveDrag
<1> HIDE DEF y
<1>3. x.edit # None => RawEntry(x.edit)
  BY DEF AppTyped, EditTyped, Displayed
<1>4. x.edit # None => AppTyped(CommitCurve(y, x.edit))
  BY <1>1, <1>3, CommitTyped
<1>5. AppTyped(EndCurveDrag(x))
  BY <1>1, <1>2, <1>4
<1> QED
  BY <1>1, <1>5 DEF y

(* A curve is redefined, or not.                                           *)
LEMMA ChangedTyped ==
  ASSUME NEW x, AppTyped(x), NEW c, RawEntry(c), NEW def, def = None \/ IsDef(def)
  PROVE  AppTyped(Changed(x, c, def))
<1>1. def # None => AppTyped(CommitCurve(x, [c EXCEPT !.def = def]))
  BY RedefinedTyped, CommitTyped
<1> QED
  BY <1>1, Zenon DEF Changed

(* Its function, ...                                                       *)
LEMMA FunctionTyped ==
  ASSUME NEW x, AppTyped(x), NEW id, NEW f \in RawFunctions
  PROVE  AppTyped(SetPrimaryFunction(x, id, f))
<1> DEFINE y == EndCurveDrag(x)
           curve == CurveForDisplay(y, id)
           def == WithFunction(curve.def, SaneFunction(f))
<1>1. AppTyped(y)
  BY LetGoTyped
<1>2. SetPrimaryFunction(x, id, f) = IF curve = None THEN y ELSE Changed(y, curve, def)
  BY DEF SetPrimaryFunction
<1> HIDE DEF y
<1>3. curve = None \/ RawEntry(curve)
  BY <1>1, ShownTyped DEF Displayed
<1> HIDE DEF curve
<1>4. curve = None \/ IsDef(def)
  <2>1. SaneFunction(f) \in RawFunctions
    BY FunctionStays
  <2> QED
    BY <1>3, <2>1, WithFunctionTyped DEF RawEntry
<1> HIDE DEF def
<1>5. curve = None \/ AppTyped(Changed(y, curve, def))
  BY <1>1, <1>3, <1>4, ChangedTyped
<1> QED
  BY <1>1, <1>2, <1>5

(* ... a number of it, ...                                                 *)
LEMMA SetNumberTyped ==
  ASSUME NEW x, AppTyped(x), NEW id, NEW field \in AllFields, NEW v \in Int
  PROVE  AppTyped(SetCurveNumber(x, id, field, v))
<1> DEFINE y == IF field \in WindowFields \cup FunctionFields THEN EndCurveDrag(x) ELSE x
           curve == CurveForDisplay(y, id)
           def == WithField(curve.def, field, v)
<1>1. AppTyped(y)
  BY LetGoTyped, Zenon
<1>2. SetCurveNumber(x, id, field, v) = IF curve = None THEN y ELSE Changed(y, curve, def)
  BY DEF SetCurveNumber
<1> HIDE DEF y
<1>3. curve = None \/ RawEntry(curve)
  BY <1>1, ShownTyped DEF Displayed
<1> HIDE DEF curve
<1>4. curve = None \/ def = None \/ IsDef(def)
  BY <1>3, FieldTyped DEF RawEntry
<1> HIDE DEF def
<1>5. curve = None \/ AppTyped(Changed(y, curve, def))
  BY <1>1, <1>3, <1>4, ChangedTyped
<1> QED
  BY <1>1, <1>2, <1>5

(* ... by a step of it, ...                                                *)
LEMMA StepTyped ==
  ASSUME NEW x, AppTyped(x), NEW id, CurveForDisplay(x, id) # None,
         NEW field \in Offered(CurveForDisplay(x, id).def), NEW sign \in Int
  PROVE  /\ AppTyped(StepCurveNumber(x, id, field, sign))
         /\ FieldValue(CurveForDisplay(x, id).def, field) \in Int /\ field \in AllFields
<1> DEFINE curve == CurveForDisplay(x, id)
           value == FieldValue(curve.def, field)
           v == value + sign * StepOf(field)
<1>1. IsDef(curve.def)
  BY ShownTyped DEF Displayed, RawEntry
<1>2. value \in Int /\ field \in AllFields /\ StepOf(field) \in Int
  BY <1>1, FieldValueTyped
<1>3. StepCurveNumber(x, id, field, sign) = SetCurveNumber(x, id, field, v)
  BY DEF StepCurveNumber
<1> HIDE DEF value
<1>4. v \in Int
  BY <1>2
<1> HIDE DEF v
<1> QED
  BY <1>2, <1>3, <1>4, SetNumberTyped DEF value

(* ... its kind ...                                                        *)
LEMMA SetKindTyped ==
  ASSUME NEW x, AppTyped(x), NEW id, NEW kind \in RawKinds
  PROVE  AppTyped(SetCurveKind(x, id, kind))
<1> DEFINE curve == CurveForDisplay(x, id)
           y == [x EXCEPT !.drag = 0, !.edit = None]
           c == [curve EXCEPT !.def.kind = SaneKind(kind)]
<1>1. AppTyped(y) /\ (curve = None \/ RawEntry(curve))
  BY LetGoTyped, ShownTyped DEF Displayed
<1>2. SetCurveKind(x, id, kind) = IF curve = None THEN x ELSE CommitCurve(y, c)
  BY DEF SetCurveKind
<1> HIDE DEF curve
<1>3. curve = None \/ RawEntry(c)
  <2>1. SaneKind(kind) \in RawKinds
    BY KindStays
  <2> QED
    BY <1>1, <2>1, RedefinedTyped
<1> HIDE DEF c, y
<1>4. curve = None \/ AppTyped(CommitCurve(y, c))
  BY <1>1, <1>3, CommitTyped
<1> QED
  BY <1>2, <1>4

(* ... and its source.                                                     *)
LEMMA SourceTyped ==
  ASSUME NEW x, AppTyped(x), NEW id, CurveForDisplay(x, id) # None, NEW source
  PROVE  AppTyped(SetCurveSource(x, id, source))
<1> DEFINE curve == CurveForDisplay(x, id)
           c == [curve EXCEPT !.def.source = source]
<1>1. RawEntry(curve)
  BY ShownTyped DEF Displayed
<1>2. SetCurveSource(x, id, source) = CommitCurve(x, c)
  BY DEF SetCurveSource
<1> HIDE DEF curve
<1>3. RawEntry(c)
  BY <1>1, RedefinedTyped
<1> HIDE DEF c
<1> QED
  BY <1>2, <1>3, CommitTyped

(* A new curve, its dialog open.                                           *)
LEMMA AddCurveTyped ==
  ASSUME NEW x, AppTyped(x), NEW kind \in RawKinds
  PROVE  AppTyped(AddCurve(x, kind))
<1> DEFINE source == IF FirstTempSource(x) # None THEN FirstTempSource(x)
                     ELSE IF x.names.customs # <<>> THEN <<"custom", x.names.customs[1].id>>
                     ELSE None
           id == FreshId(x.names.curves)
           title == IdName("Curve", id)
           y == [x EXCEPT !.dialog = id, !.name = [id |-> id, field |-> Field(title)],
                          !.custom = None, !.customName = None, !.renaming = None]
           def == [source |-> source, functions |-> <<Hysteresis>>, hysteresis |-> Hysteresis,
                   window |-> DefaultWindow, kind |-> kind]
           c == [id |-> id, name |-> title, def |-> def]
<1>1. AddCurve(x, kind) = IF source = None THEN x ELSE CommitCurve(y, c)
  BY Zenon DEF AddCurve
<1> HIDE DEF source, id, title
<1>2. TypesKept(x, y)
  BY DEF TypesKept
<1>3. IsDef(def)
  <2>1. Hysteresis \in RawStandard
    BY DEF Hysteresis, RawStandard
  <2>2. \A h \in RawStandard : h \in RawFunctions /\ <<h>> \in Seq(RawFunctions)
    BY DEF RawFunctions
  <2>3. DefaultWindow \in RawWindows
    BY FullTyped DEF DefaultWindow, RawWindows
  <2> HIDE DEF def
  <2>4. /\ DOMAIN def = {"source", "functions", "hysteresis", "window", "kind"}
        /\ def.functions = <<Hysteresis>> /\ def.hysteresis = Hysteresis
        /\ def.window = DefaultWindow /\ def.kind = kind
    BY DEF def
  <2> QED
    BY <2>1, <2>2, <2>3, <2>4 DEF IsDef
<1> HIDE DEF y, def
<1>4. RawEntry(c)
  BY <1>3 DEF RawEntry
<1> HIDE DEF c
<1>5. AppTyped(CommitCurve(y, c))
  BY <1>2, <1>4, KeptTyped, CommitTyped
<1> QED
  BY <1>1, <1>5

(* The fans of a curve are released one after the other.                   *)
LEMMA ReleaseTyped ==
  ASSUME NEW x, AppTyped(x), NEW id
  PROVE  AppTyped(ReleaseFans(x, id))
<1>1. Ready(x) => DOMAIN x.state.fans = Fans /\ IsFiniteSet(DOMAIN x.state.fans)
  BY NameAssumption DEF AppTyped, StateTyped, Ready
<1>0. PICK n, order, after : n \in Nat /\ ReleasedBy(x, id, n, order, after)
  BY <1>1, ReleaseSteps
<1>2. /\ after[0] = x /\ ReleaseFans(x, id) = after[n]
      /\ \A i \in 1..n : after[i] = AssignFan(after[i - 1], order[i], None)
      /\ \A i \in 1..n : Ready(x) /\ order[i] \in DOMAIN x.state.fans
  BY <1>0 DEF ReleasedBy
<1>3. \A i \in 1..n : order[i] \in Fans
  BY <1>1, <1>2
<1> DEFINE Broken == {i \in 0..n : ~AppTyped(after[i])}
<1>4. Broken = {}
  <2>1. SUFFICES ASSUME Broken # {} PROVE FALSE
    OBVIOUS
  <2>2. Broken \in SUBSET Nat
    BY <1>0
  <2>3. PICK m \in Broken : \A j \in Broken : m <= j
    <3> HIDE DEF Broken
    <3> QED
      BY <2>1, <2>2, LeastIndex
  <2>4. m \in 0..n /\ ~AppTyped(after[m])
    BY <2>3
  <2>5. m # 0
    BY <1>2, <2>4, Zenon
  <2>6. m - 1 \in 0..n /\ ~(m <= m - 1) /\ m \in 1..n
    BY <1>0, <2>4, <2>5
  <2>7. AppTyped(after[m - 1])
    BY <2>3, <2>6
  <2>8. after[m] = AssignFan(after[m - 1], order[m], None) /\ order[m] \in Fans
    BY <1>2, <1>3, <2>6
  <2> QED
    BY <2>4, <2>7, <2>8, AssignTyped, Zenon
<1>5. n \in 0..n
  BY <1>0
<1> QED
  BY <1>2, <1>4, <1>5

(* A curve is deleted, and with it its color and its dialog.               *)
LEMMA DeleteTyped ==
  ASSUME NEW x, AppTyped(x), NEW id
  PROVE  AppTyped(DeleteTheCurve(x, id))
<1> DEFINE r == ReleaseFans(x, id)
           y == [r EXCEPT !.dialog = IF @ = id THEN None ELSE @,
                          !.name = IF @ # None /\ @.id = id THEN None ELSE @,
                          !.edit = None, !.drag = 0]
           w == Wrote(y, DeleteCurve(y.file.doc, id))
           doc == SaveCurveColor(w.file.doc, id, None)
<1>1. DeleteTheCurve(x, id) = ReloadConfig(Wrote(w, doc))
  BY DEF DeleteTheCurve
<1>2. AppTyped(r)
  BY ReleaseTyped
<1> HIDE DEF r
<1>3. AppTyped(y)
  <2> DEFINE dialog == IF r.dialog = id THEN None ELSE r.dialog
             name == IF r.name # None /\ r.name.id = id THEN None ELSE r.name
  <2>1. y = [r EXCEPT !.dialog = dialog, !.name = name, !.edit = None, !.drag = 0]
    BY <1>2 DEF AppTyped, AppKeys
  <2> HIDE DEF y, dialog, name
  <2> QED
    BY <1>2, <2>1 DEF AppTyped, AppKeys, EditTyped
<1> HIDE DEF y
<1>4. AppTyped(w)
  <2>1. DocTyped(DeleteCurve(y.file.doc, id))
    BY <1>3, DocEdits DEF AppTyped, FileTyped
  <2> QED
    BY <1>3, <2>1, WroteTyped
<1> HIDE DEF w
<1>5. DocTyped(doc)
  BY <1>4, DocEdits DEF AppTyped, FileTyped, SaveCurveColor
<1> HIDE DEF doc
<1> QED
  BY <1>1, <1>4, <1>5, SavedTyped

(* The dialog of a curve opens.                                            *)
LEMMA OpenCurveTyped ==
  ASSUME NEW x, AppTyped(x), NEW id
  PROVE  AppTyped(OpenCurveDialog(x, id))
<1>1. \E name : OpenCurveDialog(x, id) = [x EXCEPT !.number = None, !.dialog = id, !.name = name,
                                  !.custom = None, !.customName = None, !.renaming = None]
  BY Zenon DEF OpenCurveDialog
<1>2. ASSUME NEW name
      PROVE  AppTyped([x EXCEPT !.number = None, !.dialog = id, !.name = name,
                                !.custom = None, !.customName = None, !.renaming = None])
  BY DEF AppTyped, AppKeys, NumberTyped
<1> QED
  BY <1>1, <1>2

(* The name in the dialog is committed.                                    *)
LEMMA CurveNameTyped ==
  ASSUME NEW x, AppTyped(x)
  PROVE  AppTyped(CommitCurveName(x))
<1>1. \/ CommitCurveName(x) = x
      \/ \E name : CommitCurveName(x)
                     = ReloadConfig(Wrote(x, SaveCurveName(x.file.doc, x.name.id, name)))
  BY Zenon DEF CommitCurveName
<1>2. \A id, name : DocTyped(SaveCurveName(x.file.doc, id, name))
  BY DocEdits DEF AppTyped, FileTyped
<1>3. \A id, name : AppTyped(ReloadConfig(Wrote(x, SaveCurveName(x.file.doc, id, name))))
  BY <1>2, SavedTyped
<1> QED
  BY <1>1, <1>3, Zenon

(* The number that is edited is committed, ...                             *)
LEMMA CommitNumberTyped ==
  ASSUME NEW x, AppTyped(x)
  PROVE  AppTyped(CommitCurveNumber(x))
<1> DEFINE y == [x EXCEPT !.number = None]
           n == x.number
<1>1. AppTyped(y)
  BY DEF AppTyped, AppKeys, NumberTyped
<1>2. \/ CommitCurveNumber(x) = x \/ CommitCurveNumber(x) = y
      \/ /\ n # None /\ n.value # Bad
         /\ CommitCurveNumber(x) = SetCurveNumber(y, n.curve, n.field, n.value)
  BY Zenon DEF CommitCurveNumber
<1> HIDE DEF y
<1>3. n # None /\ n.value # Bad => n.field \in AllFields /\ n.value \in Int
  BY DEF AppTyped, NumberTyped
<1>4. n # None /\ n.value # Bad => AppTyped(SetCurveNumber(y, n.curve, n.field, n.value))
  BY <1>1, <1>3, SetNumberTyped
<1> QED
  BY <1>1, <1>2, <1>4

(* ... before another one is.                                              *)
LEMMA BeginNumberTyped ==
  ASSUME NEW x, AppTyped(x), NEW id, CurveForDisplay(x, id) # None,
         NEW field \in Offered(CurveForDisplay(x, id).def)
  PROVE  AppTyped(BeginCurveNumber(x, id, field))
<1> DEFINE y == CommitCurveNumber(x)
           value == FieldValue(CurveForDisplay(x, id).def, field)
           n == [curve |-> id, field |-> field, value |-> value]
<1>1. AppTyped(y)
  BY CommitNumberTyped
<1>2. BeginCurveNumber(x, id, field) = [y EXCEPT !.number = n]
  BY DEF BeginCurveNumber
<1>3. value \in Int /\ field \in AllFields
  BY StepTyped
<1> HIDE DEF y, value
<1>4. NumberTyped(n)
  BY <1>3 DEF NumberTyped
<1> HIDE DEF n
<1> QED
  BY <1>1, <1>2, <1>4 DEF AppTyped, AppKeys

(* The dialog of a curve closes.                                           *)
LEMMA CloseCurveTyped ==
  ASSUME NEW x, AppTyped(x)
  PROVE  AppTyped(CloseCurveDialog(x))
<1> DEFINE y == CommitCurveName(EndCurveDrag(CommitCurveNumber(x)))
<1>1. AppTyped(y)
  BY CommitNumberTyped, LetGoTyped, CurveNameTyped
<1>2. CloseCurveDialog(x) = [y EXCEPT !.dialog = None, !.name = None, !.number = None]
  BY DEF CloseCurveDialog
<1> HIDE DEF y
<1> QED
  BY <1>1, <1>2 DEF AppTyped, AppKeys, NumberTyped

-----------------------------------------------------------------------------
(* The plot.                                                               *)

(* No curve is None, the model value that stands for the None of the       *)
(* code's Option: a copy of a curve is there while it is edited.           *)
NoCurve == \A id, name, def : None # [id |-> id, name |-> name, def |-> def]

(* Other points for the curve under the mouse.                             *)
LEMMA RedrawnTyped ==
  ASSUME NoCurve, NEW c, Displayed(c), c.def.kind.kind = "graph", NEW points \in Drawn
  PROVE  LET y == [c EXCEPT !.def.kind.points = points]
         IN /\ Displayed(y) /\ y # None
            /\ y.def.kind.kind = "graph" /\ y.def.kind.points = points
<1> DEFINE kind == [kind |-> "graph", points |-> points]
           def == [c.def EXCEPT !.kind = kind]
           y == [id |-> c.id, name |-> c.name, def |-> def]
<1>1. DOMAIN c = {"id", "name", "def"} /\ IsDef(c.def)
  BY DEF Displayed, RawEntry
<1>2. points \in Seq(Int \X Int)
  <2>1. Percents \subseteq Int
    BY DEF Percents, Full
  <2>2. Int \X Percents \subseteq Int \X Int
    BY <2>1
  <2> QED
    BY <2>2 DEF Drawn
<1>3. kind \in RawKinds
  BY <1>2, KindsBuilt
<1>4. IsDef(def) /\ def.kind = kind
  <2> HIDE DEF kind
  <2>1. "kind" \in DOMAIN c.def
    BY <1>1 DEF IsDef
  <2> QED
    BY <1>1, <1>3, <2>1, DefEdits
<1>5. [c EXCEPT !.def.kind.points = points] = y
  <2>1. c.def.kind = [kind |-> "graph", points |-> c.def.kind.points]
    BY <1>1, KindParts DEF IsDef
  <2>2. [c.def.kind EXCEPT !.points = points] = kind
    BY <2>1
  <2> HIDE DEF kind
  <2>3. [c.def EXCEPT !.kind.points = points] = def
    BY <1>1, <2>2 DEF IsDef
  <2> HIDE DEF def
  <2> QED
    BY <1>1, <2>3
<1>6. y # None
  BY Zenon DEF NoCurve
<1> HIDE DEF def
<1>7. RawEntry(y)
  BY <1>4 DEF RawEntry
<1>8. y.def.kind.kind = "graph" /\ y.def.kind.points = points
  BY <1>4
<1> HIDE DEF y
<1> QED
  BY <1>5, <1>6, <1>7, <1>8 DEF Displayed

(* A point of the plot is taken away, grabbed or added, ...                *)
LEMMA PlotDownTyped ==
  ASSUME NoCurve, NEW x, AppTyped(x), NEW cursor \in Int \X Int, NEW twice
  PROVE  AppTyped(CurveEditorDown(x, cursor, twice))
<1> DEFINE curve == CurveForDisplay(x, x.dialog)
           window == SaneWindow(curve.def.window)
           points == curve.def.kind.points
           hit == Grabbed(points, window, cursor)
           at == PlotValue(window, cursor)
           Grab(i, with) == [x EXCEPT !.drag = i, !.edit = [curve EXCEPT !.def.kind.points = with]]
           y == [x EXCEPT !.drag = 0, !.edit = None]
           c == [curve EXCEPT !.def.kind.points = RemoveAt(@, hit)]
           down == CurveEditorDown(x, cursor, twice)
<1>1. down = IF curve = None \/ curve.def.kind.kind # "graph" THEN x
             ELSE IF hit = 0 THEN Grab(InsertPlace(points, at), InsertPoint(points, at))
             ELSE IF ~twice THEN Grab(hit, points)
             ELSE IF Len(points) = 1 THEN x
             ELSE CommitCurve(y, c)
  BY Zenon DEF CurveEditorDown
<1> SUFFICES ASSUME curve # None, curve.def.kind.kind = "graph" PROVE AppTyped(down)
  BY <1>1
<1>2. Displayed(curve) /\ AppTyped(y)
  BY ShownTyped, LetGoTyped
<1>3. points \in Drawn /\ at \in Int \X Percents
  <2>1. curve.def.window \in RawWindows
    BY <1>2 DEF Displayed, RawEntry, IsDef
  <2> QED
    BY <1>2, <2>1, PlotTyped DEF Displayed
<1>4. hit = 0 \/ (hit \in 1..Len(points) /\ hit # 0)
  <2> DEFINE Hits == {i \in 1..Len(points) : Near(window, points[i], cursor)}
  <2>1. hit = IF Hits # {} THEN Min(Hits) ELSE 0
    BY DEF Grabbed, SelectInSeq
  <2>2. Len(points) \in Nat
    BY <1>3 DEF Drawn
  <2>3. Hits \in SUBSET Nat /\ Hits \subseteq 1..Len(points) /\ 0 \notin Hits
    BY <2>2
  <2> HIDE DEF Hits, hit
  <2> QED
    BY <2>1, <2>3, MinIn
<1>5. ASSUME NEW with \in Drawn, NEW i \in DOMAIN with, i # 0
      PROVE  AppTyped(Grab(i, with))
  <2> DEFINE edit == [curve EXCEPT !.def.kind.points = with]
  <2> HIDE DEF curve
  <2>1. /\ Displayed(edit) /\ edit # None
        /\ edit.def.kind.kind = "graph" /\ edit.def.kind.points = with
    BY <1>2, RedrawnTyped
  <2> HIDE DEF edit
  <2>2. EditTyped(i, edit)
    BY <1>5, <2>1 DEF EditTyped
  <2>3. AppTyped([x EXCEPT !.drag = i, !.edit = edit])
    BY <2>2 DEF AppTyped, AppKeys
  <2> QED
    BY <2>3 DEF edit
<1>6. c = [curve EXCEPT !.def.kind.points = RemoveAt(points, hit)]
  <2>1. /\ "def" \in DOMAIN curve /\ "kind" \in DOMAIN curve.def
        /\ "points" \in DOMAIN curve.def.kind
    <3>1. /\ DOMAIN curve = {"id", "name", "def"}
          /\ DOMAIN curve.def = {"source", "functions", "hysteresis", "window", "kind"}
          /\ curve.def.kind = [kind |-> "graph", points |-> curve.def.kind.points]
      BY <1>2, KindParts DEF Displayed, RawEntry, IsDef
    <3> HIDE DEF curve
    <3>2. DOMAIN curve.def.kind = {"kind", "points"}
      BY <3>1
    <3> QED
      BY <3>1, <3>2
  <2> HIDE DEF curve, hit
  <2> QED
    BY <2>1
<1> HIDE DEF curve, window, at, y, c, Grab, down
<1>7. CASE hit = 0
  <2>1. /\ InsertPoint(points, at) \in Drawn
        /\ InsertPlace(points, at) \in DOMAIN InsertPoint(points, at)
        /\ InsertPlace(points, at) # 0
    BY <1>3, InsertTyped
  <2> QED
    BY <1>1, <1>5, <1>7, <2>1
<1>8. CASE hit # 0 /\ ~twice
  <2>1. hit \in DOMAIN points
    BY <1>3, <1>4, <1>8 DEF Drawn
  <2> QED
    BY <1>1, <1>3, <1>5, <1>8, <2>1
<1>9. CASE hit # 0 /\ twice
  <2> DEFINE fewer == RemoveAt(points, hit)
  <2>1. fewer \in Drawn
    <3> HIDE DEF points, hit
    <3> QED
      BY <1>3, <1>4, <1>9, SeqEdits DEF Drawn
  <2> HIDE DEF fewer
  <2>2. RawEntry([curve EXCEPT !.def.kind.points = fewer])
    BY <1>2, <2>1, RedrawnTyped DEF Displayed
  <2>3. c = [curve EXCEPT !.def.kind.points = fewer]
    BY <1>6 DEF fewer
  <2>4. AppTyped(CommitCurve(y, c))
    BY <1>2, <2>2, <2>3, CommitTyped
  <2> QED
    BY <1>1, <1>9, <2>4
<1>10. AppTyped(down)
  BY <1>7, <1>8, <1>9
<1> QED
  BY <1>10 DEF down

(* ... and dragged.                                                        *)
LEMMA DragMoveTyped ==
  ASSUME NoCurve, NEW x, AppTyped(x), NEW cursor \in Int \X Int
  PROVE  AppTyped(CurveDragMove(x, cursor))
<1> DEFINE c == x.edit
           points == c.def.kind.points
           window == SaneWindow(c.def.window)
           at == PlotValue(window, cursor)
           with == DragPoint(points, x.drag, window, at)
           edit == [c EXCEPT !.def.kind.points = with]
           moved == CurveDragMove(x, cursor)
<1>1. moved = IF x.drag = 0 \/ x.edit = None THEN x
              ELSE [x EXCEPT !.edit.def.kind.points = DragPoint(@, x.drag, window, at)]
  BY DEF CurveDragMove
<1> SUFFICES ASSUME x.drag # 0, x.edit # None PROVE AppTyped(moved)
  BY <1>1
<1>2. /\ Displayed(c) /\ c.def.kind.kind = "graph" /\ x.drag \in DOMAIN points
      /\ points \in Drawn
  BY DEF AppTyped, EditTyped, Displayed
<1>3. window \in RawWindows /\ at \in Int \X Percents
  <2>1. c.def.window \in RawWindows
    BY <1>2 DEF Displayed, RawEntry, IsDef
  <2> QED
    BY <2>1, PlotTyped, WindowStays
<1>4. moved = [x EXCEPT !.edit = edit]
  <2>1. /\ DOMAIN c = {"id", "name", "def"}
        /\ DOMAIN c.def = {"source", "functions", "hysteresis", "window", "kind"}
        /\ c.def.kind = [kind |-> "graph", points |-> points]
    BY <1>2, KindParts DEF Displayed, RawEntry, IsDef
  <2>2. DOMAIN c.def.kind = {"kind", "points"}
    <3> HIDE DEF c
    <3> QED
      BY <2>1
  <2>3. "edit" \in DOMAIN x
    BY DEF AppTyped, AppKeys
  <2> HIDE DEF window, at, moved
  <2>4. moved = [x EXCEPT !.edit.def.kind.points = DragPoint(@, x.drag, window, at)]
    BY <1>1
  <2> QED
    BY <2>1, <2>2, <2>3, <2>4
<1> HIDE DEF c, window, at, moved
<1>5. with \in Drawn /\ x.drag \in DOMAIN with
  BY <1>2, <1>3, DragTyped
<1> HIDE DEF points, with
<1>6. /\ Displayed(edit) /\ edit # None
      /\ edit.def.kind.kind = "graph" /\ edit.def.kind.points = with
  BY <1>2, <1>5, RedrawnTyped
<1> HIDE DEF edit
<1>7. EditTyped(x.drag, edit)
  BY <1>5, <1>6 DEF EditTyped
<1> QED
  BY <1>4, <1>7 DEF AppTyped, AppKeys

-----------------------------------------------------------------------------
(* Custom sensors and names.                                               *)

(* The dialog of a sensor opens and closes, of one that was there or a new *)
(* one.                                                                    *)
LEMMA CustomDialogTyped ==
  ASSUME NEW x, AppTyped(x), NEW id
  PROVE  /\ AppTyped(OpenCustomDialog(x, id)) /\ AppTyped(AddCustom(x))
         /\ AppTyped(CloseCustomDialog(x)) /\ AppTyped(CommitCustomDialog(x))
<1>1. ASSUME NEW n, NEW input
      PROVE  AppTyped([x EXCEPT !.custom = n, !.customName = input,
                                !.dialog = None, !.name = None, !.renaming = None])
  <2> DEFINE y == [x EXCEPT !.custom = n, !.customName = input,
                            !.dialog = None, !.name = None, !.renaming = None]
  <2>1. TypesKept(x, y)
    BY DEF TypesKept
  <2> HIDE DEF y
  <2>2. AppTyped(y)
    BY <2>1, KeptTyped
  <2> QED
    BY <2>2 DEF y
<1>2. AppTyped(OpenCustomDialog(x, id))
  <2>1. PICK input : OpenCustomDialog(x, id) = [x EXCEPT !.custom = id, !.customName = input,
                                         !.dialog = None, !.name = None, !.renaming = None]
    BY Zenon DEF OpenCustomDialog
  <2>2. AppTyped([x EXCEPT !.custom = id, !.customName = input,
                           !.dialog = None, !.name = None, !.renaming = None])
    BY <1>1, Zenon
  <2> QED
    BY <2>1, <2>2, Zenon
<1>3. AppTyped(AddCustom(x))
  <2> DEFINE n == FreshId(x.names.customs)
             title == IdName("Sensor", n)
             input == [id |-> n, field |-> Field(title)]
             y == [x EXCEPT !.custom = n, !.customName = input,
                            !.dialog = None, !.name = None, !.renaming = None]
             sensor == [id |-> n, name |-> title, def |-> [how |-> "average", inputs |-> <<>>]]
  <2>1. AddCustom(x) = CommitCustom(y, sensor)
    BY DEF AddCustom
  <2> HIDE DEF n, input, sensor
  <2>2. AppTyped(y)
    BY <1>1
  <2> HIDE DEF y
  <2> QED
    BY <2>1, <2>2, CommitTyped
<1>4. ASSUME NEW y, AppTyped(y)
      PROVE  AppTyped(CloseCustomDialog(y))
  <2>1. TypesKept(y, CloseCustomDialog(y))
    BY DEF CloseCustomDialog, TypesKept
  <2> QED
    BY <1>4, <2>1, KeptTyped
<1>5. AppTyped(CommitCustomDialog(x))
  <2> DEFINE typed == IF x.customName = None THEN <<>> ELSE Trimmed(x.customName.field.text)
             c == Wrote(x, SaveCustomName(x.file.doc, x.customName.id, typed))
             d == [c EXCEPT !.synced = FALSE]
             y == IF typed = <<>> THEN x ELSE d
  <2>1. CommitCustomDialog(x) = Reread(CloseCustomDialog(y))
    BY DEF CommitCustomDialog
  <2> HIDE DEF typed
  <2>2. AppTyped(c)
    <3>1. DocTyped(SaveCustomName(x.file.doc, x.customName.id, typed))
      BY DocEdits DEF AppTyped, FileTyped
    <3> QED
      BY <3>1, WroteTyped
  <2> HIDE DEF c
  <2>3. TypesKept(c, d)
    BY DEF TypesKept
  <2> HIDE DEF d
  <2>4. AppTyped(y)
    BY <2>2, <2>3, KeptTyped
  <2> HIDE DEF y
  <2> QED
    BY <1>4, <2>1, <2>4, ReadTyped
<1> QED
  BY <1>2, <1>3, <1>4, <1>5

(* A sensor is deleted, and the curves that read it are repointed.         *)
LEMMA DeleteCustomTyped ==
  ASSUME NEW x, AppTyped(x), NEW id
  PROVE  AppTyped(DeleteCustomSensor(x, id))
<1> DEFINE curves == x.names.curves
<1>0. /\ Len(curves) \in Nat
      /\ \A i \in 1..Len(curves) : RawEntry(curves[i])
  BY TableParts DEF AppTyped, SaneEntry
<1>1. PICK n, source, after : n \in Nat /\ RepointedBy(x, id, n, source, after)
  BY <1>0, RepointSteps
<1>2. n = Len(curves)
  BY <1>1 DEF RepointedBy
<1> DEFINE b == after[n]
           Broken == {i \in 0..n : ~AppTyped(after[i])}
<1>3. ASSUME NEW i \in 1..n PROVE RawEntry(Repointed(curves[i], source))
  <2>1. RawEntry(curves[i])
    BY <1>0, <1>2
  <2> HIDE DEF curves
  <2> QED
    BY <2>1, RedefinedTyped DEF Repointed
<1> HIDE DEF curves
<1>4. Broken = {}
  <2>1. SUFFICES ASSUME Broken # {} PROVE FALSE
    OBVIOUS
  <2>2. Broken \in SUBSET Nat
    BY <1>1
  <2>3. PICK m \in Broken : \A j \in Broken : m <= j
    <3> HIDE DEF Broken
    <3> QED
      BY <2>1, <2>2, LeastIndex
  <2>4. m \in 0..n /\ ~AppTyped(after[m])
    BY <2>3
  <2>5. m # 0
    BY <1>1, <2>4, Zenon DEF RepointedBy
  <2>6. m - 1 \in 0..n /\ ~(m <= m - 1) /\ m \in 1..n
    BY <1>1, <2>4, <2>5
  <2> DEFINE c == after[m - 1]
  <2>7. AppTyped(c)
    BY <2>3, <2>6
  <2>8. after[m] = c \/ after[m] = Wrote(c, SaveCurve(c.file.doc, Repointed(curves[m], source)))
    BY <1>1, <2>6, Zenon DEF curves, RepointedBy
  <2> HIDE DEF c
  <2>9. DocTyped(SaveCurve(c.file.doc, Repointed(curves[m], source)))
    BY <1>3, <2>6, <2>7, DocEdits DEF AppTyped, FileTyped
  <2>10. AppTyped(after[m])
    BY <2>7, <2>8, <2>9, WroteTyped
  <2> QED
    BY <2>4, <2>10
<1>5. AppTyped(b)
  <2>1. n \in 0..n
    BY <1>1
  <2> QED
    BY <1>4, <2>1
<1>6. DeleteCustomSensor(x, id) = ReloadConfig(Wrote(b, DeleteCustom(b.file.doc, id)))
  BY <1>1 DEF RepointedBy
<1> HIDE DEF b
<1>7. DocTyped(DeleteCustom(b.file.doc, id))
  BY <1>5, DocEdits DEF AppTyped, FileTyped
<1> QED
  BY <1>5, <1>6, <1>7, SavedTyped

(* The name of a channel is put into a field and committed.                *)
LEMMA RenameTyped ==
  ASSUME NEW x, AppTyped(x), NEW key, NEW shown
  PROVE  AppTyped(BeginRename(x, key, shown)) /\ AppTyped(CommitRename(x))
<1>1. AppTyped(BeginRename(x, key, shown))
  <2> DEFINE input == [key |-> key, field |-> Field(shown)]
  <2>1. BeginRename(x, key, shown) =
          [x EXCEPT !.tuning = None, !.dialog = None, !.name = None, !.custom = None,
                    !.customName = None, !.renaming = input]
    BY DEF BeginRename
  <2> HIDE DEF input
  <2> QED
    BY <2>1 DEF AppTyped, AppKeys, TuningTyped
<1>2. AppTyped(CommitRename(x))
  <2> DEFINE y == [x EXCEPT !.renaming = None]
  <2>1. \/ CommitRename(x) = x \/ CommitRename(x) = Reread(y)
        \/ \E k, v : CommitRename(x) = Reread(Wrote(y, SaveChipName(y.file.doc, k, v)))
    BY Zenon DEF CommitRename
  <2>2. TypesKept(x, y)
    BY DEF TypesKept
  <2> HIDE DEF y
  <2>3. AppTyped(y)
    BY <2>2, KeptTyped
  <2>4. \A k, v : DocTyped(SaveChipName(y.file.doc, k, v))
    BY <2>3, DocEdits DEF AppTyped, FileTyped, SaveChipName
  <2>5. AppTyped(Reread(y)) /\ \A k, v : AppTyped(Reread(Wrote(y, SaveChipName(y.file.doc, k, v))))
    BY <2>3, <2>4, SavedTyped, ReadTyped
  <2> QED
    BY <2>1, <2>5, Zenon
<1> QED
  BY <1>1, <1>2

(* The units are chosen.                                                   *)
LEMMA UnitsTyped ==
  ASSUME NEW x, AppTyped(x), NEW units
  PROVE  AppTyped(SetUnits(x, units))
<1> DEFINE doc == SaveUnits(x.file.doc, units.temp, units.fan)
           y == Wrote(x, doc)
           z == [y EXCEPT !.units = units, !.news = FALSE]
<1>1. DocTyped(doc)
  <2> DEFINE first == SetValue(x.file.doc, "units", <<"temperature", 0>>, units.temp)
  <2>1. DocTyped(first)
    BY DocEdits DEF AppTyped, FileTyped
  <2>2. doc = SetValue(first, "units", <<"fan", 0>>, units.fan)
    BY DEF SaveUnits
  <2> HIDE DEF first, doc
  <2> QED
    BY <2>1, <2>2, DocEdits
<1>2. SetUnits(x, units) = z
  BY DEF SetUnits
<1> HIDE DEF doc
<1>3. AppTyped(y)
  BY <1>1, WroteTyped
<1> HIDE DEF y
<1>4. TypesKept(y, z)
  BY DEF TypesKept
<1> HIDE DEF z
<1> QED
  BY <1>2, <1>3, <1>4, KeptTyped

-----------------------------------------------------------------------------
(* The steps.                                                              *)

(* What the service has.                                                   *)
ServiceTyped(s) ==
  /\ SaneTable(s.curves)
  /\ \A f \in Fans : /\ s.settings[f] \in RawSettings /\ Sanitized(s.settings[f]) = s.settings[f]
                     /\ s.target[f] \in Duties \cup {None}

(* The inductive invariant: what the window, its client and the service    *)
(* hold.                                                                   *)
HeldTyped ==
  site \in DOMAIN Sites /\ AppTyped(app) /\ StateTyped(feed) /\ ServiceTyped(service)

(* A handler has run and what the window holds is of its type.             *)
TypesStay == AppTyped(app') /\ UNCHANGED <<site, feed, service>>

(* A handler that keeps the types makes a step that does.                  *)
LEMMA HandledTyped ==
  ASSUME NEW next, AppTyped(next), Handled(next) \/ Clicked(next)
  PROVE  TypesStay
  BY DEF Handled, Clicked, TypesStay

(* What the user has to choose from at an installation.                    *)
LEMMA ChoicesTyped ==
  ASSUME HeldTyped
  PROVE  /\ Here.percents \subseteq Int /\ Here.numbers \subseteq Int \cup {None, Bad}
         /\ Here.cursors \subseteq Int \X Int /\ Here.blank \in RawKinds /\ Here.floor \in Int
         /\ Here.readback \in Percents \cup {None}
         /\ Uses("tuning") => Here.fields \subseteq SettingNames
<1>1. site \in DOMAIN Sites
  BY DEF HeldTyped
<1>2. DOMAIN Here.settings = SettingNames
  <2>1. Here.settings \in RawSettings
    BY <1>1, UseAssumption DEF Here
  <2> QED
    BY <2>1, SettingsStay DEF SettingNames
<1> QED
  BY <1>1, <1>2, UseAssumption DEF Here, Uses

(* The cards of the fans.                                                  *)
LEMMA FanTyped ==
  ASSUME HeldTyped, FanAction
  PROVE  TypesStay
<1>0. AppTyped(app)
  BY DEF HeldTyped
<1>1. CASE Press
  <2>1. AppTyped(CommitTuning(app)) /\ AppTyped(CommitCurveNumber(app))
    BY <1>0, TuneTyped, CommitNumberTyped
  <2> QED
    BY <1>1, <2>1, HandledTyped, Zenon DEF Press
<1>2. CASE \E f \in Fans : CurveMode(f)
  BY <1>0, <1>2, ModesTyped, HandledTyped, Zenon DEF CurveMode
<1>3. CASE \E f \in Fans : ByHand(f)
  <2>1. PICK f \in Fans : ByHand(f)
    BY <1>3
  <2> DEFINE held == [app EXCEPT !.slider = f]
  <2>2. AppTyped(held)
    BY <1>0 DEF AppTyped, AppKeys
  <2> HIDE DEF held
  <2>3. \A p \in Int : AppTyped(ApplyPercent(held, f, p))
    BY <2>2, PercentTyped
  <2>4. \/ Clicked(SetManual(app, f)) \/ Clicked(SetAuto(app, f))
        \/ \E p \in Here.percents : Clicked(ApplyPercent(held, f, p))
    BY <2>1, Zenon DEF ByHand, held
  <2>5. Here.percents \subseteq Int
    BY ChoicesTyped
  <2>6. Ready(app)
    BY <2>1 DEF ByHand, PageUp
  <2>7. AppTyped(SetManual(app, f)) /\ AppTyped(SetAuto(app, f))
    BY <1>0, <2>6, ModesTyped
  <2>8. CASE \E p \in Here.percents : Clicked(ApplyPercent(held, f, p))
    BY <2>3, <2>5, <2>8, HandledTyped, Zenon
  <2> QED
    BY <2>4, <2>7, <2>8, HandledTyped, Zenon
<1>4. CASE \E f \in Fans, field \in Here.fields : BeginTuning(f, field)
  <2>1. PICK f \in Fans, field \in Here.fields : BeginTuning(f, field)
    BY <1>4
  <2>2. Ready(app) /\ Uses("tuning")
    BY <2>1 DEF BeginTuning, PageUp
  <2> DEFINE value == FanSettings(app, f)[field]
             tuning == [fan |-> f, field |-> field, value |-> value]
             next == [app EXCEPT !.renaming = None, !.tuning = tuning]
  <2>3. Clicked(next)
    BY <2>1 DEF BeginTuning
  <2>4. field \in SettingNames
    BY <2>2, ChoicesTyped
  <2>5. value \in Int \cup {None}
    <3>1. FanSettings(app, f) \in RawSettings
      BY <1>0, <2>2, StatusTyped
    <3> QED
      BY <2>4, <3>1 DEF RawSettings, SettingNames
  <2> HIDE DEF value
  <2>6. TuningTyped(tuning)
    BY <2>4, <2>5 DEF TuningTyped
  <2> HIDE DEF tuning
  <2>7. AppTyped(next)
    BY <1>0, <2>6 DEF AppTyped, AppKeys
  <2> HIDE DEF next
  <2> QED
    BY <2>3, <2>7, HandledTyped
<1>5. CASE \E f \in Fans, id \in Here.ids : PickCurve(f, id)
  BY <1>0, <1>5, AssignTyped, HandledTyped, Zenon DEF PickCurve
<1>6. CASE \E p \in Here.percents : MoveSlider(p)
  <2>1. PICK p \in Here.percents :
          /\ app.slider # None /\ app' = ApplyPercent(app, app.slider, p)
          /\ UNCHANGED <<site, feed, service>>
    BY <1>6 DEF MoveSlider
  <2>2. p \in Int /\ app.slider \in Fans
    BY <1>0, <2>1, ChoicesTyped DEF AppTyped
  <2> QED
    BY <1>0, <2>1, <2>2, PercentTyped DEF TypesStay
<1>7. CASE \E v \in Here.numbers : TypeNumber(v)
  <2>1. PICK v \in Here.numbers : TypeNumber(v)
    BY <1>7
  <2> DEFINE n == IF v = None THEN Bad ELSE v
             b == [app EXCEPT !.tuning.value = v]
             c == [app EXCEPT !.number.value = n]
  <2>2. (app.tuning # None /\ Handled(b)) \/ (app.number # None /\ Handled(c))
    BY <2>1, Zenon DEF TypeNumber
  <2>3. v \in Int \cup {None, Bad} /\ n \in Int \cup {Bad}
    BY ChoicesTyped
  <2> HIDE DEF n
  <2>4. CASE app.tuning # None /\ Handled(b)
    <3> DEFINE tuning == [app.tuning EXCEPT !.value = v]
    <3>1. TuningTyped(tuning)
      BY <1>0, <2>3, <2>4 DEF AppTyped, TuningTyped
    <3>2. b = [app EXCEPT !.tuning = tuning]
      BY <1>0 DEF AppTyped, AppKeys
    <3> HIDE DEF tuning, b
    <3>3. AppTyped(b)
      BY <1>0, <3>1, <3>2 DEF AppTyped, AppKeys
    <3> QED
      BY <2>4, <3>3, HandledTyped
  <2>5. CASE app.number # None /\ Handled(c)
    <3> DEFINE number == [app.number EXCEPT !.value = n]
    <3>1. NumberTyped(number)
      BY <1>0, <2>3, <2>5 DEF AppTyped, NumberTyped
    <3>2. c = [app EXCEPT !.number = number]
      BY <1>0 DEF AppTyped, AppKeys
    <3> HIDE DEF number, c
    <3>3. AppTyped(c)
      BY <1>0, <3>1, <3>2 DEF AppTyped, AppKeys
    <3> QED
      BY <2>5, <3>3, HandledTyped
  <2> QED
    BY <2>2, <2>4, <2>5
<1> QED
  BY <1>1, <1>2, <1>3, <1>4, <1>5, <1>6, <1>7, Zenon DEF FanAction

(* The question before a deletion is answered.                             *)
LEMMA DeletedTyped ==
  ASSUME AppTyped(app), AnswerDelete
  PROVE  TypesStay
<1> DEFINE b == [app EXCEPT !.confirm = None]
<1>1. \/ Handled(b) \/ Clicked(DeleteTheCurve(b, app.confirm[2]))
      \/ Clicked(DeleteCustomSensor(b, app.confirm[2]))
  BY Zenon DEF AnswerDelete
<1>2. TypesKept(app, b)
  BY DEF TypesKept
<1> HIDE DEF b
<1>3. AppTyped(b)
  BY <1>2, KeptTyped
<1>4. /\ AppTyped(DeleteTheCurve(b, app.confirm[2]))
      /\ AppTyped(DeleteCustomSensor(b, app.confirm[2]))
  BY <1>3, DeleteTyped, DeleteCustomTyped
<1> QED
  BY <1>1, <1>3, <1>4, HandledTyped, Zenon

(* The tabs of a curve's dialog.                                           *)
LEMMA TabTyped ==
  ASSUME HeldTyped, PickTab
  PROVE  TypesStay
<1> DEFINE def == CurveForDisplay(app, app.dialog).def
           sane == SaneKind(def.kind)
           primary == PrimaryFunction(def)
<1>0. AppTyped(app)
  BY DEF HeldTyped
<1>1. IsDef(def)
  <2>1. CurveForDisplay(app, app.dialog) # None
    BY DEF PickTab, CurveDialogUp
  <2> QED
    BY <1>0, <2>1, ShownTyped DEF Displayed, RawEntry
<1>2. (\E kind \in {AsGraph(sane), AsTrigger(sane, Here.blank), AsLinear(sane, Here.blank)} :
         Clicked(SetCurveKind(app, app.dialog, kind)))
      \/ (\E f \in {[fn |-> "identity"], Hysteresis, [fn |-> "ema", alpha |-> 25]}
                    \cup {Direction(primary, d) : d \in BOOLEAN} :
            Clicked(SetPrimaryFunction(app, app.dialog, f)))
  BY Zenon DEF PickTab
<1>3. CASE \E kind \in {AsGraph(sane), AsTrigger(sane, Here.blank), AsLinear(sane, Here.blank)} :
             Clicked(SetCurveKind(app, app.dialog, kind))
  <2>1. sane \in RawKinds /\ Here.blank \in RawKinds
    <3>1. def.kind \in RawKinds
      BY <1>1 DEF IsDef
    <3> HIDE DEF def
    <3> QED
      BY <3>1, KindStays, ChoicesTyped
  <2> HIDE DEF sane
  <2>2. /\ AsGraph(sane) \in RawKinds /\ AsTrigger(sane, Here.blank) \in RawKinds
        /\ AsLinear(sane, Here.blank) \in RawKinds
    BY <2>1, TabsTyped
  <2> QED
    BY <1>0, <1>3, <2>2, SetKindTyped, HandledTyped, Zenon
<1>4. CASE \E f \in {[fn |-> "identity"], Hysteresis, [fn |-> "ema", alpha |-> 25]}
                     \cup {Direction(primary, d) : d \in BOOLEAN} :
             Clicked(SetPrimaryFunction(app, app.dialog, f))
  <2>1. PICK f \in {[fn |-> "identity"], Hysteresis, [fn |-> "ema", alpha |-> 25]}
                     \cup {Direction(primary, d) : d \in BOOLEAN} :
          Clicked(SetPrimaryFunction(app, app.dialog, f))
    BY <1>4
  <2>2. primary \in RawFunctions
    BY <1>1, PrimaryTyped
  <2> HIDE DEF primary
  <2>3. [fn |-> "identity"] \in RawFunctions /\ [fn |-> "ema", alpha |-> 25] \in RawFunctions
    BY DEF RawFunctions
  <2>4. Hysteresis \in RawFunctions
    BY DEF RawFunctions, RawStandard, Hysteresis
  <2>5. ASSUME NEW d \in BOOLEAN PROVE Direction(primary, d) \in RawFunctions
    <3>1. CASE primary.fn = "standard"
      <4>1. primary \in RawStandard
        BY <2>2, <3>1, FunctionStays
      <4>2. [primary EXCEPT !.downward = d] \in RawStandard
        BY <4>1 DEF RawStandard
      <4> QED
        BY <3>1, <4>2 DEF Direction, RawFunctions
    <3>2. CASE primary.fn # "standard"
      BY <2>2, <3>2 DEF Direction
    <3> QED
      BY <3>1, <3>2
  <2>6. f \in RawFunctions
    BY <2>1, <2>3, <2>4, <2>5
  <2> QED
    BY <1>0, <2>1, <2>6, FunctionTyped, HandledTyped
<1> QED
  BY <1>2, <1>3, <1>4

(* The curves and their dialog.                                            *)
LEMMA CurveTyped ==
  ASSUME NoCurve, HeldTyped, CurveAction
  PROVE  TypesStay
<1>0. AppTyped(app) /\ DocTyped(app.file.doc)
  BY DEF HeldTyped, AppTyped, FileTyped
<1>1. CASE NewCurve
  <2>1. AppTyped(AddCurve(app, Here.blank))
    BY <1>0, AddCurveTyped, ChoicesTyped
  <2> QED
    BY <1>1, <2>1, HandledTyped, Zenon DEF NewCurve
<1>2. CASE CloseCurve
  BY <1>0, <1>2, CloseCurveTyped, HandledTyped, Zenon DEF CloseCurve
<1>3. CASE MouseUp
  <2> DEFINE b == EndCurveDrag(app)
             next == [b EXCEPT !.slider = None]
  <2>1. Handled(next)
    BY <1>3 DEF MouseUp
  <2>2. AppTyped(b)
    BY <1>0, LetGoTyped
  <2> HIDE DEF b
  <2>3. AppTyped(next)
    BY <2>2 DEF AppTyped, AppKeys
  <2> HIDE DEF next
  <2> QED
    BY <2>1, <2>3, HandledTyped
<1>4. CASE \E id \in Here.ids : OpenCurve(id)
  BY <1>0, <1>4, OpenCurveTyped, HandledTyped, Zenon DEF OpenCurve
<1>5. CASE \E what : AskDelete(what)
  <2>1. PICK what : Handled([app EXCEPT !.confirm = what])
    BY <1>5 DEF AskDelete
  <2>2. TypesKept(app, [app EXCEPT !.confirm = what])
    BY DEF TypesKept
  <2>3. AppTyped([app EXCEPT !.confirm = what])
    BY <1>0, <2>2, KeptTyped, Zenon
  <2> QED
    BY <2>1, <2>3, HandledTyped, Zenon
<1>6. CASE \E field \in Here.fields : EditField(field)
  <2>1. PICK field \in Here.fields :
          /\ CurveForDisplay(app, app.dialog) # None
          /\ field \in Offered(CurveForDisplay(app, app.dialog).def)
          /\ Clicked(BeginCurveNumber(app, app.dialog, field))
    BY <1>6, Zenon DEF EditField, CurveDialogUp
  <2> QED
    BY <1>0, <2>1, BeginNumberTyped, HandledTyped
<1>7. CASE \E field \in Here.fields, sign \in Int : StepField(field, sign)
  <2>1. PICK field \in Here.fields, sign \in Int :
          /\ CurveForDisplay(app, app.dialog) # None
          /\ field \in Offered(CurveForDisplay(app, app.dialog).def)
          /\ Clicked(StepCurveNumber(app, app.dialog, field, sign))
    BY <1>7, Zenon DEF StepField, CurveDialogUp
  <2> QED
    BY <1>0, <2>1, StepTyped, HandledTyped
<1>8. CASE \E source \in Here.sources : PickSource(source)
  <2>1. PICK source \in Here.sources :
          /\ CurveForDisplay(app, app.dialog) # None
          /\ Clicked(SetCurveSource(app, app.dialog, source))
    BY <1>8, Zenon DEF PickSource, CurveDialogUp
  <2> QED
    BY <1>0, <2>1, SourceTyped, HandledTyped
<1>9. CASE \E color : PickColor(color)
  <2>1. PICK color : Clicked(ReloadConfig(Wrote(app, SaveCurveColor(app.file.doc, app.dialog, color))))
    BY <1>9 DEF PickColor
  <2>2. DocTyped(SaveCurveColor(app.file.doc, app.dialog, color))
    BY <1>0, DocEdits DEF SaveCurveColor
  <2> QED
    BY <1>0, <2>1, <2>2, SavedTyped, HandledTyped, Zenon
<1>10. CASE \E cursor \in Here.cursors : DragTo(cursor)
  <2>1. \A cursor \in Here.cursors : AppTyped(CurveDragMove(app, cursor))
    BY <1>0, DragMoveTyped, ChoicesTyped
  <2> QED
    BY <1>10, <2>1, HandledTyped, Zenon DEF DragTo
<1>11. CASE \E cursor \in Here.cursors, twice \in BOOLEAN : PlotDown(cursor, twice)
  <2>1. \A cursor \in Here.cursors : \A twice : AppTyped(CurveEditorDown(app, cursor, twice))
    BY <1>0, PlotDownTyped, ChoicesTyped
  <2> QED
    BY <1>11, <2>1, HandledTyped, Zenon DEF PlotDown
<1>12. CASE \E field \in Here.fields : StepField(field, 1) \/ StepField(field, -1)
  <2>1. 1 \in Int /\ -1 \in Int
    OBVIOUS
  <2> QED
    BY <1>7, <1>12, <2>1, Zenon
<1> QED
  BY <1>0, <1>1, <1>2, <1>3, <1>4, <1>5, <1>6, <1>8, <1>9, <1>10, <1>11, <1>12, TabTyped, DeletedTyped, Zenon
  DEF CurveAction

(* Sensors, names and the rest.                                            *)
LEMMA OtherTyped ==
  ASSUME AppTyped(app), OtherAction
  PROVE  TypesStay
<1>0. DocTyped(app.file.doc)
  BY DEF AppTyped, FileTyped
<1>1. CASE NewSensor
  BY <1>1, CustomDialogTyped, HandledTyped, Zenon DEF NewSensor
<1>2. CASE EditSensor
  <2>1. PICK sensor : Clicked(CommitCustom(app, sensor))
    BY <1>2, Zenon DEF EditSensor
  <2> QED
    BY <2>1, CommitTyped, HandledTyped
<1>3. CASE CloseSensor
  BY <1>3, CustomDialogTyped, HandledTyped, Zenon DEF CloseSensor
<1>4. CASE AnswerRename
  <2>1. TypesKept(app, [app EXCEPT !.renaming = None])
    BY DEF TypesKept
  <2>2. AppTyped([app EXCEPT !.renaming = None])
    BY <2>1, KeptTyped, Zenon
  <2> QED
    BY <1>4, <2>2, RenameTyped, HandledTyped, Zenon DEF AnswerRename
<1>5. CASE \E id \in Here.ids : OpenSensor(id)
  BY <1>5, CustomDialogTyped, HandledTyped, Zenon DEF OpenSensor
<1>6. CASE \E key \in Here.keys : Rename(key)
  <2>1. \E key, shown : Clicked(BeginRename(app, key, shown))
    BY <1>6, Zenon DEF Rename
  <2> QED
    BY <2>1, RenameTyped, HandledTyped, Zenon
<1>7. CASE \E key \in Here.keys : Arrange(key)
  <2>1. PICK key \in Here.keys : Arrange(key)
    BY <1>7
  <2> DEFINE doc == app.file.doc
  <2>2. PICK new : /\ new \in {Pinned(doc, app.names, key), Toggled(doc, app.names, key),
                       Restyled(doc, key, "red", "dashed"), Restyled(doc, key, None, None),
                       Hidden(doc, app.names, key)}
                   /\ Clicked(ReloadConfig(Wrote(app, new)))
    BY <2>1 DEF Arrange
  <2>3. DocTyped(new)
    BY <1>0, <2>2, ArrangedTyped
  <2> QED
    BY <2>2, <2>3, SavedTyped, HandledTyped, Zenon
<1>8. CASE \E units : PickUnits(units)
  BY <1>8, UnitsTyped, HandledTyped, Zenon DEF PickUnits
<1> QED
  BY <1>1, <1>2, <1>3, <1>4, <1>5, <1>6, <1>7, <1>8, Zenon DEF OtherAction

(* A key, wherever it goes.                                                *)
LEMMA KeyTyped ==
  ASSUME AppTyped(app), NEW k \in Here.typed, KeyDown(k)
  PROVE  TypesStay
<1> DEFINE renamed == [app EXCEPT !.renaming = Typed(@, k), !.clipboard = Clip(k, app.renaming.field)]
           titled == [app EXCEPT !.customName = Typed(@, k), !.clipboard = Clip(k, app.customName.field)]
           named == [app EXCEPT !.name = Typed(@, k), !.clipboard = Clip(k, app.name.field)]
           untuned == [app EXCEPT !.tuning = None]
           unnumbered == [app EXCEPT !.number = None]
           unrenamed == [app EXCEPT !.renaming = None]
           unasked == [app EXCEPT !.confirm = None]
<1>1. AfterKey(k) \in {app, CommitTuning(app), CommitCurveNumber(app), CommitRename(app),
                       CommitCustomDialog(app), CloseCustomDialog(app), CloseCurveDialog(app),
                       CommitCurveName(app), untuned, unnumbered, unrenamed, unasked,
                       renamed, titled, named}
  <2>1. CASE app.tuning # None
    BY <2>1, Zenon DEF AfterKey
  <2>2. CASE app.tuning = None /\ app.number # None
    BY <2>2, Zenon DEF AfterKey
  <2>3. CASE app.tuning = None /\ app.number = None /\ app.renaming # None
    BY <2>3, Zenon DEF AfterKey
  <2>4. CASE app.tuning = None /\ app.number = None /\ app.renaming = None
    <3> DEFINE inner ==
          IF app.custom # None /\ app.customName # None
          THEN IF k.key = "enter" THEN CommitCustomDialog(app)
               ELSE IF k.key = "escape" THEN CloseCustomDialog(app) ELSE titled
          ELSE IF k.key = "escape"
          THEN IF app.confirm # None THEN unasked
               ELSE IF app.dialog # None THEN CloseCurveDialog(app) ELSE app
          ELSE IF app.dialog # None /\ app.name # None
          THEN IF k.key = "enter" THEN CommitCurveName(app) ELSE named
          ELSE app
    <3>1. AfterKey(k) = inner
      BY <2>4, Zenon DEF AfterKey
    <3> HIDE DEF titled, named, unasked
    <3>2. inner \in {app, CommitCustomDialog(app), CloseCustomDialog(app), CloseCurveDialog(app),
                     CommitCurveName(app), unasked, titled, named}
      BY Zenon
    <3> HIDE DEF inner
    <3> QED
      BY <3>1, <3>2, Zenon
  <2> QED
    BY <2>1, <2>2, <2>3, <2>4
<1>2. AppTyped(untuned) /\ AppTyped(unnumbered)
  BY DEF AppTyped, AppKeys, TuningTyped, NumberTyped
<1>3. /\ AppTyped(unrenamed) /\ AppTyped(unasked)
      /\ AppTyped(renamed) /\ AppTyped(titled) /\ AppTyped(named)
  <2>1. /\ TypesKept(app, unrenamed) /\ TypesKept(app, unasked)
        /\ TypesKept(app, renamed) /\ TypesKept(app, titled) /\ TypesKept(app, named)
    BY DEF TypesKept
  <2> HIDE DEF unrenamed, unasked, renamed, titled, named
  <2> QED
    BY <2>1, KeptTyped
<1>4. /\ AppTyped(CommitTuning(app)) /\ AppTyped(CommitCurveNumber(app))
      /\ AppTyped(CommitRename(app)) /\ AppTyped(CommitCustomDialog(app))
      /\ AppTyped(CloseCustomDialog(app)) /\ AppTyped(CloseCurveDialog(app))
      /\ AppTyped(CommitCurveName(app))
  BY TuneTyped, CommitNumberTyped, RenameTyped, CustomDialogTyped, CloseCurveTyped, CurveNameTyped
<1> HIDE DEF renamed, titled, named, untuned, unnumbered, unrenamed, unasked
<1>5. AppTyped(AfterKey(k))
  BY <1>1, <1>2, <1>3, <1>4
<1> QED
  BY <1>5 DEF KeyDown, TypesStay

(* The timer.                                                              *)
LEMMA TickTyped ==
  ASSUME HeldTyped, NEW look, Tick(look)
  PROVE  TypesStay
<1> DEFINE taken == IF fresh THEN Taken(app, feed) ELSE app
           seen == IF look THEN HotReloaded(taken) ELSE taken
           synced == Synced(seen)
           noted == [synced EXCEPT !.mistaken = @ \/ Mistook(taken)]
<1>1. app' = noted /\ UNCHANGED <<site, feed, service>>
  BY Zenon DEF Tick
<1>2. AppTyped(taken)
  BY TakenTyped, Zenon DEF HeldTyped
<1> HIDE DEF taken
<1>3. AppTyped(seen)
  BY <1>2, HotReloadedTyped, Zenon
<1> HIDE DEF seen
<1>4. AppTyped(synced)
  BY <1>3, SyncedTyped
<1> HIDE DEF synced
<1>5. TypesKept(synced, noted)
  BY <1>4 DEF TypesKept, AppTyped, AppKeys
<1> QED
  BY <1>1, <1>4, <1>5, KeptTyped DEF TypesStay

(* A file as the user may leave it.                                        *)
LEMMA ConfigTyped ==
  ASSUME NEW s \in DOMAIN Sites, NEW file \in Sites[s].files \cup {Sites[s].file}
  PROVE  FileTyped(file)
<1> DEFINE doc == file.doc
           table == doc.curves
<1>1. DOMAIN file = {"form", "doc"} /\ IsConfig(doc)
  BY NameAssumption
<1>2. DOMAIN doc = {"curves", "customs", "dashboard", "hidden", "values"}
  BY <1>1 DEF IsConfig, BlankDoc
<1>3. /\ table \in Seq(Range(table))
      /\ \A i \in DOMAIN table : DOMAIN table[i] = {"id", "name", "def"} /\ IsDef(table[i].def)
  BY <1>1 DEF IsConfig
<1>4. RawTable(table)
  <2> HIDE DEF table
  <2>1. \A c \in Range(table) : RawEntry(c)
    BY <1>3 DEF Range, RawEntry
  <2> QED
    BY <1>3, <2>1 DEF RawTable
<1> QED
  BY <1>1, <1>2, <1>4 DEF FileTyped, DocTyped

(* The file is saved from elsewhere.                                       *)
LEMMA EditedTyped ==
  ASSUME HeldTyped, NEW file \in Here.files, HandEdit(file)
  PROVE  TypesStay
<1>1. FileTyped(file)
  BY ConfigTyped DEF HeldTyped, Here
<1>2. app' = [app EXCEPT !.file = file, !.news = TRUE] /\ UNCHANGED <<site, feed, service>>
  BY DEF HandEdit
<1>3. AppTyped([app EXCEPT !.file = file, !.news = TRUE])
  BY <1>1 DEF HeldTyped, AppTyped, AppKeys
<1> QED
  BY <1>2, <1>3 DEF TypesStay

(* The state the service publishes.                                        *)
LEMMA FeedTyped ==
  ASSUME HeldTyped
  PROVE  /\ StateTyped(Connecting) /\ StateTyped(Gone) /\ StateTyped(Busy)
         /\ StateTyped(Snapshot)
<1>1. StateTyped(Connecting) /\ StateTyped(Gone) /\ StateTyped(Busy)
  BY DEF StateTyped
<1>2. StateTyped(Snapshot)
  <2> DEFINE fans == Snapshot.fans
  <2>1. fans = [f \in Fans |->
                  [curve |-> service.assign[f], settings |-> service.settings[f], floor |-> Here.floor,
                   target |-> IF service.target[f] = None THEN None
                              ELSE DutyToPercent(service.target[f]),
                   readback |-> IF service.assign[f] = None /\ service.target[f] = None THEN None
                                ELSE Here.readback]]
    BY DEF Snapshot
  <2>2. ASSUME NEW f \in Fans
        PROVE  /\ service.settings[f] \in RawSettings
               /\ service.target[f] \in Duties \cup {None} /\ Here.floor \in Int
               /\ Here.readback \in Percents \cup {None}
    BY ChoicesTyped DEF HeldTyped, ServiceTyped
  <2>3. ASSUME NEW f \in Fans
        PROVE  (IF service.target[f] = None THEN None ELSE DutyToPercent(service.target[f]))
                 \in Percents \cup {None}
    BY <2>2, DutyTyped
  <2> HIDE DEF fans
  <2>4. DOMAIN fans = Fans
    BY <2>1
  <2>5. ASSUME NEW f \in Fans
        PROVE  /\ fans[f].settings \in RawSettings /\ fans[f].floor \in Int
               /\ fans[f].target \in Percents \cup {None}
               /\ fans[f].readback \in Percents \cup {None}
    <3>1. /\ fans[f].settings = service.settings[f] /\ fans[f].floor = Here.floor
          /\ fans[f].target = (IF service.target[f] = None THEN None
                               ELSE DutyToPercent(service.target[f]))
          /\ fans[f].readback = (IF service.assign[f] = None /\ service.target[f] = None
                                 THEN None ELSE Here.readback)
      BY <2>1
    <3> QED
      BY <2>2, <2>3, <3>1
  <2> QED
    BY <2>4, <2>5 DEF StateTyped, fans
<1> QED
  BY <1>1, <1>2

(* Some of the requests are taken from the queue.                          *)
LEMMA QueueTaken ==
  ASSUME AppTyped(app)
  PROVE  /\ Len(app.out) \in Nat
         /\ \A n \in 0..Len(app.out) : AppTyped([app EXCEPT !.out = SubSeq(@, n + 1, Len(@))])
         /\ \A n \in 0..Len(app.out) : QueueTyped(SubSeq(app.out, 1, n))
         /\ app.out # <<>> => AppTyped([app EXCEPT !.out = Tail(@)])
<1> DEFINE q == app.out
<1>0. PICK S : q \in Seq(S) /\ \A r \in S : RequestTyped(r)
  BY DEF AppTyped, QueueTyped
<1>1. ASSUME NEW out, out \in Seq(S)
      PROVE  QueueTyped(out) /\ AppTyped([app EXCEPT !.out = out])
  <2>1. QueueTyped(out)
    BY <1>0, <1>1 DEF QueueTyped
  <2> QED
    BY <2>1 DEF AppTyped, AppKeys
<1>2. [app EXCEPT !.out = Tail(@)] = [app EXCEPT !.out = Tail(q)]
  OBVIOUS
<1>3. \A n : [app EXCEPT !.out = SubSeq(@, n + 1, Len(@))] = [app EXCEPT !.out = SubSeq(q, n + 1, Len(q))]
  OBVIOUS
<1> HIDE DEF q
<1>4. Len(q) \in Nat /\ DOMAIN q = 1..Len(q) /\ \A i \in 1..Len(q) : q[i] \in S
  BY <1>0
<1>5. ASSUME NEW m \in Int, NEW n \in Int, 1 <= m, n <= Len(q)
      PROVE  SubSeq(q, m, n) \in Seq(S)
  <2>1. \A i \in m..n : q[i] \in S
    BY <1>4, <1>5
  <2> QED
    BY <2>1, SubSeqProperties
<1>6. ASSUME NEW n \in 0..Len(q)
      PROVE  /\ AppTyped([app EXCEPT !.out = SubSeq(@, n + 1, Len(@))])
             /\ QueueTyped(SubSeq(q, 1, n))
  <2>1. SubSeq(q, n + 1, Len(q)) \in Seq(S) /\ SubSeq(q, 1, n) \in Seq(S)
    BY <1>4, <1>5
  <2> QED
    BY <1>1, <1>3, <2>1
<1>7. q # <<>> => AppTyped([app EXCEPT !.out = Tail(@)])
  <2>1. q # <<>> => Tail(q) \in Seq(S)
    BY <1>0, HeadTailProperties
  <2> QED
    BY <1>1, <1>2, <2>1
<1> QED
  BY <1>4, <1>6, <1>7 DEF q

(* The last request of a kind counts, if there is one.                     *)
LEMMA LatestTyped ==
  ASSUME NEW batch, QueueTyped(batch), NEW req, NEW f, NEW otherwise
  PROVE  \/ Latest(batch, req, f, otherwise) = otherwise /\ ~Requested(batch, req, f)
         \/ \E r : RequestTyped(r) /\ r.req = req /\ Latest(batch, req, f, otherwise) = r.to
<1>0. PICK S : batch \in Seq(S) /\ \A r \in S : RequestTyped(r)
  BY DEF QueueTyped
<1>1. Len(batch) \in Nat /\ DOMAIN batch = 1..Len(batch) /\ \A i \in 1..Len(batch) : batch[i] \in S
  BY <1>0
<1> DEFINE I == {i \in 1..Len(batch) : batch[i].req = req /\ batch[i].fan = f}
           last == IF I # {} THEN Max(I) ELSE 0
<1>2. Latest(batch, req, f, otherwise) = IF last = 0 THEN otherwise ELSE batch[last].to
  BY Zenon DEF Latest, SelectLastInSeq
<1>3. CASE I = {}
  <2>1. last = 0
    BY <1>3
  <2>2. ~Requested(batch, req, f)
    BY <1>1, <1>3 DEF Requested
  <2> QED
    BY <1>2, <2>1, <2>2
<1>4. CASE I # {}
  <2>1. I \in SUBSET (0..Len(batch))
    BY <1>1
  <2>2. last \in I
    <3> DEFINE J == I
    <3>1. J \in SUBSET (0..Len(batch)) /\ J # {}
      BY <1>4, <2>1
    <3>2. last = Max(J)
      BY <1>4
    <3> HIDE DEF J
    <3>3. Max(J) \in J
      BY <1>1, <3>1, MaxIn
    <3> HIDE DEF last
    <3> QED
      BY <3>2, <3>3 DEF J
  <2> HIDE DEF last
  <2>3. last # 0 /\ batch[last] \in S /\ batch[last].req = req
    BY <1>1, <2>2
  <2> QED
    BY <1>0, <1>2, <2>3
<1> QED
  BY <1>3, <1>4

(* What the service makes of the requests.                                 *)
LEMMA ServedTyped ==
  ASSUME ServiceTyped(service), NEW batch, QueueTyped(batch)
  PROVE  ServiceTyped(Served(batch))
<1> DEFINE s == Served(batch)
           target(f) == IF Requested(batch, "assign", f) THEN None
                        ELSE Latest(batch, "target", f, service.target[f])
           settings(f) == IF Requested(batch, "settings", f)
                          THEN Sanitized(Latest(batch, "settings", f, None))
                          ELSE service.settings[f]
<1>1. /\ s.curves = Latest(batch, "curves", None, service.curves)
      /\ s.target = [f \in Fans |-> target(f)]
      /\ s.settings = [f \in Fans |-> settings(f)]
  BY DEF Served
<1>2. SaneTable(Latest(batch, "curves", None, service.curves))
  <2>1. \/ Latest(batch, "curves", None, service.curves) = service.curves
        \/ \E r : /\ RequestTyped(r) /\ r.req = "curves"
                  /\ Latest(batch, "curves", None, service.curves) = r.to
    BY LatestTyped
  <2> QED
    BY <2>1 DEF RequestTyped, ServiceTyped
<1>3. ASSUME NEW f \in Fans PROVE target(f) \in Duties \cup {None}
  <2>1. \/ Latest(batch, "target", f, service.target[f]) = service.target[f]
        \/ \E r : /\ RequestTyped(r) /\ r.req = "target"
                  /\ Latest(batch, "target", f, service.target[f]) = r.to
    BY LatestTyped
  <2>2. Latest(batch, "target", f, service.target[f]) \in Duties \cup {None}
    BY <2>1 DEF RequestTyped, ServiceTyped
  <2> QED
    BY <2>2
<1>4. ASSUME NEW f \in Fans
      PROVE  settings(f) \in RawSettings /\ Sanitized(settings(f)) = settings(f)
  <2>1. CASE Requested(batch, "settings", f)
    <3> DEFINE asked == Latest(batch, "settings", f, None)
    <3>0. \/ asked = None /\ ~Requested(batch, "settings", f)
          \/ \E r : RequestTyped(r) /\ r.req = "settings" /\ asked = r.to
      BY LatestTyped
    <3>1. \E r : RequestTyped(r) /\ r.req = "settings" /\ asked = r.to
      <4> HIDE DEF asked
      <4> QED
        BY <2>1, <3>0, Zenon
    <3>2. asked \in RawSettings
      BY <3>1 DEF RequestTyped
    <3>3. settings(f) = Sanitized(asked)
      BY <2>1
    <3> HIDE DEF asked, settings
    <3> QED
      BY <3>2, <3>3, SettingsStay
  <2>2. CASE ~Requested(batch, "settings", f)
    BY <2>2 DEF ServiceTyped
  <2> QED
    BY <2>1, <2>2
<1> HIDE DEF s, target, settings
<1>5. SaneTable(s.curves)
  BY <1>1, <1>2
<1>6. ASSUME NEW f \in Fans
      PROVE  /\ s.settings[f] \in RawSettings /\ Sanitized(s.settings[f]) = s.settings[f]
             /\ s.target[f] \in Duties \cup {None}
  BY <1>1, <1>3, <1>4
<1>7. ServiceTyped(s)
  BY <1>5, <1>6 DEF ServiceTyped
<1> QED
  BY <1>7 DEF s

(* Every step of the window, its file and the service keeps the types.     *)
LEMMA HeldStep ==
  ASSUME NoCurve, HeldTyped, [Next]_vars
  PROVE  HeldTyped'
<1>0. AppTyped(app) /\ site \in DOMAIN Sites /\ StateTyped(feed) /\ ServiceTyped(service)
  BY DEF HeldTyped
<1>1. ASSUME TypesStay PROVE HeldTyped'
  BY <1>0, <1>1 DEF TypesStay, HeldTyped
<1>2. CASE UserAction
  <2>1. CASE FanAction
    BY <1>1, <2>1, FanTyped
  <2>2. CASE CurveAction
    BY <1>1, <2>2, CurveTyped
  <2>3. CASE OtherAction
    BY <1>0, <1>1, <2>3, OtherTyped
  <2>4. CASE \E k \in Here.typed : KeyDown(k)
    BY <1>0, <1>1, <2>4, KeyTyped
  <2> QED
    BY <1>2, <2>1, <2>2, <2>3, <2>4 DEF UserAction
<1>3. CASE \E look \in BOOLEAN : Tick(look)
  BY <1>1, <1>3, TickTyped
<1>4. CASE \E file \in Here.files : HandEdit(file)
  BY <1>1, <1>4, EditedTyped
<1>5. CASE \E n \in 1..Len(app.out) : Serve(n)
  <2>1. PICK n \in 1..Len(app.out) : Serve(n)
    BY <1>5
  <2>2. /\ app' = [app EXCEPT !.out = SubSeq(@, n + 1, Len(@))]
        /\ service' = Served(SubSeq(app.out, 1, n)) /\ UNCHANGED <<site, feed>>
    BY <2>1, Zenon DEF Serve
  <2>3. n \in 0..Len(app.out)
    BY <1>0, QueueTaken
  <2>4. AppTyped(app') /\ QueueTyped(SubSeq(app.out, 1, n))
    BY <1>0, <2>2, <2>3, QueueTaken
  <2>5. ServiceTyped(service')
    BY <1>0, <2>2, <2>4, ServedTyped
  <2> QED
    BY <1>0, <2>2, <2>4, <2>5 DEF HeldTyped
<1>6. CASE \E n \in 0..Len(app.out) : Stop(n)
  <2>1. PICK n \in 0..Len(app.out) : Stop(n)
    BY <1>6
  <2>2. /\ app' = [app EXCEPT !.out = SubSeq(@, n + 1, Len(@))]
        /\ feed' = Gone /\ UNCHANGED <<site, service>>
    BY <2>1, Zenon DEF Stop
  <2>3. AppTyped(app')
    BY <1>0, <2>2, QueueTaken
  <2> QED
    BY <1>0, <2>2, <2>3, FeedTyped DEF HeldTyped
<1>7. CASE Forsake
  <2>1. /\ app' = [app EXCEPT !.out = Tail(@)] /\ app.out # <<>>
        /\ UNCHANGED <<site, feed, service>>
    BY <1>7, Zenon DEF Forsake
  <2>2. AppTyped(app')
    BY <1>0, <2>1, QueueTaken
  <2> QED
    BY <1>0, <2>1, <2>2 DEF HeldTyped
<1>8. CASE Publish
  BY <1>8, FeedTyped DEF HeldTyped, Publish
<1>9. CASE Start
  BY <1>9, FeedTyped DEF HeldTyped, Start
<1>10. CASE UNCHANGED vars
  BY <1>0, <1>1, <1>10 DEF vars, TypesStay
<1> QED
  BY <1>2, <1>3, <1>4, <1>5, <1>6, <1>7, <1>8, <1>9, <1>10, Zenon DEF Next

(* A window opens on its file, and nothing is asked yet.                   *)
LEMMA HeldInit ==
  ASSUME Init
  PROVE  HeldTyped
<1>1. /\ site \in DOMAIN Sites /\ app = App0(Here.file) /\ feed = Connecting
      /\ service = [curves |-> <<>>, customs |-> <<>>, assign |-> Here.assign,
                    target |-> [f \in Fans |-> None],
                    settings |-> [f \in Fans |-> Here.settings]]
  BY DEF Init
<1>2. FileTyped(Here.file)
  BY <1>1, ConfigTyped DEF Here
<1> DEFINE names == Load(Here.file)
<1>3. SaneTable(names.curves)
  BY <1>2, LoadTyped
<1>4. SaneTable(<<>>) /\ QueueTyped(<<>>)
  <2>1. ASSUME NEW none, none = <<>> PROVE SaneTable(none) /\ QueueTyped(none)
    <3> DEFINE S == {}
    <3>1. none \in Seq(S)
      BY <2>1
    <3>2. (\A c \in S : SaneEntry(c)) /\ (\A r \in S : RequestTyped(r))
      OBVIOUS
    <3> HIDE DEF S
    <3> QED
      BY <3>1, <3>2 DEF SaneTable, QueueTyped
  <2> QED
    BY <2>1
<1>5. StateTyped(Connecting)
  BY DEF StateTyped
<1> HIDE DEF names
<1>6. PendingTyped(<<>>) /\ TunedTyped(<<>>) /\ DOMAIN <<>> \subseteq Fans
  <2>1. DOMAIN <<>> = {}
    OBVIOUS
  <2> QED
    BY <2>1 DEF PendingTyped, TunedTyped
<1>7. AppTyped(App0(Here.file))
  <2> DEFINE a == App0(Here.file)
  <2>1. /\ DOMAIN a = AppKeys /\ a.file = Here.file /\ a.names = names
        /\ a.out = <<>> /\ a.state = Connecting /\ a.number = None /\ a.edit = None
        /\ a.drag = 0 /\ a.tuning = None /\ a.slider = None
        /\ a.pending = <<>> /\ a.assigns = <<>> /\ a.tuned = <<>>
    BY DEF App0, AppKeys, names
  <2> HIDE DEF a
  <2>2. EditTyped(a.drag, a.edit) /\ NumberTyped(a.number) /\ TuningTyped(a.tuning)
    BY <2>1 DEF EditTyped, NumberTyped, TuningTyped
  <2>3. AppTyped(a)
    BY <1>2, <1>3, <1>4, <1>5, <1>6, <2>1, <2>2 DEF AppTyped
  <2> QED
    BY <2>3 DEF a
<1>8. ServiceTyped(service)
  <2>1. Here.settings \in RawSettings /\ Sanitized(Here.settings) = Here.settings
    BY <1>1, UseAssumption DEF Here
  <2>2. /\ service.curves = <<>>
        /\ \A f \in Fans : service.settings[f] = Here.settings /\ service.target[f] = None
    BY <1>1
  <2> QED
    BY <1>4, <2>1, <2>2 DEF ServiceTyped
<1> QED
  BY <1>1, <1>5, <1>7, <1>8 DEF HeldTyped

(* What is held is all that is said of it.                                 *)
LEMMA HeldSays == HeldTyped => TypeOK
<1> SUFFICES ASSUME HeldTyped PROVE TypeOK
  OBVIOUS
<1>1. AppTyped(app) /\ ServiceTyped(service)
  BY DEF HeldTyped
<1>2. /\ (app.drag # 0) <=> (app.edit # None)
      /\ app.edit # None => app.drag \in DOMAIN app.edit.def.kind.points
  BY <1>1 DEF AppTyped, EditTyped
<1>3. /\ DOMAIN app.pending \cup DOMAIN app.assigns \cup DOMAIN app.tuned \subseteq Fans
      /\ \A f \in DOMAIN app.pending : app.pending[f] \in Percents
  BY <1>1 DEF AppTyped, PendingTyped, TunedTyped
<1>4. ASSUME NEW curves \in {app.names.curves, service.curves}, NEW i \in DOMAIN curves
      PROVE  curves[i].def = NormalizedDef(curves[i].def) /\ curves[i].name # <<>>
  <2>1. SaneTable(curves)
    BY <1>1, <1>4 DEF AppTyped, ServiceTyped
  <2>2. SaneEntry(curves[i])
    BY <1>4, <2>1, TableParts
  <2> QED
    BY <2>2 DEF SaneEntry, Sane
<1>5. \A f \in Fans : service.settings[f] = Sanitized(service.settings[f])
  BY <1>1 DEF ServiceTyped
<1> QED
  BY <1>2, <1>3, <1>4, <1>5 DEF TypeOK

(* Whatever the file holds, whatever is clicked, typed and dragged and     *)
(* however the service is restarted: a copy of a curve is there exactly    *)
(* while a point of it is dragged, percentages asked of fans are           *)
(* percentages of fans there are, and the window and the service hold      *)
(* only definitions and settings as they are evaluated.  The hypothesis is *)
(* that of the code's Option: no curve is None.                            *)
THEOREM TypesCorrect == ASSUME NoCurve PROVE Spec => []TypeOK
<1>1. Init => HeldTyped
  BY HeldInit
<1>2. HeldTyped /\ [Next]_vars => HeldTyped'
  BY HeldStep
<1>3. HeldTyped => TypeOK
  BY HeldSays
<1> QED
  BY <1>1, <1>2, <1>3, PTL DEF Spec
=============================================================================
