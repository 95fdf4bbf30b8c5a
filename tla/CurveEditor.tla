----------------------------- MODULE CurveEditor -----------------------------
(***************************************************************************)
(* A curve under the hands of the user: what the plot and the fields of    *)
(* the editor make of its points, its kind, its functions and its window   *)
(* (the part of the plane the plot shows).  Temperatures are in half       *)
(* degrees, as in `CurveMath`; a point is <<temperature, percent>>.        *)
(***************************************************************************)
EXTENDS CurveMath

CONSTANTS MaxDegrees, MaxDelay,  \* 20 degrees; 60 s, in half seconds
          TempSpan, DutySpan,    \* least extent of a window: 5 degrees, 5 %
          PlotWidth, PlotHeight, \* of the plot on the screen, in pixels
          HitRadius              \* how near to a point grabs it: 10 pixels

ASSUME EditorAssumption ==
  /\ MaxDegrees \in Nat /\ MaxDelay \in Nat
  /\ TempSpan \in 1..(Hottest - Coldest) /\ DutySpan \in 1..Full
  /\ PlotWidth \in Nat \ {0} /\ PlotHeight \in Nat \ {0} /\ HitRadius \in Nat

-----------------------------------------------------------------------------
(* A definition as the file may hold it, whatever its numbers.             *)
RawFunctions == [fn: {"identity"}] \cup RawStandard \cup [fn: {"ema"}, alpha: Int]
RawWindows == [left: Int, right: Int, low: Int, high: Int]
IsDef(def) ==
  /\ DOMAIN def = {"source", "functions", "hysteresis", "window", "kind"}
  /\ def.functions \in Seq(RawFunctions) /\ def.hysteresis \in RawStandard
  /\ def.window \in RawWindows /\ def.kind \in RawKinds

-----------------------------------------------------------------------------
(* What the code makes of any curve it loads or is about to save.          *)

SaneKind(kind) ==
  LET Sane(percent) == Clamp(percent, 0, Full)
      From(ends) == [kind EXCEPT !.start = ends[1], !.end = ends[2]]
  IN CASE kind.kind = "graph" -> [kind EXCEPT !.points = GraphPoints(@)]
       [] kind.kind = "trigger" ->
            [kind EXCEPT !.threshold = Clamp(@, Coldest, Hottest),
                         !.before = Sane(@), !.after = Sane(@)]
       [] kind.kind = "linear" ->
            From(LinearPoints(kind.start, kind.end))

Hysteresis == [fn |-> "standard", degrees |-> 4, delay |-> 4, downward |-> TRUE]

SaneFunction(f) ==
  CASE f.fn = "identity" -> f
    [] f.fn = "standard" -> [f EXCEPT !.degrees = Clamp(@, 0, MaxDegrees),
                                      !.delay = Clamp(@, 0, MaxDelay)]
    [] f.fn = "ema" -> [f EXCEPT !.alpha = Clamp(@, 1, 100)]

(* processing_functions: a config without any has hysteresis.              *)
SaneFunctions(def) ==
  LET fns == IF def.functions = <<>> THEN <<def.hysteresis>> ELSE def.functions
  IN [i \in DOMAIN fns |-> SaneFunction(fns[i])]

(* In order, within bounds and at least `span` apart.                      *)
Separate(least, most, lo, hi, span) ==
  LET top == IF most - least < span THEN Clamp(least + span, lo, hi) ELSE most
  IN <<IF top - span < least THEN top - span ELSE least, top>>
Spread(a, b, lo, hi, span) ==
  LET Of(p, q) == IF q < p THEN Separate(q, p, lo, hi, span)
                  ELSE Separate(p, q, lo, hi, span)
  IN Of(Clamp(a, lo, hi), Clamp(b, lo, hi))

SaneWindow(w) ==
  LET Of(temps, duties) == [left |-> temps[1], right |-> temps[2],
                            low |-> duties[1], high |-> duties[2]]
  IN Of(Spread(w.left, w.right, Coldest, Hottest, TempSpan),
        Spread(w.low, w.high, 0, Full, DutySpan))

NormalizedDef(def) ==
  LET With(functions) ==
        [def EXCEPT !.functions = functions,
                    !.hysteresis = IF functions[1].fn = "standard"
                                   THEN functions[1] ELSE @,
                    !.window = SaneWindow(@), !.kind = SaneKind(@)]
  IN With(SaneFunctions(def))

-----------------------------------------------------------------------------
(* The plot.  It shows a point outside the window at its edge, and the     *)
(* cursor stands for a whole degree and a whole percent within the window. *)

Shown(window, p) == <<Clamp(p[1], window.left, window.right),
                      Clamp(p[2], window.low, window.high)>>

Whole(x, unit) == unit * Rounded(x, unit)
PlotValue(window, cursor) ==
  LET at == Shown(window, cursor) IN <<Whole(at[1], 2 * MinSpan), Whole(at[2], 510)>>

Pixel(window, p) ==
  <<(PlotWidth * (p[1] - window.left)) \div (window.right - window.left),
    (PlotHeight * (p[2] - window.low)) \div (window.high - window.low)>>

Near(window, p, cursor) ==
  LET at == Pixel(window, Shown(window, p))
      dx == at[1] - Pixel(window, cursor)[1]
      dy == at[2] - Pixel(window, cursor)[2]
  IN dx * dx + dy * dy <= HitRadius * HitRadius

(* The first point within reach of the cursor, or 0.                       *)
Grabbed(points, window, cursor) ==
  SelectInSeq(points, LAMBDA p : Near(window, p, cursor))

(* Mutant: only the points after the moved one follow it.                  *)
RaiseOnly(points, i) ==
  LET Heights(from, to) == {points[k][2] : k \in from..to}
  IN [j \in DOMAIN points |->
        <<points[j][1], IF j < i THEN points[j][2] ELSE Max(Heights(i, j))>>]

(* Points before the i-th come down to it, later ones up to it.            *)
EnforceMonotonic(points, i) ==
  LET Heights(from, to) == {points[k][2] : k \in from..to}
  IN [j \in DOMAIN points |->
        <<points[j][1], IF j < i THEN Min(Heights(j, i)) ELSE Max(Heights(i, j))>>]

InsertPlace(points, at) ==
  LET later == SelectInSeq(points, LAMBDA p : p[1] > at[1])
  IN IF later = 0 THEN Len(points) + 1 ELSE later

InsertPoint(points, at) ==
  EnforceMonotonic(InsertAt(points, InsertPlace(points, at), at),
                   InsertPlace(points, at))

(* A dragged point stops half a degree from its neighbors, the first and   *)
(* the last one at the edge of the window.                                 *)
DragPoint(points, i, window, at) ==
  LET lo == IF i > 1 THEN points[i - 1][1] + MinSpan ELSE window.left
      hi == IF i < Len(points) THEN points[i + 1][1] - MinSpan ELSE window.right
      temp == Clamp(at[1], lo, Larger(lo, hi))
  IN EnforceMonotonic([points EXCEPT ![i] = <<temp, at[2]>>], i)

-----------------------------------------------------------------------------
(* The tabs that change the kind of a curve, keeping what they can.        *)

AsGraph(sane) ==
  CASE sane.kind = "graph" -> sane
    [] sane.kind = "linear" -> [kind |-> "graph", points |-> <<sane.start, sane.end>>]
    [] sane.kind = "trigger" ->
         [kind |-> "graph", points |->
            << <<sane.threshold, sane.before>>,
               <<Clamp(sane.threshold + MinSpan, Coldest, Hottest), sane.after>> >>]

AsTrigger(sane, blank) ==
  CASE sane.kind = "trigger" -> sane
    [] sane.kind = "linear" ->
         [kind |-> "trigger", threshold |-> sane.start[1],
          before |-> sane.start[2], after |-> sane.end[2]]
    [] sane.kind = "graph" /\ sane.points = <<>> -> blank
    [] sane.kind = "graph" /\ sane.points # <<>> ->
         [kind |-> "trigger",
          threshold |-> sane.points[(Len(sane.points) - 1) \div 2 + 1][1],
          before |-> sane.points[1][2], after |-> Last(sane.points)[2]]

AsLinear(sane, blank) ==
  CASE sane.kind = "linear" -> sane
    [] sane.kind = "trigger" ->
         [kind |-> "linear", start |-> <<sane.threshold, sane.before>>,
          end |-> <<Clamp(sane.threshold + 20 * MinSpan, Coldest, Hottest), sane.after>>]
    [] sane.kind = "graph" /\ sane.points = <<>> -> blank
    [] sane.kind = "graph" /\ sane.points # <<>> ->
         [kind |-> "linear", start |-> sane.points[1], end |-> Last(sane.points)]

-----------------------------------------------------------------------------
(* The number fields.  Temperature, percentage, degrees, delay or alpha:   *)
(* a field holds a number, which a stepper adds to and text replaces.      *)

TriggerFields == {"threshold", "before", "after"}
LinearFields  == {"startTemp", "startDuty", "endTemp", "endDuty"}
WindowFields  == {"left", "right", "low", "high"}
FunctionFields == {"degrees", "delay", "alpha"}

(* A field of another kind than the curve's changes nothing (None).        *)
WithKindField(sane, field, v) ==
  CASE sane.kind = "trigger" /\ field \in TriggerFields ->
         [sane EXCEPT ![field] = v]
    [] sane.kind = "linear" /\ field = "startTemp" ->
         [sane EXCEPT !.start[1] = Clamp(v, Coldest, sane.end[1] - MinSpan)]
    [] sane.kind = "linear" /\ field = "startDuty" -> [sane EXCEPT !.start[2] = v]
    [] sane.kind = "linear" /\ field = "endTemp" ->
         [sane EXCEPT !.end[1] = Clamp(v, sane.start[1] + MinSpan, Hottest)]
    [] sane.kind = "linear" /\ field = "endDuty" -> [sane EXCEPT !.end[2] = v]
    [] OTHER -> None

(* A field of another function than the first one makes it that function.  *)
WithFunctionField(first, field, v) ==
  IF field = "alpha" THEN [fn |-> "ema", alpha |-> Clamp(v, 1, 100)]
  ELSE LET base == IF first.fn = "standard" THEN first ELSE Hysteresis
       IN IF field = "degrees" THEN [base EXCEPT !.degrees = Clamp(v, 0, MaxDegrees)]
          ELSE [base EXCEPT !.delay = Clamp(v, 0, MaxDelay)]

WithFunction(def, f) ==
  [def EXCEPT !.functions =
                IF @ = <<>> THEN <<SaneFunction(f)>>
                ELSE ReplaceAt(@, 1, SaneFunction(f)),
              !.hysteresis = IF f.fn = "standard" THEN SaneFunction(f) ELSE @]

PrimaryFunction(def) ==
  SaneFunction(IF def.functions = <<>> THEN def.hysteresis ELSE def.functions[1])

WithField(def, field, v) ==
  CASE field \in WindowFields ->
         [def EXCEPT !.window = SaneWindow([SaneWindow(@) EXCEPT ![field] = v])]
    [] field \in FunctionFields ->
         WithFunction(def, WithFunctionField(PrimaryFunction(def), field, v))
    [] field \in TriggerFields \cup LinearFields ->
         LET With(kind) == IF kind = None THEN None ELSE [def EXCEPT !.kind = SaneKind(kind)]
         IN With(WithKindField(SaneKind(def.kind), field, v))

(* What a stepper of a field of the curve's own kind and function adds to. *)
FieldValue(def, field) ==
  LET kind == SaneKind(def.kind)
      first == PrimaryFunction(def)
  IN CASE field \in WindowFields -> SaneWindow(def.window)[field]
       [] field \in FunctionFields ->
            IF field = "alpha" THEN IF first.fn = "ema" THEN first.alpha ELSE 25
            ELSE (IF first.fn = "standard" THEN first ELSE Hysteresis)[field]
       [] field \in TriggerFields -> kind[field]
       [] field = "startTemp" -> kind.start[1]
       [] field = "startDuty" -> kind.start[2]
       [] field = "endTemp"   -> kind.end[1]
       [] field = "endDuty"   -> kind.end[2]

(* What the side panel offers for a curve, and by how much it steps.       *)
Offered(def) ==
  WindowFields
    \cup CASE def.kind.kind = "graph" -> {}
           [] def.kind.kind = "trigger" -> TriggerFields
           [] def.kind.kind = "linear" -> LinearFields
    \cup CASE PrimaryFunction(def).fn = "identity" -> {}
           [] PrimaryFunction(def).fn = "standard" -> {"degrees", "delay"}
           [] PrimaryFunction(def).fn = "ema" -> {"alpha"}

StepOf(field) ==
  CASE field \in {"threshold", "startTemp", "endTemp"} -> 2 * MinSpan
    [] field \in {"before", "after", "startDuty", "endDuty", "low", "high"} -> 5 * 510
    [] field \in {"left", "right"} -> 10 * MinSpan
    [] field \in {"degrees", "delay"} -> 1
    [] field = "alpha" -> 5
=============================================================================
