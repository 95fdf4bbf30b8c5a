------------------------------ MODULE CurveMath ------------------------------
(***************************************************************************)
(* Curves and custom sensors: the temperature a curve reads and the target *)
(* speed it maps it to.  Temperatures are integers; what the config may    *)
(* hold is clamped and sorted as the code does before every evaluation.    *)
(***************************************************************************)
EXTENDS DutyMath

CONSTANTS Coldest, Hottest, MinSpan   \* -40 and 150 degrees, half a degree

ASSUME TemperaturesAssumption ==
  /\ Coldest \in Int /\ Hottest \in Int /\ MinSpan \in Nat \ {0}
  /\ Coldest + MinSpan <= Hottest

Temperatures == Coldest..Hottest

(* Kinds of curves, and the hysteresis of one, as a file may hold them and *)
(* a client send them, whatever their numbers.                             *)
RawKinds ==
  [kind: {"graph"}, points: Seq(Int \X Int)]
    \cup [kind: {"linear"}, start: Int \X Int, end: Int \X Int]
    \cup [kind: {"trigger"}, threshold: Int, before: Int, after: Int]
RawStandard == [fn: {"standard"}, degrees: Int, delay: Int, downward: BOOLEAN]

SanePoint(p) == <<Clamp(p[1], Coldest, Hottest), Clamp(p[2], 0, Full)>>

GraphPoints(points) == Sorted([i \in DOMAIN points |-> SanePoint(points[i])])

(* The two ends in order and apart.                                        *)
Apart(start, end) ==
  LET right == IF end[1] - start[1] < MinSpan
               THEN Clamp(start[1] + MinSpan, Coldest, Hottest) ELSE end[1]
      left  == IF start[1] > right - MinSpan THEN right - MinSpan ELSE start[1]
  IN << <<left, start[2]>>, <<right, end[2]>> >>
InOrder(p, q) == IF q[1] < p[1] THEN Apart(q, p) ELSE Apart(p, q)
LinearPoints(p, q) == InOrder(SanePoint(p), SanePoint(q))

(* CurveKind::evaluate: None for a graph without points.                   *)
Evaluate(kind, input) ==
  CASE kind.kind = "graph" ->
         IF kind.points = <<>> THEN None
         ELSE Clamp(Height(GraphPoints(kind.points), input), 0, Full)
    [] kind.kind = "linear" ->
         Clamp(Height(LinearPoints(kind.start, kind.end), input), 0, Full)
    [] kind.kind = "trigger" ->
         Clamp(IF input <= Clamp(kind.threshold, Coldest, Hottest)
               THEN kind.before ELSE kind.after, 0, Full)

=============================================================================
