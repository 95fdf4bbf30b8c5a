---------------------------- MODULE MCAppWindow ----------------------------
EXTENDS AppWindow

CONSTANTS a, w   \* characters, of one byte and of two

WideChars == {w}
OneFan == {1}
LeastTemp == -80

P(n) == 510 * n
Degrees(n) == 2 * n

Graph == [kind |-> "graph", points |->
            << <<Degrees(30), P(30)>>, <<Degrees(50), P(50)>>, <<Degrees(70), P(80)>> >>]
Trigger == [kind |-> "trigger", threshold |-> Degrees(60), before |-> P(20), after |-> P(100)]
Line == [kind |-> "linear", start |-> <<Degrees(30), P(20)>>, end |-> <<Degrees(80), P(100)>>]

Called(what, id) == << <<<<what, id>>, 1>> >>
Def(kind) == [source |-> <<"temp", 1>>, functions |-> <<Hysteresis>>,
              hysteresis |-> Hysteresis, window |-> DefaultWindow, kind |-> kind]
Curve(id, kind) == [id |-> id, name |-> Called("Curve", id), def |-> Def(kind)]
Sensor(id, inputs) == [id |-> id, name |-> Called("Sensor", id),
                       def |-> [how |-> "average", inputs |-> inputs]]
Input(t) == [temp |-> t, weight |-> 2]

Holding(doc) == [form |-> "good", doc |-> doc]
Curves(curves) == Holding([BlankDoc EXCEPT !.curves = curves])

Plain == [up |-> None, down |-> None, start |-> None, stop |-> None,
          offset |-> 0, minimum |-> 0]

Blank0 == [file |-> Curves(<<Curve(1, Trigger)>>), tools |-> {}, clicks |-> 0, edits |-> 0,
           stops |-> 0, files |-> {}, assign |-> [f \in Fans |-> None], settings |-> Plain,
           floor |-> 0, readback |-> None, temps |-> {1}, percents |-> {}, ids |-> {1}, fields |-> {},
           numbers |-> {}, blank |-> Trigger, cursors |-> {}, sources |-> {}, keys |-> {},
           typed |-> {}]

Key(key) == [key |-> key, ctrl |-> FALSE, shift |-> FALSE, chars |-> <<>>]
Ctrl(key) == [Key(key) EXCEPT !.ctrl = TRUE]
Shift(key) == [Key(key) EXCEPT !.shift = TRUE]
Char(c) == [Key("type") EXCEPT !.chars = <<c>>]

(* A graph under the mouse: near a point, between points and beyond them.  *)
PlotSite == [Blank0 EXCEPT !.file = Curves(<<Curve(1, Graph)>>),
  !.tools = {"dialog", "plot"}, !.clicks = 3,
  !.cursors = {<<Degrees(51), P(51)>>, <<Degrees(60), P(20)>>, <<Degrees(28), P(90)>>}]

(* The side panel of a curve: its kind and functions, and its window.      *)
FieldSite == [Blank0 EXCEPT !.file = Curves(<<Curve(1, Graph)>>),
  !.tools = {"dialog", "fields", "numbers", "tabs"}, !.clicks = 3,
  !.fields = TriggerFields \cup LinearFields \cup FunctionFields,
  !.numbers = {Degrees(200), Bad}, !.typed = {Key("enter"), Key("escape")}]
WindowSite == [FieldSite EXCEPT !.fields = WindowFields, !.tools = @ \ {"tabs"}]

(* One fan given one curve after another, of which some are deleted; the   *)
(* same with one curve, while the service stops.                           *)
AssignSite == [Blank0 EXCEPT
  !.file = Curves(<<Curve(1, Trigger), Curve(2, Line)>>), !.ids = {1, 2},
  !.tools = {"curves", "delete"}, !.clicks = 3, !.assign = [f \in Fans |-> 1]]
StopSite == [AssignSite EXCEPT !.file = Curves(<<Curve(1, Trigger)>>), !.ids = {1},
  !.clicks = 2, !.stops = 1]

(* One fan taken off its curve and moved by hand.                          *)
SliderSite == [Blank0 EXCEPT !.tools = {"targets"}, !.clicks = 3,
  !.assign = [f \in Fans |-> 1], !.percents = {P(10), P(70)}, !.floor = P(20),
  !.readback = P(40)]

(* The settings of one fan, edited, left alone and edited again.           *)
Tuned == [Plain EXCEPT !.up = P(5), !.offset = P(10)]
TuneSite == [Blank0 EXCEPT !.tools = {"tuning"}, !.clicks = 3, !.settings = Tuned,
  !.fields = {"up", "offset"}, !.numbers = {P(200), None, Bad},
  !.typed = {Key("enter"), Key("escape")}]

(* A file edited by hand: a curve of no id before two in another order, one *)
(* of them backwards, a file that does not parse, one that is no config,   *)
(* one that is no text, none.                                              *)
Backwards == [kind |-> "linear", start |-> <<Degrees(80), P(100)>>, end |-> <<Degrees(30), P(20)>>]
Unnamed(kind) == [Curve(None, kind) EXCEPT !.name = <<>>]
Handmade == Curves(<<Curve(2, Trigger), Curve(7, Line)>>)
Torn == [Handmade EXCEPT !.form = "torn"]
Unfit == [Handmade EXCEPT !.form = "unfit"]
HandSite == [Blank0 EXCEPT !.file = Handmade, !.ids = {1, 2}, !.clicks = 2, !.edits = 1,
  !.tools = {"new", "delete", "dialog", "fields"}, !.fields = {"before"},
  !.files = {Torn, Unfit, Unread, NoFile, Curves(<<Unnamed(Graph), Curve(7, Trigger), Curve(2, Backwards)>>)}]

(* Curves that read sensors of other channels, their sources and colors.   *)
SensorDoc == [BlankDoc EXCEPT
  !.customs = <<Sensor(1, <<Input(1)>>), Sensor(2, <<Input(1), Input(2)>>)>>,
  !.curves = <<[Curve(1, Trigger) EXCEPT !.def.source = <<"custom", 1>>],
               [Curve(2, Line) EXCEPT !.def.source = <<"custom", 1>>]>>]
SensorSite == [Blank0 EXCEPT !.file = Holding(SensorDoc), !.ids = {1, 2}, !.temps = {1, 2},
  !.tools = {"sensors", "delete"}, !.clicks = 2]
SourceSite == [SensorSite EXCEPT !.tools = {"dialog", "sources", "colors"}, !.clicks = 3,
  !.sources = {<<"temp", 2>>, <<"custom", 2>>}]

(* Names, typed key by key.                                                *)
NameSite == [Blank0 EXCEPT !.tools = {"names"}, !.clicks = 1, !.keys = {<<"fan", 1>>},
  !.typed = {Char(w), Char(Space), Ctrl("x"), Ctrl("v"), Key("backspace"),
             Shift("left"), Ctrl("right")}]
TitleSite == [Blank0 EXCEPT !.tools = {"dialog", "names"}, !.clicks = 2,
  !.keys = {<<"name", 0>>},
  !.typed = {Key("enter"), Key("escape"), Char(w), Ctrl("a"), Key("home"), Ctrl("delete")}]
LabelSite == [Blank0 EXCEPT !.tools = {"sensors"}, !.clicks = 2,
  !.file = Holding([BlankDoc EXCEPT !.customs = <<Sensor(1, <<Input(1)>>)>>]),
  !.typed = {Key("enter"), Key("escape"), Char(w)}]

(* Pins, what is hidden, and units, from no file at all.                   *)
PageSite == [Blank0 EXCEPT !.file = NoFile, !.tools = {"pages", "units"}, !.clicks = 3,
  !.keys = {<<"temp", 1>>, <<"temp", 0>>, <<"device", 0>>}]

TheSites == [plot |-> PlotSite, field |-> FieldSite, window |-> WindowSite,
             assign |-> AssignSite, stop |-> StopSite, slider |-> SliderSite,
             tune |-> TuneSite, hand |-> HandSite, sensor |-> SensorSite,
             source |-> SourceSite, name |-> NameSite, title |-> TitleSite,
             label |-> LabelSite, page |-> PageSite]

-----------------------------------------------------------------------------
(* Installations the properties do not allow for (README, 3).              *)

(* A plot that begins above the first two points: a first point dragged    *)
(* to its edge passes the second one (CurvesRise).                         *)
NarrowSites == [narrow |-> [PlotSite EXCEPT
  !.file = Curves(<<[Curve(1, [Graph EXCEPT !.points[2] = <<Degrees(35), P(50)>>])
                       EXCEPT !.def.window.left = Degrees(40)]>>),
  !.cursors = {<<Degrees(40), P(30)>>, <<Degrees(40), P(40)>>}]]
(* A name or a unit is chosen within two seconds of an edit by hand        *)
(* (DefinitionsInStep).                                                    *)
OverlookedSites == [hasty |-> [Blank0 EXCEPT !.tools = {"names", "units"}, !.clicks = 1,
  !.keys = {<<"fan", 1>>}, !.edits = 1, !.files = {Handmade}]]
(* A setting is changed and changed back before the service is heard of    *)
(* (EditsArrive).                                                          *)
EchoSites == [echo |-> [TuneSite EXCEPT !.settings = Plain]]
(* A fan is sent to another curve and back before the service is heard of, *)
(* and its curve is deleted (AllReleased).                                 *)
ReturnSites == [back |-> AssignSite]
=============================================================================
