----------------------------- MODULE AppHandlers -----------------------------
(***************************************************************************)
(* The handlers of the window, each as what it makes of the app: the       *)
(* record `a` holds what the window keeps, the file it edits and the       *)
(* requests it queued.  A handler that calls another is composed of it.    *)
(*                                                                         *)
(*   file, news      the config file; it changed since the window read it  *)
(*   names, synced   the config as loaded; the service was sent it         *)
(*   out             requests on their way to the service, oldest first    *)
(*   state           the last state taken from the service                 *)
(*   templated       whether the window looked for a file to start with    *)
(*   dialog, name    the curve edited and its name field [id, field]       *)
(*   number          a number field being edited [curve, field, value]     *)
(*   edit, drag      a copy of the curve whose point is dragged, the point *)
(*   custom, customName, renaming, confirm, clipboard                      *)
(*                   likewise for a sensor, a channel, a deletion          *)
(*   tuning          a fan setting being edited [fan, field, value]        *)
(*   slider          the fan whose slider is held                          *)
(*   pending, assigns, tuned   what was asked for a fan and not heard of   *)
(*                   yet: percent, curve, settings                         *)
(*   last            the curve last chosen for a fan                       *)
(*   units           of temperatures and of fans                           *)
(*   asked           (history) what the user set, by <<fan, setting>>      *)
(*   mistaken        (history) a state older than an assignment was taken  *)
(*                   for its echo                                          *)
(***************************************************************************)
EXTENDS AppConfig

CONSTANTS
  Connecting, Gone,   \* the client's own states
  Busy,               \* any state of the service that is not Ready
  Bad,                \* a text that is no number
  MaxName             \* longest name, 40 characters

Ready(a) == a.state \notin {Connecting, Gone, Busy}

Stored(entries, id) ==
  LET i == SelectInSeq(entries, LAMBDA e : e.id = id)
  IN IF i = 0 THEN None ELSE entries[i]

-----------------------------------------------------------------------------
(* The file and the service.                                               *)

Wrote(a, doc) ==
  [a EXCEPT !.file = Edited(@, doc), !.news = @ \/ a.file.form # "torn"]

Reread(a) == [a EXCEPT !.names = Load(a.file), !.news = FALSE]
ReloadConfig(a) == [Reread(a) EXCEPT !.synced = FALSE]

Send(a, req, fan, to) ==
  [a EXCEPT !.out = Append(@, [req |-> req, fan |-> fan, to |-> to])]

(* refresh, in its three parts: the state the client published, ...        *)
Taken(a, state) ==
  LET b == [a EXCEPT !.state = state,
                     !.pending = IF a.slider = None THEN <<>> ELSE @]
      Kept(map, shown) == Restrict(map, {f \in DOMAIN map :
                            f \in DOMAIN state.fans => state.fans[f][shown] # map[f]})
  IN IF ~Ready(b) THEN b
     ELSE [b EXCEPT !.tuned = Kept(@, "settings"), !.assigns = Kept(@, "curve"),
                    !.file = IF a.templated THEN @ ELSE WriteTemplate(@),
                    !.news = @ \/ (~a.templated /\ a.file.form = "none"),
                    !.templated = TRUE]

(* Mutant: the definitions sent once are not sent again.                   *)
QuietlyReloaded(a) == IF ~a.news THEN a ELSE Reread(a)

(* ... the file, if it changed, ...                                        *)
HotReloaded(a) ==
  LET Showing(b) == [b EXCEPT !.units = UnitsOf(b.names)]
  IN IF ~a.news THEN a ELSE Showing(ReloadConfig(a))

(* ... and the definitions the service should have.                        *)
Synced(a) ==
  IF Ready(a) /\ ~a.synced
  THEN [Send(Send(a, "customs", None, a.names.customs), "curves", None, a.names.curves)
          EXCEPT !.synced = TRUE]
  ELSE IF a.state \in {Connecting, Gone} THEN [a EXCEPT !.synced = FALSE] ELSE a

-----------------------------------------------------------------------------
(* Fans.                                                                   *)

FanStatus(a, f) == IF Ready(a) /\ f \in DOMAIN a.state.fans THEN a.state.fans[f] ELSE None

ShownCurve(a, f) ==
  IF f \in DOMAIN a.assigns THEN a.assigns[f] ELSE FanStatus(a, f).curve
FanSettings(a, f) ==
  IF f \in DOMAIN a.tuned THEN a.tuned[f] ELSE FanStatus(a, f).settings

Remember(a, f, id) ==
  LET b == [a EXCEPT !.last = Put(@, f, id)]
  IN IF Ready(b) THEN Wrote(b, SaveFanCurve(b.file.doc, <<"fan", f>>, id)) ELSE b
RememberCurrent(a, f) ==
  IF FanStatus(a, f) = None \/ ShownCurve(a, f) = None THEN a
  ELSE Remember(a, f, ShownCurve(a, f))

Without(map, f) == Restrict(map, DOMAIN map \ {f})

AssignFan(a, f, id) ==
  LET b == IF id = None THEN RememberCurrent(a, f) ELSE Remember(a, f, id)
  IN Send([b EXCEPT !.pending = Without(@, f), !.assigns = Put(@, f, id)],
          "assign", f, id)

RememberedCurve(a, f) ==
  LET id == IF f \in DOMAIN a.last THEN a.last[f] ELSE FanCurve(a.names, <<"fan", f>>)
  IN IF Stored(a.names.curves, id) = None THEN None ELSE id

(* Curve mode resumes the fan's last curve, or takes the first one.        *)
SetCurveMode(a, f) ==
  IF a.names.curves = <<>> THEN a
  ELSE AssignFan(a, f, IF RememberedCurve(a, f) # None THEN RememberedCurve(a, f)
                       ELSE a.names.curves[1].id)

(* By hand: not below the fan's minimum, and off its curve.                *)
ApplyPercent(a, f, percent) ==
  LET fan == FanStatus(a, f)
      floor == IF fan = None THEN 0
               ELSE Clamp(Larger(FanSettings(a, f).minimum, fan.floor), 0, Full)
      p == Clamp(percent, floor, Full)
      b == RememberCurrent([a EXCEPT !.pending = Put(@, f, p)], f)
  IN Send([b EXCEPT !.assigns = Put(@, f, None)], "target", f, PercentToDuty(p))

(* Where the fan was last sent by hand, or where its control stands.       *)
SetManual(a, f) ==
  LET fan == FanStatus(a, f)
      shown == IF f \in DOMAIN a.pending THEN a.pending[f]
               ELSE IF fan.target # None THEN fan.target ELSE fan.readback
  IN ApplyPercent(a, f, IF shown = None THEN Full \div 2 ELSE shown)
SetAuto(a, f) ==
  LET b == RememberCurrent(a, f)
  IN Send([b EXCEPT !.pending = Without(@, f), !.assigns = Put(@, f, None)],
          "target", f, None)

(* Mutant: the window shows what was typed.                                *)
WithRawSetting(s, field, v) ==
  [s EXCEPT ![field] = IF v = None /\ field \in {"offset", "minimum"} THEN 0 ELSE v]

(* commit_edit: an empty text clears a setting, another that is no number  *)
(* leaves it alone; the clamps are those of the service.                   *)
WithSetting(s, field, v) ==
  LET rate == IF v = None \/ v <= 0 THEN None ELSE Clamp(v, 0, Full \div 4)
      percent == IF v = None THEN None ELSE Clamp(v, 0, Full)
      bound == IF field = "offset" THEN Full ELSE 0
  IN [s EXCEPT ![field] =
        CASE field \in {"up", "down"} -> rate
          [] field \in {"start", "stop"} -> percent
          [] field = "offset" -> IF v = None THEN 0 ELSE Clamp(v, -Full, Full)
          [] field = "minimum" -> IF v = None THEN 0 ELSE percent]

(* Mutant: the settings are sent before the edit is in them.               *)
CommitLate(a) ==
  LET edit == a.tuning
      before == FanSettings(a, edit.fan)
  IN IF edit = None THEN a
     ELSE IF edit.value = Bad \/ FanStatus(a, edit.fan) = None
     THEN [a EXCEPT !.tuning = None]
     ELSE Send([a EXCEPT !.tuning = None,
                         !.tuned = Put(@, edit.fan, WithSetting(before, edit.field, edit.value)),
                         !.asked = Put(@, <<edit.fan, edit.field>>, edit.value)],
               "settings", edit.fan, before)

CommitTuning(a) ==
  LET edit == a.tuning
      b == [a EXCEPT !.tuning = None]
  IN IF edit = None THEN a
     ELSE IF edit.value = Bad \/ FanStatus(a, edit.fan) = None THEN b
     ELSE LET settings == WithSetting(FanSettings(a, edit.fan), edit.field, edit.value)
          IN Send([b EXCEPT !.tuned = Put(@, edit.fan, settings),
                            !.asked = Put(@, <<edit.fan, edit.field>>, edit.value)],
                  "settings", edit.fan, settings)

-----------------------------------------------------------------------------
(* Curves.                                                                 *)

CurveForDisplay(a, id) ==
  LET curve == IF a.edit # None /\ a.edit.id = id THEN a.edit
               ELSE Stored(a.names.curves, id)
      typed == IF a.name # None /\ a.name.id = id THEN Trimmed(a.name.field.text) ELSE <<>>
  IN IF curve = None \/ typed = <<>> THEN curve ELSE [curve EXCEPT !.name = typed]

CommitCurve(a, curve) == ReloadConfig(Wrote(a, SaveCurve(a.file.doc, curve)))

EndCurveDrag(a) ==
  LET b == [a EXCEPT !.drag = 0, !.edit = None]
  IN IF a.drag = 0 THEN a ELSE IF a.edit = None THEN b ELSE CommitCurve(b, a.edit)

(* With the curve redefined; None leaves it.                               *)
Changed(a, curve, def) ==
  IF def = None THEN a ELSE CommitCurve(a, [curve EXCEPT !.def = def])

SetPrimaryFunction(a, id, f) ==
  LET b == EndCurveDrag(a)
      curve == CurveForDisplay(b, id)
  IN IF curve = None THEN b
     ELSE Changed(b, curve, WithFunction(curve.def, SaneFunction(f)))

SetCurveNumber(a, id, field, v) ==
  LET b == IF field \in WindowFields \cup FunctionFields THEN EndCurveDrag(a) ELSE a
      curve == CurveForDisplay(b, id)
  IN IF curve = None THEN b ELSE Changed(b, curve, WithField(curve.def, field, v))

StepCurveNumber(a, id, field, sign) ==
  SetCurveNumber(a, id, field, FieldValue(CurveForDisplay(a, id).def, field)
                                 + sign * StepOf(field))

SetCurveKind(a, id, kind) ==
  LET curve == CurveForDisplay(a, id)
  IN IF curve = None THEN a
     ELSE CommitCurve([a EXCEPT !.drag = 0, !.edit = None],
                      [curve EXCEPT !.def.kind = SaneKind(kind)])

SetCurveSource(a, id, source) ==
  CommitCurve(a, [CurveForDisplay(a, id) EXCEPT !.def.source = source])

(* The smallest number no loaded entry has, above how many there are.      *)
FreshId(entries) ==
  LET taken == {entries[i].id : i \in DOMAIN entries}
  IN CHOOSE n \in (Len(entries) + 1)..(2 * Len(entries) + 1) :
       n \notin taken /\ \A m \in (Len(entries) + 1)..(n - 1) : m \in taken

FirstTempSource(a) ==
  IF Ready(a) /\ a.state.temps # {} THEN <<"temp", Min(a.state.temps)>> ELSE None

DefaultWindow == [left |-> 50, right |-> 180, low |-> 15 * 510, high |-> Full]

AddCurve(a, kind) ==
  LET source == IF FirstTempSource(a) # None THEN FirstTempSource(a)
                ELSE IF a.names.customs # <<>> THEN <<"custom", a.names.customs[1].id>>
                ELSE None
      id == FreshId(a.names.curves)
      title == IdName("Curve", id)
  IN IF source = None THEN a
     ELSE CommitCurve([a EXCEPT !.dialog = id, !.name = [id |-> id, field |-> Field(title)],
                                !.custom = None, !.customName = None, !.renaming = None],
            [id |-> id, name |-> title, def |->
               [source |-> source, functions |-> <<Hysteresis>>, hysteresis |-> Hysteresis,
                window |-> DefaultWindow, kind |-> kind]])

(* Mutant: the fans are left on the curve.                                 *)
KeepFans(a, id) == a

(* Every fan the curve drives is released first.                           *)
ReleaseFans(a, id) ==
  LET fans == IF ~Ready(a) THEN {}
              ELSE {f \in DOMAIN a.state.fans : ShownCurve(a, f) = id}
      order == SetToSeq(fans)
      after[i \in 0..Cardinality(fans)] ==
        IF i = 0 THEN a ELSE AssignFan(after[i - 1], order[i], None)
  IN after[Cardinality(fans)]

DeleteTheCurve(a, id) ==
  LET Closed(b) == [b EXCEPT !.dialog = IF @ = id THEN None ELSE @,
                             !.name = IF @ # None /\ @.id = id THEN None ELSE @,
                             !.edit = None, !.drag = 0]
      Deleted(b) == Wrote(b, DeleteCurve(b.file.doc, id))
      Bare(b) == Wrote(b, SaveCurveColor(b.file.doc, id, None))
  IN ReloadConfig(Bare(Deleted(Closed(ReleaseFans(a, id)))))

OpenCurveDialog(a, id) ==
  LET curve == Stored(a.names.curves, id)
  IN [a EXCEPT !.number = None, !.dialog = id,
               !.name = IF curve = None THEN None
                        ELSE [id |-> id, field |-> Field(curve.name)],
               !.custom = None, !.customName = None, !.renaming = None]

CommitCurveName(a) ==
  LET typed == IF a.name = None THEN <<>> ELSE Trimmed(a.name.field.text)
      unchanged == \E i \in DOMAIN a.names.curves :
                     /\ a.names.curves[i].id = a.name.id
                     /\ a.names.curves[i].name = typed
  IN IF typed = <<>> \/ unchanged THEN a
     ELSE ReloadConfig(Wrote(a, SaveCurveName(a.file.doc, a.name.id, typed)))

CommitCurveNumber(a) ==
  LET b == [a EXCEPT !.number = None]
  IN IF a.number = None THEN a
     ELSE IF a.number.value = Bad THEN b
     ELSE SetCurveNumber(b, a.number.curve, a.number.field, a.number.value)

BeginCurveNumber(a, id, field) ==
  LET b == CommitCurveNumber(a)
  IN [b EXCEPT !.number = [curve |-> id, field |-> field,
                           value |-> FieldValue(CurveForDisplay(a, id).def, field)]]

CloseCurveDialog(a) ==
  LET b == CommitCurveName(EndCurveDrag(CommitCurveNumber(a)))
  IN [b EXCEPT !.dialog = None, !.name = None, !.number = None]

(* Mouse down on the plot: take a point away, grab one or add one.         *)
CurveEditorDown(a, cursor, twice) ==
  LET curve == CurveForDisplay(a, a.dialog)
      window == SaneWindow(curve.def.window)
      points == curve.def.kind.points
      hit == Grabbed(points, window, cursor)
      at == PlotValue(window, cursor)
      Grab(i, with) == [a EXCEPT !.drag = i, !.edit = [curve EXCEPT !.def.kind.points = with]]
  IN IF curve = None \/ curve.def.kind.kind # "graph" THEN a
     ELSE IF hit = 0 THEN Grab(InsertPlace(points, at), InsertPoint(points, at))
     ELSE IF ~twice THEN Grab(hit, points)
     ELSE IF Len(points) = 1 THEN a
     ELSE CommitCurve([a EXCEPT !.drag = 0, !.edit = None],
                      [curve EXCEPT !.def.kind.points = RemoveAt(@, hit)])

CurveDragMove(a, cursor) ==
  LET window == SaneWindow(a.edit.def.window)
      at == PlotValue(window, cursor)
  IN IF a.drag = 0 \/ a.edit = None THEN a
     ELSE [a EXCEPT !.edit.def.kind.points = DragPoint(@, a.drag, window, at)]

-----------------------------------------------------------------------------
(* Custom sensors: [how, inputs], an input a channel and its weight in     *)
(* halves.                                                                 *)

CommitCustom(a, sensor) == ReloadConfig(Wrote(a, SaveCustom(a.file.doc, sensor)))

OpenCustomDialog(a, id) ==
  LET sensor == Stored(a.names.customs, id)
      name == IF sensor = None THEN IdName("custom", id) ELSE sensor.name
  IN [a EXCEPT !.custom = id, !.customName = [id |-> id, field |-> Field(name)],
               !.dialog = None, !.name = None, !.renaming = None]

AddCustom(a) ==
  LET id == FreshId(a.names.customs)
      title == IdName("Sensor", id)
      b == [a EXCEPT !.custom = id, !.customName = [id |-> id, field |-> Field(title)],
                     !.dialog = None, !.name = None, !.renaming = None]
  IN CommitCustom(b, [id |-> id, name |-> title, def |-> [how |-> "average", inputs |-> <<>>]])

CloseCustomDialog(a) == [a EXCEPT !.custom = None, !.customName = None]

CommitCustomDialog(a) ==
  LET typed == IF a.customName = None THEN <<>> ELSE Trimmed(a.customName.field.text)
      b == IF typed = <<>> THEN a
           ELSE [Wrote(a, SaveCustomName(a.file.doc, a.customName.id, typed))
                   EXCEPT !.synced = FALSE]
  IN Reread(CloseCustomDialog(b))

(* The definitions the editor can make of a sensor's.                      *)
WithKind(def, how) == [def EXCEPT !.how = how]
WithInput(def, temp) == [def EXCEPT !.inputs = Append(@, [temp |-> temp, weight |-> 2])]
WithoutInput(def, i) ==
  IF Len(def.inputs) > 1 THEN [def EXCEPT !.inputs = RemoveAt(@, i)] ELSE def
WithWeight(def, i, sign) == [def EXCEPT !.inputs[i].weight = Clamp(@ + sign, 1, 20)]

(* Curves that read a deleted sensor read the first temperature instead.   *)
DeleteCustomSensor(a, id) ==
  LET source == FirstTempSource(a)
      curves == a.names.curves
      Repoint(b, curve) ==
        IF source = None \/ curve.def.source # <<"custom", id>> THEN b
        ELSE Wrote(b, SaveCurve(b.file.doc, [curve EXCEPT !.def.source = source]))
      after[i \in 0..Len(curves)] == IF i = 0 THEN a ELSE Repoint(after[i - 1], curves[i])
      b == after[Len(curves)]
  IN ReloadConfig(Wrote(b, DeleteCustom(b.file.doc, id)))

-----------------------------------------------------------------------------
(* Names of channels and of the chip, pins, colors, what is hidden.        *)

ChipName == IdName("name", 0)

BeginRename(a, key, shown) ==
  [a EXCEPT !.tuning = None, !.dialog = None, !.name = None, !.custom = None,
            !.customName = None, !.renaming = [key |-> key, field |-> Field(shown)]]

(* A channel's or the chip's: nothing begins this with a sensor's key, as  *)
(* its name is edited in its dialog (`sensor_panel.rs` 52, 168).           *)
CommitRename(a) ==
  LET typed == Trimmed(a.renaming.field.text)
      key == a.renaming.key
      same == typed = <<>> \/ (key = <<"name", 0>> /\ typed = ChipName)
      b == [a EXCEPT !.renaming = None]
      saved == Wrote(b, SaveChipName(b.file.doc, key, IF same THEN None ELSE typed))
  IN IF a.renaming = None THEN a
     ELSE Reread(IF key = <<"name", 0>> \/ Ready(a) THEN saved ELSE b)

SetUnits(a, units) ==
  LET b == Wrote(a, SaveUnits(a.file.doc, units.temp, units.fan))
  IN [b EXCEPT !.units = units, !.news = FALSE]

Pinned(doc, names, item) == SetDashboardPinned(doc, item, ~IsPinned(names, item))
Hidden(doc, names, key) == SetHidden(doc, key, ~Contains(names.hidden, key))

(* A line that is shown or not as its kind is by default needs no entry.   *)
Toggled(doc, names, key) ==
  LET default == key[1] # "fan"
      next == ~ValueOr(names, "graph_shown", key, default)
  IN SetGraphField(doc, "graph_shown", key, IF next = default THEN None ELSE next)

Restyled(doc, key, color, style) ==
  SetGraphField(SetGraphField(doc, "graph_color", key, color), "graph_style", key, style)
=============================================================================
