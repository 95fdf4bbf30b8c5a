------------------------------ MODULE AppWindow ------------------------------
(***************************************************************************)
(* The app's window between the user, the config file and the service.     *)
(* Every click and key runs one handler of `AppHandlers`; a timer runs     *)
(* refresh every 100 ms.  The service takes the requests in the order they *)
(* were sent, as many at a time as have arrived, and publishes its state;  *)
(* the client keeps only the last one for the window.                      *)
(*                                                                         *)
(* Each site is an installation: its file, its service, what of the window *)
(* is used there (`tools`) and how often (`clicks`), what is written to    *)
(* the file by hand, and how often the service stops.                      *)
(***************************************************************************)
EXTENDS AppHandlers

CONSTANTS Fans, Sites

ASSUME NameAssumption ==
  /\ IsFiniteSet(Fans) /\ MaxName \in Nat \ {0}
  /\ \A s \in DOMAIN Sites :
       /\ \A file \in Sites[s].files \cup {Sites[s].file} :
            DOMAIN file = {"form", "doc"} /\ IsConfig(file.doc)
       /\ \A k \in Sites[s].typed : k.chars \in Seq(Range(k.chars))

(* The service starts with settings it has sanitized, and the window's     *)
(* controls give numbers.                                                  *)
ASSUME UseAssumption ==
  \A s \in DOMAIN Sites :
    /\ Sites[s].settings \in RawSettings
    /\ Sites[s].settings = Sanitized(Sites[s].settings)
    /\ Sites[s].floor \in Int /\ Sites[s].percents \subseteq Int
    /\ Sites[s].readback \in Percents \cup {None}
    /\ Sites[s].numbers \subseteq Int \cup {None, Bad}
    /\ Sites[s].cursors \subseteq Int \X Int
    /\ Sites[s].blank \in RawKinds
    /\ "tuning" \in Sites[s].tools => Sites[s].fields \subseteq DOMAIN Sites[s].settings

VARIABLES
  site,
  app,       \* the record of `AppHandlers`
  feed,      \* the state the client last published
  fresh,     \* the window has not taken it
  service,   \* curves, customs, assign, target (a duty or None), settings
  up,
  lost,      \* (history) a stop lost a request about a fan
  left       \* clicks, hand edits and stops still to come

vars == <<site, app, feed, fresh, service, up, lost, left>>

Here == Sites[site]
Uses(tool) == tool \in Here.tools

Snapshot ==
  [temps |-> Here.temps,
   fans |-> [f \in Fans |->
     [curve |-> service.assign[f], settings |-> service.settings[f], floor |-> Here.floor,
      target |-> IF service.target[f] = None THEN None
                 ELSE DutyToPercent(service.target[f]),
      readback |-> IF service.assign[f] = None /\ service.target[f] = None THEN None
                   ELSE Here.readback]]]

App0(file) ==
  LET names == Load(file)
  IN [file |-> file, news |-> FALSE, names |-> names, synced |-> FALSE, out |-> <<>>,
      state |-> Connecting, templated |-> FALSE, dialog |-> None, name |-> None,
      number |-> None, edit |-> None, drag |-> 0, custom |-> None, customName |-> None,
      renaming |-> None, confirm |-> None, clipboard |-> <<>>, tuning |-> None,
      slider |-> None, pending |-> <<>>, assigns |-> <<>>, tuned |-> <<>>,
      last |-> <<>>, asked |-> <<>>, mistaken |-> FALSE, units |-> UnitsOf(names)]

Init ==
  /\ site \in DOMAIN Sites
  /\ app = App0(Here.file)
  /\ service = [curves |-> <<>>, customs |-> <<>>, assign |-> Here.assign,
                target |-> [f \in Fans |-> None],
                settings |-> [f \in Fans |-> Here.settings]]
  /\ feed = Connecting /\ fresh = FALSE /\ up = TRUE /\ lost = FALSE
  /\ left = [clicks |-> Here.clicks, hand |-> Here.edits, stops |-> Here.stops]

-----------------------------------------------------------------------------
(* What is on the screen: a dialog covers the pages while it has something *)
(* to show.                                                                *)

CurveDialogUp == Ready(app) /\ app.dialog # None /\ CurveForDisplay(app, app.dialog) # None
CustomDialogUp ==
  Ready(app) /\ ~CurveDialogUp /\ app.custom # None /\ Stored(app.names.customs, app.custom) # None
ConfirmUp ==
  /\ Ready(app) /\ app.confirm # None
  /\ Stored(IF app.confirm[1] = "curve" THEN app.names.curves ELSE app.names.customs,
            app.confirm[2]) # None
RenameUp == app.renaming # None
Covered == CurveDialogUp \/ CustomDialogUp \/ ConfirmUp \/ RenameUp
PageUp == Ready(app) /\ ~Covered /\ app.tuning = None /\ app.number = None

(* A handler has run; those that may write or send are counted, by the    *)
(* click that started them.                                                *)
Handled(next) ==
  app' = next /\ UNCHANGED <<site, feed, fresh, service, up, lost, left>>
Clicked(next) ==
  /\ left.clicks > 0 /\ app.drag = 0 /\ app.slider = None
  /\ left' = [left EXCEPT !.clicks = @ - 1]
  /\ app' = next /\ UNCHANGED <<site, feed, fresh, service, up, lost>>

(* The button goes down on a page before it is a click there, and what was *)
(* being edited is committed.                                              *)
Press ==
  /\ ~Covered
  /\ \/ app.tuning # None /\ Handled(CommitTuning(app))
     \/ app.tuning = None /\ app.number # None /\ Handled(CommitCurveNumber(app))

-----------------------------------------------------------------------------
(* The cards of the fans.                                                  *)

PickCurve(f, id) ==
  /\ Uses("curves") /\ PageUp /\ ShownCurve(app, f) # None
  /\ Stored(app.names.curves, id) # None
  /\ Clicked(AssignFan(app, f, id))

CurveMode(f) ==
  /\ Uses("curves") /\ PageUp /\ app.names.curves # <<>>
  /\ Clicked(SetCurveMode(app, f))

ByHand(f) ==
  /\ Uses("targets") /\ PageUp
  /\ \/ Clicked(SetManual(app, f))
     \/ Clicked(SetAuto(app, f))
     \/ \E p \in Here.percents :
          /\ ShownCurve(app, f) = None
          /\ Clicked(ApplyPercent([app EXCEPT !.slider = f], f, p))

MoveSlider(p) ==
  /\ app.slider # None /\ left.clicks > 0
  /\ left' = [left EXCEPT !.clicks = @ - 1]
  /\ app' = ApplyPercent(app, app.slider, p)
  /\ UNCHANGED <<site, feed, fresh, service, up, lost>>

BeginTuning(f, field) ==
  /\ Uses("tuning") /\ PageUp
  /\ Clicked([app EXCEPT !.renaming = None, !.tuning =
                [fan |-> f, field |-> field, value |-> FanSettings(app, f)[field]]])

TypeNumber(v) ==
  /\ app.tuning # None \/ app.number # None
  /\ Handled(IF app.tuning # None THEN [app EXCEPT !.tuning.value = v]
             ELSE [app EXCEPT !.number.value = IF v = None THEN Bad ELSE v])

FanAction ==
  \/ Press
  \/ \E f \in Fans : CurveMode(f) \/ ByHand(f) \/ \E field \in Here.fields : BeginTuning(f, field)
  \/ \E f \in Fans, id \in Here.ids : PickCurve(f, id)
  \/ \E p \in Here.percents : MoveSlider(p)
  \/ \E v \in Here.numbers : TypeNumber(v)

-----------------------------------------------------------------------------
(* Curves.                                                                 *)

NewCurve == Uses("new") /\ PageUp /\ Clicked(AddCurve(app, Here.blank))

OpenCurve(id) ==
  /\ Uses("dialog") /\ PageUp /\ Stored(app.names.curves, id) # None
  /\ Clicked(OpenCurveDialog(app, id))

AskDelete(what) ==
  /\ Uses("delete") /\ PageUp
  /\ Stored(IF what[1] = "curve" THEN app.names.curves ELSE app.names.customs, what[2]) # None
  /\ Handled([app EXCEPT !.confirm = what])

AnswerDelete ==
  /\ ConfirmUp
  /\ LET b == [app EXCEPT !.confirm = None]
     IN \/ Handled(b)
        \/ app.confirm[1] = "curve" /\ Clicked(DeleteTheCurve(b, app.confirm[2]))
        \/ app.confirm[1] = "custom" /\ Clicked(DeleteCustomSensor(b, app.confirm[2]))

CloseCurve == CurveDialogUp /\ app.drag = 0 /\ Handled(CloseCurveDialog(app))

StepField(field, sign) ==
  /\ Uses("fields") /\ CurveDialogUp
  /\ field \in Offered(CurveForDisplay(app, app.dialog).def)
  /\ Clicked(StepCurveNumber(app, app.dialog, field, sign))

EditField(field) ==
  /\ Uses("numbers") /\ CurveDialogUp
  /\ field \in Offered(CurveForDisplay(app, app.dialog).def)
  /\ Clicked(BeginCurveNumber(app, app.dialog, field))

Direction(f, downward) ==
  IF f.fn = "standard" THEN [f EXCEPT !.downward = downward] ELSE f

PickTab ==
  /\ Uses("tabs") /\ CurveDialogUp
  /\ LET def == CurveForDisplay(app, app.dialog).def
         sane == SaneKind(def.kind)
     IN \/ \E kind \in {AsGraph(sane), AsTrigger(sane, Here.blank), AsLinear(sane, Here.blank)} :
             Clicked(SetCurveKind(app, app.dialog, kind))
        \/ \E f \in {[fn |-> "identity"], Hysteresis, [fn |-> "ema", alpha |-> 25]}
                      \cup {Direction(PrimaryFunction(def), d) : d \in BOOLEAN} :
             Clicked(SetPrimaryFunction(app, app.dialog, f))

PickSource(source) ==
  /\ Uses("sources") /\ CurveDialogUp
  /\ \/ source[1] = "temp" /\ source[2] \in app.state.temps
     \/ source[1] = "custom" /\ Stored(app.names.customs, source[2]) # None
  /\ Clicked(SetCurveSource(app, app.dialog, source))

PickColor(color) ==
  /\ Uses("colors") /\ CurveDialogUp
  /\ Clicked(ReloadConfig(Wrote(app, SaveCurveColor(app.file.doc, app.dialog, color))))

PlotDown(cursor, twice) ==
  /\ Uses("plot") /\ CurveDialogUp /\ Clicked(CurveEditorDown(app, cursor, twice))
DragTo(cursor) == app.drag # 0 /\ Handled(CurveDragMove(app, cursor))

MouseUp ==
  /\ app.drag # 0 \/ app.slider # None
  /\ Handled([EndCurveDrag(app) EXCEPT !.slider = None])

CurveAction ==
  \/ NewCurve \/ AnswerDelete \/ CloseCurve \/ PickTab \/ MouseUp
  \/ \E id \in Here.ids : OpenCurve(id) \/ AskDelete(<<"curve", id>>) \/ AskDelete(<<"custom", id>>)
  \/ \E field \in Here.fields : EditField(field) \/ StepField(field, 1) \/ StepField(field, -1)
  \/ \E source \in Here.sources : PickSource(source)
  \/ \E color \in {"red", None} : PickColor(color)
  \/ \E cursor \in Here.cursors : DragTo(cursor) \/ \E twice \in BOOLEAN : PlotDown(cursor, twice)

-----------------------------------------------------------------------------
(* Custom sensors, names, and the rest of the file.                        *)

NewSensor == Uses("sensors") /\ PageUp /\ Clicked(AddCustom(app))
OpenSensor(id) ==
  /\ Uses("sensors") /\ PageUp /\ Stored(app.names.customs, id) # None
  /\ Clicked(OpenCustomDialog(app, id))

EditSensor ==
  /\ CustomDialogUp
  /\ LET sensor == Stored(app.names.customs, app.custom)
         def == sensor.def
         absent == {t \in app.state.temps : \A i \in DOMAIN def.inputs : def.inputs[i].temp # t}
         Becomes(new) == Clicked(CommitCustom(app, [sensor EXCEPT !.def = new]))
     IN \/ \E how \in {"average", "min", "max"} \ {def.how} : Becomes(WithKind(def, how))
        \/ \E t \in absent : Becomes(WithInput(def, t))
        \/ \E i \in DOMAIN def.inputs : Len(def.inputs) > 1 /\ Becomes(WithoutInput(def, i))
        \/ \E i \in DOMAIN def.inputs, sign \in {-1, 1} :
             def.how = "average" /\ Becomes(WithWeight(def, i, sign))

CloseSensor == CustomDialogUp /\ (Handled(CommitCustomDialog(app)) \/ Handled(CloseCustomDialog(app)))

Rename(key) ==
  /\ Uses("names") /\ PageUp
  /\ Clicked(BeginRename(app, key,
               Label(app.names, key, IF key = <<"name", 0>> THEN ChipName ELSE IdName(key[1], key[2]))))
AnswerRename == RenameUp /\ (Handled(CommitRename(app)) \/ Handled([app EXCEPT !.renaming = None]))

(* Pins, how the lines of the graph look, and what is hidden: a toggle     *)
(* under one that hides it is inert.                                       *)
Arrange(key) ==
  /\ Uses("pages") /\ PageUp
  /\ LET doc == app.file.doc
         looks == {Pinned(doc, app.names, key), Toggled(doc, app.names, key),
                   Restyled(doc, key, "red", "dashed"), Restyled(doc, key, None, None)}
     IN \E new \in (IF key[2] # 0 /\ ~IsHidden(app.names, key) THEN looks ELSE {})
                     \cup (IF HiddenAbove(app.names, key) THEN {}
                           ELSE {Hidden(doc, app.names, key)}) :
          Clicked(ReloadConfig(Wrote(app, new)))

PickUnits(units) == Uses("units") /\ PageUp /\ Clicked(SetUnits(app, units))

OtherAction ==
  \/ NewSensor \/ EditSensor \/ CloseSensor \/ AnswerRename
  \/ \E id \in Here.ids : OpenSensor(id)
  \/ \E key \in Here.keys : Rename(key) \/ Arrange(key)
  \/ \E temp \in {"celsius", "fahrenheit"} : PickUnits([app.units EXCEPT !.temp = temp])

-----------------------------------------------------------------------------
(* Keys go to the innermost of what is open, on the screen or not.         *)

Typed(input, k) ==
  [input EXCEPT !.field = HandleTextKey(@, k, MaxName, app.clipboard)]
Clip(k, field) == Clipped(field, k, app.clipboard)

AfterKey(k) ==
    CASE app.tuning # None ->
           IF k.key = "enter" THEN CommitTuning(app)
           ELSE IF k.key = "escape" THEN [app EXCEPT !.tuning = None] ELSE app
      [] app.tuning = None /\ app.number # None ->
           IF k.key = "enter" THEN CommitCurveNumber(app)
           ELSE IF k.key = "escape" THEN [app EXCEPT !.number = None] ELSE app
      [] app.tuning = None /\ app.number = None /\ app.renaming # None ->
           IF k.key = "enter" THEN CommitRename(app)
           ELSE IF k.key = "escape" THEN [app EXCEPT !.renaming = None]
           ELSE [app EXCEPT !.renaming = Typed(@, k), !.clipboard = Clip(k, app.renaming.field)]
      [] OTHER ->
           IF app.custom # None /\ app.customName # None
           THEN IF k.key = "enter" THEN CommitCustomDialog(app)
                ELSE IF k.key = "escape" THEN CloseCustomDialog(app)
                ELSE [app EXCEPT !.customName = Typed(@, k),
                                 !.clipboard = Clip(k, app.customName.field)]
           ELSE IF k.key = "escape"
           THEN IF app.confirm # None THEN [app EXCEPT !.confirm = None]
                ELSE IF app.dialog # None THEN CloseCurveDialog(app) ELSE app
           ELSE IF app.dialog # None /\ app.name # None
           THEN IF k.key = "enter" THEN CommitCurveName(app)
                ELSE [app EXCEPT !.name = Typed(@, k), !.clipboard = Clip(k, app.name.field)]
           ELSE app

KeyDown(k) ==
  /\ k.key = "enter" => left.clicks > 0
  /\ left' = [left EXCEPT !.clicks = IF k.key = "enter" THEN @ - 1 ELSE @]
  /\ app' = AfterKey(k) /\ UNCHANGED <<site, feed, fresh, service, up, lost>>

-----------------------------------------------------------------------------
(* The timer: every twentieth time it also looks at the file.              *)

(* An assignment was taken for heard of, though the fan is not there yet   *)
(* or is yet to be sent elsewhere before it stays there.                   *)
Mistook(taken) ==
  \E f \in DOMAIN app.assigns \ DOMAIN taken.assigns :
    \/ service.assign[f] # app.assigns[f]
    \/ \E i \in DOMAIN app.out :
         /\ app.out[i].fan = f /\ app.out[i].req # "settings"
         /\ app.assigns[f] # IF app.out[i].req = "assign" THEN app.out[i].to ELSE None

Tick(look) ==
  /\ fresh' = FALSE
  /\ UNCHANGED <<left, up, lost, site, feed, service>>
  /\ \E taken \in {IF fresh THEN Taken(app, feed) ELSE app} :
     \E seen \in {IF look THEN HotReloaded(taken) ELSE taken} :
       app' = [Synced(seen) EXCEPT !.mistaken = @ \/ Mistook(taken)]

(* The file is saved from elsewhere.                                       *)
HandEdit(file) ==
  /\ left.hand > 0 /\ file # app.file
  /\ left' = [left EXCEPT !.hand = @ - 1]
  /\ app' = [app EXCEPT !.file = file, !.news = TRUE]
  /\ UNCHANGED <<site, feed, fresh, service, up, lost>>

-----------------------------------------------------------------------------
(* The service.  Of the requests that queued up since it last looked,      *)
(* targets come before assignments and those before settings; the last of  *)
(* each kind counts.                                                       *)

Latest(batch, req, f, otherwise) ==
  LET i == SelectLastInSeq(batch, LAMBDA r : r.req = req /\ r.fan = f)
  IN IF i = 0 THEN otherwise ELSE batch[i].to
Requested(batch, req, f) == \E i \in DOMAIN batch : batch[i].req = req /\ batch[i].fan = f

Served(batch) ==
  [curves |-> Latest(batch, "curves", None, service.curves),
   customs |-> Latest(batch, "customs", None, service.customs),
   assign |-> [f \in Fans |->
     Latest(batch, "assign", f,
            IF Requested(batch, "target", f) THEN None ELSE service.assign[f])],
   target |-> [f \in Fans |->
     IF Requested(batch, "assign", f) THEN None
     ELSE Latest(batch, "target", f, service.target[f])],
   settings |-> [f \in Fans |->
     IF Requested(batch, "settings", f)
     THEN Sanitized(Latest(batch, "settings", f, None)) ELSE service.settings[f]]]

Serve(n) ==
  /\ up /\ n <= Len(app.out)
  /\ UNCHANGED <<left, up, lost, fresh, site, feed>>
  /\ app' = [app EXCEPT !.out = SubSeq(@, n + 1, Len(@))]
  /\ \E batch \in {SubSeq(app.out, 1, n)} : service' = Served(batch)

AboutFans(batch) == \E i \in DOMAIN batch : batch[i].fan # None

(* No connection to be had: the request is gone.                           *)
Forsake ==
  /\ ~up /\ app.out # <<>>
  /\ UNCHANGED <<site, feed, fresh, service, up, left>>
  /\ lost' = (lost \/ AboutFans(SubSeq(app.out, 1, 1)))
  /\ app' = [app EXCEPT !.out = Tail(@)]

(* Every poll is published, and heard of if the window looks in time.      *)
Publish ==
  /\ up /\ (~fresh \/ feed # Snapshot)
  /\ fresh' = TRUE
  /\ UNCHANGED <<left, up, lost, site, app, service>>
  /\ feed' = Snapshot

(* The service stops with some requests read and not served.  The client   *)
(* waits before it connects again, and the window sees that.               *)
Stop(n) ==
  /\ up /\ left.stops > 0 /\ n <= Len(app.out)
  /\ up' = FALSE /\ feed' = Gone /\ fresh' = TRUE
  /\ lost' = (lost \/ AboutFans(SubSeq(app.out, 1, n)))
  /\ app' = [app EXCEPT !.out = SubSeq(@, n + 1, Len(@))]
  /\ left' = [left EXCEPT !.stops = @ - 1]
  /\ UNCHANGED <<site, service>>

Start ==
  /\ ~up /\ ~fresh
  /\ up' = TRUE /\ feed' = Busy /\ fresh' = TRUE
  /\ UNCHANGED <<site, app, service, lost, left>>

-----------------------------------------------------------------------------
UserAction == FanAction \/ CurveAction \/ OtherAction \/ \E k \in Here.typed : KeyDown(k)

Next ==
  \/ UserAction
  \/ \E look \in BOOLEAN : Tick(look)
  \/ \E file \in Here.files : HandEdit(file)
  \/ \E n \in 1..Len(app.out) : Serve(n)
  \/ \E n \in 0..Len(app.out) : Stop(n)
  \/ Forsake \/ Publish \/ Start

Spec == Init /\ [][Next]_vars

(* The timer fires and looks at the file, and the service reads its pipe   *)
(* and polls; the user and a stopped service owe nothing.                  *)
FairSpec ==
  /\ Spec
  /\ WF_vars(Tick(TRUE)) /\ WF_vars(Publish)
  /\ WF_vars(Serve(Len(app.out)) /\ app.out # <<>>) /\ WF_vars(Forsake)

-----------------------------------------------------------------------------
(* A copy of a curve exists while a point of it is dragged, what is asked  *)
(* of fans is asked of fans there are, and the window and the service hold *)
(* only definitions as they are evaluated.                                 *)
TypeOK ==
  /\ (app.drag # 0) <=> (app.edit # None)
  /\ app.edit # None => app.drag \in DOMAIN app.edit.def.kind.points
  /\ DOMAIN app.pending \cup DOMAIN app.assigns \cup DOMAIN app.tuned \subseteq Fans
  /\ \A f \in DOMAIN app.pending : app.pending[f] \in Percents
  /\ \A curves \in {app.names.curves, service.curves} : \A i \in DOMAIN curves :
       curves[i].def = NormalizedDef(curves[i].def) /\ curves[i].name # <<>>
  /\ \A f \in Fans : service.settings[f] = Sanitized(service.settings[f])

(* Carets and selections stay between characters whatever is typed, cut,   *)
(* pasted or skipped by words, in every name field (TextEdit slices there  *)
(* and would panic).                                                       *)
Inputs == {app.name, app.customName, app.renaming} \ {None}
CaretsSliceable == \A input \in Inputs : Sliceable(input.field)

(* No field takes more characters than a name may have, counted as         *)
(* insert_filtered counts them, however the text that was selected and     *)
(* what replaces it are encoded; a longer name is one that was written in  *)
(* the file by hand.                                                       *)
Short(text) == Len(Chars(text)) <= MaxName
ShortNames ==
  \A s \in DOMAIN Sites : \A file \in Sites[s].files \cup {Sites[s].file} :
    /\ \A table \in {file.doc.curves, file.doc.customs} :
         \A i \in DOMAIN table : Short(table[i].name)
    /\ \A k \in DOMAIN file.doc.values : k[1] = "chips" => Short(file.doc.values[k])
NamesFit == ShortNames => \A input \in Inputs : Short(input.field.text)

(* What is drawn by adding, dragging and removing points rises with the    *)
(* temperature (curves.rs: a dragged point stops at its neighbors, keeping *)
(* the set ordered, and carries the others up and down with it).           *)
Rises(points) ==
  \A i \in 1..(Len(points) - 1) :
    points[i][1] <= points[i + 1][1] /\ points[i][2] <= points[i + 1][2]
CurvesRise ==
  Uses("plot") =>
    /\ app.edit # None => Rises(app.edit.def.kind.points)
    /\ \A i \in DOMAIN app.file.doc.curves : Rises(app.file.doc.curves[i].def.kind.points)

(* What the window writes changes what at most one curve or sensor is,     *)
(* wherever its entry stands in the file, and however stale the window's   *)
(* own copy is.  (Deleting a sensor repoints the curves that read it.)     *)
Entries(doc) ==
  {<<"curve", e.id, e>> : e \in ToSet(WithFallbacks("curve", doc.curves))}
    \cup {<<"custom", e.id, e>> : e \in ToSet(WithFallbacks("custom", doc.customs))}
Touched(before, after) ==
  {<<e[1], e[2]>> : e \in (Entries(before) \ Entries(after))
                            \cup (Entries(after) \ Entries(before))}
OneAtATime ==
  [][ /\ left'.hand = left.hand
      /\ app.confirm = None \/ app.confirm[1] = "curve"
      => Cardinality(Touched(app.file.doc, app'.file.doc)) <= 1 ]_vars

Settled == Ready(app) /\ up

(* In the end the window shows the file as it is and the service has its   *)
(* definitions, through edits on either side, restarts and lost requests   *)
(* ("Keep the service's custom sensor and curve definitions in step with   *)
(* the config, resending after edits and reconnects").                     *)
Shared(names) ==
  [names EXCEPT !.values = Restrict(@, {k \in DOMAIN @ : k[1] # "units"})]
DefinitionsInStep ==
  <>[](Settled =>
        /\ Shared(app.names) = Shared(Load(app.file))
        /\ app.units = UnitsOf(Load(app.file))
        /\ service.curves = app.names.curves /\ service.customs = app.names.customs)

(* In the end the cards show the curve and the settings the service has:   *)
(* nothing assumed is left over ("Clamps mirror the service so the         *)
(* optimistic value matches the echo").                                    *)
ShownIsServed ==
  <>[](Settled /\ ~lost =>
        \A f \in Fans : /\ ShownCurve(app, f) = service.assign[f]
                        /\ FanSettings(app, f) = service.settings[f])

(* Every setting the user committed is the service's in the end, however   *)
(* many were edited before the first was heard of.                         *)
EditsArrive ==
  <>[](Settled /\ ~lost =>
        \A edit \in DOMAIN app.asked :
          LET settings == service.settings[edit[1]]
          IN settings = WithSetting(settings, edit[2], app.asked[edit]))

(* In the end no fan is on a curve that is not there: deleting a curve     *)
(* releases the fans it drives, those it was just given included ("Fans    *)
(* driven by this curve return to UEFI/Firmware control"), unless the      *)
(* window took a state older than an assignment for its echo.              *)
NoneLeft ==
  \A f \in Fans : service.assign[f] # None =>
    Stored(service.curves, service.assign[f]) # None
DeletedReleased == <>[](Settled /\ ~lost /\ ~app.mistaken => NoneLeft)

(* The same without that exception, as the question and fan_curve have it  *)
(* ("the optimistic value while an assignment is in flight"): the code     *)
(* does not keep it (README, 3).                                           *)
AllReleased == <>[](Settled /\ ~lost => NoneLeft)
=============================================================================
