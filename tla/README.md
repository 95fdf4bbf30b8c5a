# A verification development of zugluft

zugluft is a Windows fan control: a service that owns the hardware through
LibreHardwareMonitor (LHM), a graphical app and a command line client. This
directory holds TLA+ models of it, TLC configurations that check them on small
instances, and proofs checked by TLAPS. Line numbers below refer to files under
`src/crates/`.

## 1. The system

### Components

| Component | Source | State it keeps | Operations |
|---|---|---|---|
| Hardware worker | `zugluft-service/src/worker/{mod,duty,publish}.rs` | hardware session, requests, ramps, assignments, write cache, function state, snapshots, curve definitions | one loop: detect, receive and coalesce requests, apply them stage by stage, tick ramps, drive curves, update, publish |
| Calibration run | `worker/calibrate.rs` | restore plan, samples | ladder of duties, pumped requests, abort, restore, save |
| Stores | `zugluft-service/src/{manual,settings,curves,calibration}.rs` | four maps in memory, four JSON files | load, set, save |
| Hardware session | `zugluft-hw/src/lib.rs` | devices, `touched` | open, update, set_fan, force_auto, restore_all, drop |
| LHM bridge | `zugluft-hw/src/ffi.rs`, `lhm-bridge/` | control mode and value inside LHM | foreign functions |
| Curve drive | `worker/duty.rs`, `calibration.rs`, `zugluft-ipc/src/lib.rs` | per fan: function state, ramp, request, write cache | evaluate, filter, shape and invert a target, ramp, boost |
| State hub | `zugluft-service/src/hub.rs` | latest state, client queues | publish, subscribe |
| Pipe server | `zugluft-service/src/server.rs` | a thread per client | forward events, read requests |
| IPC protocol | `zugluft-ipc/src/lib.rs` | none | requests, events, curve evaluation, sanitizing |
| Custom sensors | `zugluft-service/src/custom.rs`, `zugluft-app/src/ui/custom_ui.rs` | definitions | edit, resolve a reading |
| Service host | `zugluft-service/src/main.rs` | none | run, stop, install |
| CLI | `zugluft-cli/src` | baseline file | status, set, auto, calibrate |
| App client | `zugluft-app/src/client.rs` | connection, last state | forward requests, receive events, reconnect |
| App UI state | `zugluft-app/src/ui/{mod,types,fans,curves,editing,custom_ui,sensors}.rs` | drags, text fields, dialogs, what was asked of fans and not heard of, view of the service | a handler per click and key, `refresh` every 100 ms |
| App configuration | `zugluft-app/src/config` | one TOML file: names, curves, sensors, colors, pins, units | load, and one edit in place per setting |
| App views | `zugluft-app/src/ui/*_panel.rs`, `fan_card.rs`, `controls.rs` and others | none | offer the controls and call the handlers |

Clients put requests on one unbounded channel; the worker is the only thread
that takes them off and the only one that touches hardware. It tells the clients
what it did only through the states it publishes on the hub. Everything that
must survive a restart is in the four stores and the definition files, each
saved in place at its own point of the loop.

The app keeps curves and custom sensors in its config file, which people also
edit by hand. It sends the definitions to the service when they change and when
it reconnects. What it asks of a fan it shows at once and until a published
state says the same.

### What is hard

- A batch mixes requests of several kinds; the code applies them by kind.
- A calibration takes minutes, with its own treatment of every request.
- The process can be killed between any two saves and any two hardware writes.
- Hardware writes fail, and each caller deals with it in its own way.
- Several caches (write cache, function state, ramps, snapshots, restore plan)
  describe the same control and go stale separately.
- The service may lose its session and gain it again with other fans.
- The worker publishes while the accept loop subscribes a client; the hub's two
  locks are never held together. Apps and service come and go independently,
  and a pipe still holds what a dead service wrote.
- The app's file has two writers, and entries that need not have an id; the
  window's copy is reread by the time of the file, which its own edits move too.
- What the app assumes of a fan is cleared by comparing it with states that may
  be older than the request; a request that finds no service is dropped.
- Text fields keep a caret in bytes and limits in characters.

### What makes it correct

- *Modes.* A fan's mode (automatic, manual target, curve) changes only as a
  client asked, and the last request for a fan wins.
- *Durability.* The stores hold the mode that is in force, whenever the process
  dies between batches.
- *Control.* A pinned fan stands at, or ramps to, the command its request maps
  to; an unpinned one has no request. The write cache tells the truth.
- *Release.* A stop hands back every fan.
- *Cooling.* A curve that asks for full speed gets it, through hysteresis,
  smoothing, ramps and boosts; what is held back is held back for cause and for
  the configured time; a fan moves no faster than its limits.
- *View.* Clients end up seeing what is, and never step back to an older state.
- *App.* File, window and service end up with the same definitions; an edit
  touches only its own entry; what the window assumed of a fan ends up true or
  gone; a setting committed reaches the service; a deleted curve drives no fan;
  no text is cut within a character or outgrows its field, and a curve drawn by
  hand rises.

## 2. Modules

| Module | Contents |
|---|---|
| `FanWorker` | the worker with its session, stores and calibration |
| `FanModes` | abstract specification: how the durable mode of a fan may move |
| `FanIntent` | `FanWorker` with a history variable: the last mode asked of each fan |
| `StateFeed` | hub, events pipe, the app's event thread and window |
| `DutyMath` | percentages, duties, calibrations and fan settings |
| `CurveMath` | a curve's target for a temperature |
| `CurveFilter` | hysteresis and smoothing between a curve and its fan |
| `FanRamp` | `request_target` and `tick_ramps` with their numbers |
| `FanDrive` | composes the two under the worker's loop, for one fan |
| `CurveEditor` | what the plot and the fields of the editor make of a curve |
| `TextInput` | a text, its caret and its selection under the keys |
| `AppConfig` | the config file: every edit of it, and what is loaded from it |
| `AppHandlers` | the window's handlers, each a function of the app's record |
| `AppWindow` | composes user, window, file, client and service |
| `MCFanWorker`, `MCFanIntent`, `MCStateFeed`, `MCFanDrive`, `MCAppWindow` | values of the constants for TLC |
| `FanWorkerProofs` | type correctness; what goes with the session: the kind of state published, what curves leave behind; an orderly stop leaves no fan pinned |
| `FanStoreProofs` | the stores are what is in force; a restart keeps modes; stored targets were sent; `FanWorker` implements `FanModes`; between batches, failed writes aside, no fan is pinned without a request, and each stands where its request and its write cache say |
| `FanIntentProofs` | the last request for a fan wins |
| `StateFeedProofs` | states arrive in order, and none is missed |
| `CurveProofs` | curves: the stable sort orders and keeps what is in order, normalized points and ends lie on their scales, a normalized curve yields percentages |
| `FanDriveProofs` | heat passes hysteresis at once; what is held serves its time; every command is a duty; a ramp moves its fan towards its target and remembers what it wrote |
| `AppWindowProofs` | what each key makes of a text field; no caret or selection within a character, no name longer than a field takes |
| `AppTypeProofs` | normalizing twice is normalizing; window and service hold only definitions and settings as they are evaluated |

### FanWorker and the code

`pc` names the loop of the code the worker is in; one action is one iteration of
that loop, the step out of it, or a run of statements with nothing observable in
between. A crash may come between any two.

| `pc` | Code | Actions |
|---|---|---|
| `top` | `mod.rs` 123-167 | `Detect`, `DetectFails`, `NotDue` |
| `resume` | 150-157 | `Resume`, `EndDetect` |
| `recv` | 183-267 | `Take`, `Stop`, `BeginBatch`, `DiscardBatch`, `Redetect` |
| `targets` | 269-298 | `ServeTarget`, `EndTargets` |
| `assign`, `assigned` | 300-338 | `Assign`, `SaveAssigns`, `EndAssigns` |
| `settings`, `retarget` | 340-357 | `Tune`, `SaveSettings`, `Retarget`, `EndRetarget` |
| `calibrate`, `ladder`, `restore` | `calibrate.rs`, 359-386 | `StartCalibration`, `SkipCalibration`, `NextDuty`, `Pump`, `AbortCalibration`, `EndLadder`, `Restore`, `EndCalibration` |
| `ramps` | 388-396, `tick_ramps` | `TickRamp`, `EndRamps` |
| `curves` | `apply_curves`, 397-421 | `DropVanished`, `HoldReading`, `DriveByCurve`, `Update`, `NoUpdate` |
| `stopped`, `crashed` | 422-426 | `Boot` |

Per fan, `drive` holds its entry in `Hardware::requested`, its ramp, the mode of
the control and whether the session touched it. `request_target` is
`RequestTarget`, used by every caller as in the code; whether a caller looks at
the result is its argument.

How data is abstracted:

- Fans are the stable pairs of chip key and index; positional indices into a
  re-detected session are not told apart.
- Levels stand for encoded targets and hardware commands. Settings, calibration
  and the arithmetic between them are the constant maps `Steady` (the command a
  target ends at) and `Start` (the restart command).
- A curve is a shape; `Output` maps a reading to a target. What hysteresis and
  smoothing yield is `CurveTargets`: the held target, or that of some reading.
- Custom sensors only change which reading a curve gets, so they are part of it.
- A ramp keeps its target and the command last written; a tick writes any level,
  and ends only at the command of its target.
- Whether a fan appears stopped, how long a settle or a debounce takes, and what
  a calibration measures is nondeterministic.
- `force_auto` and restoring on drop both hand the control to the firmware. A
  control whose mode LHM never set (`Bios`) reads back as anything. A new
  session does not change a control that a dead process left at a level.
- A save is one step. `Session::update` has no failing path in the code, so the
  branch at `mod.rs` 403-415 is not modelled.
- A batch holds at most `MaxBatch` requests, at most `MaxFaults` hardware writes
  fail in a behaviour. These are the only bounds.

### FanModes

The abstract state is the mode a restart would find on disk, the modes clients
asked for that the worker still holds, and whether a calibration was asked for.
A step asks, settles a fan on a mode it may move to, or forgets what was asked.
The mapping (`DurableMode`, `AskedModes`) is at the end of `FanWorker`.

### StateFeed and the code

| Part | Code | Actions |
|---|---|---|
| worker's side of the hub | `hub.rs` 21-27 | `Publish`, `Tell` (the two locks of `publish`), `Republish` (a poll) |
| accept loop | `server.rs` 18-49, `pipe.rs` 49-103, `hub.rs` 31-36 | `Listen`, `Read`, `Register` (the two locks of `subscribe`) |
| forwarding threads | `server.rs` 26-39 | `Forward`, `ForwardFails` |
| service | `main.rs` 110-153 | `Stop`, `Start` |
| app's event thread | `client.rs` 58-61, 92-116 | `Connect`, `ConnectFails`, `Receive`, `Lose`, `Add` |
| window | `ui/mod.rs` 202-206, 297-360 | `Load`, `Show`; `Quit` closes it |

A state is its serial number, counted through all services, so that "older" has
a meaning; the code has no such number. `Ready` says which states have readings
to record. `Shared::seq` is a flag, `news`: all that matters of it is whether it
differs from the number the window has seen. An app connects only while the
accept loop has an instance of the pipe to offer. Everything sent before the
service's end may be read or be lost. `MaxState` bounds the states, `PipeSize` is
the pipe's buffer. A poll that publishes an unchanged state is modelled only
while no forwarding thread is behind, so that queues stay finite.

### FanDrive and the code

`FanWorker` says what happens in which order and leaves open which command a
target ends at, how far a ramp moves in a tick, and when hysteresis lets a
target pass. `FanDrive` has one fan, one request per pass, no failures and no
stores, but the numbers and the time. `stage` is the part of the pass:

| `stage` | Code | Actions |
|---|---|---|
| `wait` | `mod.rs` 169-231 | `Elapse`, `Quiet`; the requests `ByHand`, `Automatic` (269-298), `Assign`, `Unassign` (300-338), `Tune` (340-357), `Edit` (243-256), each with all it does |
| `restore`, `conclude` | `calibrate.rs` | `Calibrate` (the ladder, 59-188), `Restore` (190-199), `Conclude` (204-254) |
| `tick` | `mod.rs` 388, `tick_ramps` | `TickRamp`, `NoTick` |
| `curve` | `duty.rs` 64-98 | `ReadCurve`, `NoCurve` |
| `filter` | `apply_curve_functions`, 99-106 | `Filter`, one function of the chain at a time, then `Drive` |
| `update` | `mod.rs` 397-421 | `Update` |

The paths through `apply_curve_hysteresis` are `Remember`, `Follow`,
`HoldTarget`, `HoldWithin`, `FollowLate` and `HoldPending`; those through
`request_target` are `HandBack`, `Boost`, `Direct` and `Prepare`.

- A percentage counts units of 1/510 %, in which a duty of the `u8` scale and
  half a percent are whole; `f32` results are rounded to it. A ramp's rate is
  given per tick. Temperatures are whole degrees of a short scale; what hardware
  cannot read (NaN) and config readers cannot parse is left out.
- Time counts ramp ticks of 250 ms: a poll is two, the boost four. A wait that
  has reached its deadline takes no longer than the longest wait in `Waits`.
  A pass may also follow at once (`fast`), within the write debounce.
- A moving average with a factor below one comes strictly closer to its input,
  by any amount. An `f32` average may stop a fraction of a degree short; the
  model counts that as arrived.
- `calm` is a history variable: how long the inputs a function was given have
  been beyond its threshold. The code has only `CurvePending::since`.
- The mutual effects of batches, several fans, targets sent during a
  calibration, faults, crashes and re-detections are `FanWorker`'s.

### AppWindow and the code

`app` is the record of everything the window keeps, with its file and the
requests it queued. A handler of the code that calls others is an operator of
`AppHandlers` composed of theirs; an action of `AppWindow` says when the handler
can run, that is, which control is on the screen.

| Part | Code (`zugluft-app/src/`) | Actions |
|---|---|---|
| fans | `ui/{fan_card,fans,tuning,editing}.rs` | `PickCurve`, `CurveMode`, `ByHand`, `MoveSlider`, `BeginTuning`, `TypeNumber`, `Press` |
| curves | `ui/{curves,curve_panel,curve_ui,curve_helpers,management}.rs` | `NewCurve`, `OpenCurve`, `CloseCurve`, `AskDelete`, `AnswerDelete`, `StepField`, `EditField`, `PickTab`, `PickSource`, `PickColor`, `PlotDown`, `DragTo`, `MouseUp` |
| the rest | `ui/{custom_ui,editing,settings_view,sensors,sensor_panel}.rs` | `NewSensor`, `OpenSensor`, `EditSensor`, `CloseSensor`, `Rename`, `AnswerRename`, `Arrange`, `PickUnits` |
| keys | `ui/mod.rs` 479-501 | `KeyDown` |
| timer | `ui/mod.rs` 202-270 | `Tick`, as `Taken`, `HotReloaded`, `Synced`; every twentieth tick looks at the file |
| elsewhere | a text editor | `HandEdit` |
| service | `worker/{mod,duty}.rs`, `client.rs` | `Serve` (a batch, by kind), `Publish`, `Stop`, `Start`, `Forsake` (a request finds no service) |

- A button pressed on a page first commits the number being edited there
  (`Press`), then is a click.
- Identifiers are numbers; names are texts whose bytes are pairs of a character
  and a place in it; a channel is a kind and a number on one chip. A number
  field holds a value, nothing, or a text that is no number (`Bad`).
- The file is absent, good, readable but no config (`unfit`), no TOML at all
  (`torn`), or it cannot be read as text (`unread`), when an edit takes it for
  empty and overwrites it. What a failed read makes of it is `Load` and `Edited`. Its time is
  the flag `news`: the window has not seen the last write.
- Temperatures are half degrees and percentages 1/510 %, as in `CurveMath`. The
  plot's cursor is a position in these units, and grabs a point that is at most
  `HitRadius` pixels away on a plot of `PlotWidth` by `PlotHeight`; rounding of numbers when saved
  (`round1`, `round2`), the template's comments, the window's size, open
  dropdowns, the search box and the toast are left out.
- A fan that is driven reads back as its site says (`readback`), one that is not
  as nothing: all that `SetManual` needs of what the hardware reads.
- Of renaming a sensor only its dialog is modelled: `commit_rename` also has a
  branch for sensors (`editing.rs` 473-482), but nothing begins a rename with a
  sensor's key (`sensor_panel.rs` 52, 168).
- `asked`, `mistaken` and `lost` are history: no handler reads them.
- Clicks that may write or send are counted, and so are edits by hand and stops;
  typing, dragging, cancelling and closing are free.

## 3. Runs

The runs of `FanWorker` and `FanIntent` use three levels, one curve, two shapes (one of which remembers), two
settings (one of which limits steps and sets a restart command) and two
calibrations; every case of `Outcomes`, `CurveTargets` and `AsRequested` occurs
with these. One or two fans are enough, as fans interact only through the order
of the loops, the shared faults and the detection. Batches of two contain every
pair of kinds in either order.

| Run | Checks | Shows |
|---|---|---|
| `FanWorker_one` | `TypeOK`, `NoStaleCurveState`, `StoresInForce`, `NoOrphanedPin`, `PublishedKindTrue`, `ModesKept` | one fan under every request in batches of two, with re-detections, stops and crashes; `ModesKept` is the refinement of `FanModes` |
| `FanIntent_two` | `StoppedFansFree`, `CommandMatchesRequest`, `WriteCacheTrue`, `TargetsWereSent`, `LastRequestWins` | two fans, tuning, changing detections, one failed write, orderly stops |
| `FanIntent_hand` | `LastRequestWins`, `RestartKeepsMode` | one fan by hand in batches of three, with tuning, calibrations and crashes |
| `FanWorker_live` | `ShownCatchesUp` | clients come to see a lasting mode |
| `StateFeed` | `TypeOK`, `FeedInOrder`, `NothingMissed`, `FramesInOrder`, `ViewCatchesUp`, `GonePruned` | one app through connections to several services; four states |
| `FanDrive` | `TypeOK`, `HeatFollowed`, `DelayServed`, `RampKept`, `RampTowards`, `RampWritten`, `Settles`, `ReadingFollowed`, `HotMeansFull` | eight installations: chains of functions with both directions of hysteresis, edits in and out of calibrations, averages before hysteresis on a fan that stalls, step limits under a curve, and calibrated fans by hand |
| `AppWindow` | `TypeOK`, `CaretsSliceable`, `NamesFit`, `CurvesRise`, `OneAtATime`, `DefinitionsInStep`, `ShownIsServed`, `EditsArrive`, `DeletedReleased` | fourteen installations of the app: a plot, a curve's kind and functions, its window, a fan given curves that are deleted (without and with a stop), sliders, tuning, a file edited by hand, sensors, sources, names, titles, labels and pages |

`FanDrive`'s installations are in `MCFanDrive`, each chosen for one interplay,
and their states are disjoint: the run is the sum of eight runs. Readings lie on
both sides of every threshold and include none at all; a response time of three
ticks is longer than a poll, so that it ends between two polls as well as at
one. Two fans never meet in this code, so one is enough.

The sites of `AppWindow` are in `MCAppWindow`, disjoint like `FanDrive`'s, each
using one group of controls, for two or three clicks: enough for a second edit
before the first was heard of, or an edit by hand between the opening and the
closing of a dialog. An assigned fan starts on a curve, so that three clicks
send it to another and back while states of each are under way, and delete one
of them. The plot's cursor comes near a point without being on it. Names have at
most three characters, of one and of two bytes, so that a full field, a
selection and a word on both sides of the caret occur. The file edited by hand
holds an entry without an id before two with one, in another order than the
window's. One fan is enough, as every handler is about one; deletions visit fans
one by one.

One app is enough for liveness: apps share only the accept loop, which serves
them one after the other; the proofs cover any number of them.

`NoOrphanedPin`, `CommandMatchesRequest` and `WriteCacheTrue` count: at most one
fan deviates per failed write.

Five runs must find a property violated, as the code does something else than
it says:

| Run | Property | What the code does |
|---|---|---|
| `Found_vanished` | `VanishedReleased` | `SetCurves` clears the write cache that tells `apply_curves` to hand back a fan whose curve is gone (`mod.rs` 252, `duty.rs` 83), so the fan stays pinned |
| `Found_recalibrated` | `CommandMatchesRequest` | targets are restored under the calibration that is about to be replaced (`calibrate.rs` 198, 248) |
| `Found_order` | `LastRequestWins` | a batch applies its targets before its assignments (`mod.rs` 271, 302) |
| `Found_subscribe` | `SubscribedCurrent` | a state published between the two locks of `subscribe` does not reach the new client (`hub.rs` 33); the next poll makes up for it |
| `Found_jump` | `StepsKept` | a ramp that `tick_ramps` has just ended is forgotten before the fan is read back, so the curve that follows in the same pass, like a request within the debounce, starts its ramp at an older duty (`duty.rs` 446, `mod.rs` 388-399) and the fan jumps |

The passing runs choose their requests, batches and specification around these
and around some other behaviours of the code that the properties do not allow:

- New settings retarget a curve-driven fan without refreshing its write cache
  (`mod.rs` 353): no fan is both tuned and curve-driven where `WriteCacheTrue`
  is checked.
- A calibration stores the last target of every fan, also a curve's output or a
  readback, in the manual store (`calibrate.rs` 195): `TargetsWereSent` is
  checked without calibration.
- An empty assignment drops the stored target of a manual fan but does not hand
  the fan back (`mod.rs` 320); a target sent during a calibration does not take
  a fan off its curve (`calibrate.rs` 447); and a fan handed back since the last
  readback is planned by that readback (`calibrate.rs` 72). `LastRequestWins` is
  checked without these combinations, and `StoresInForce` allows for the first.
- A stop releases only what its own session touched, and not what an earlier,
  killed process pinned (`zugluft-hw/src/lib.rs` 184); restoring ends at the
  first control that fails (187). `StoppedFansFree` is checked without kills and
  claims nothing once a write has failed.
- A failed write of a manual target is not repeated (`mod.rs` 294): the
  properties count failed writes.

- `RampKept` speaks of ramps that know where the fan is: after their first write,
  or starting at the fan's command. The others are `Found_jump`. `RampTowards`
  says less of a tick (no rate), but of every calibration and of a fan that is
  at its ramp's command.
- `Settles`, `ReadingFollowed` and `HotMeansFull` promise for requests that have
  ended and readings that last. Tuning and curve are kept apart, as above, in
  `FanDrive`'s installations, and so are recalibration and new measurements
  (`Found_recalibrated`).
- A plot that begins above the second point lets the first one, dragged to the
  edge, pass it (`zugluft-app/src/ui/curves.rs` 702-712, and likewise at the
  end): `CurvesRise` is checked where the plot shows all points. `NarrowSites`
  violates it.
- Choosing a unit (`ui/sensors.rs` 19) and renaming (`ui/editing.rs` 485) record
  the file's time without sending definitions, so an edit by hand in the two
  seconds before is never noticed: names and units are not used where the file
  is edited by hand. `OverlookedSites` violates `DefinitionsInStep`.
- A state older than an edit that equals the assumed settings passes for the
  echo (`ui/mod.rs` 211-219), and the next edit starts from the older settings:
  `EditsArrive` is checked where an edit does not lead back to them. `EchoSites`
  violates it. The same happens to assignments (219-224): `DeletedReleased`
  claims nothing once `mistaken` holds, that is, once the window forgot an
  assignment to a curve that the fan is not on yet, or that another request will
  take it off again first. `AllReleased` has no such exception, and `ReturnSites`
  violates it: with a fan sent from curve 1 to curve 2 and back before the window
  takes the next state, deleting curve 1 releases no fan (`ui/curves.rs` 403-412),
  and the last request puts the fan on the deleted curve.
- A request that finds no service is dropped (`client.rs` 80) and nothing
  repeats it: `ShownIsServed`, `EditsArrive` and `DeletedReleased` claim nothing
  once a request about a fan was lost.
- No site uses curves and targets of one fan (`Found_order`), and the entry
  without an id stands first in the file, as deleting an earlier one would
  change the identifier it falls back to (`config/store.rs` 203, 234).
- A rising target that hysteresis holds back (both directions) may be followed
  when the input has fallen by the threshold, too (`duty.rs` 185): `DelayServed`
  and `ReadingFollowed` ask of a curve that falls with heat only what the code
  gives.

### Fairness

`FairSpec` makes the worker run: weak fairness of its own steps, as every loop of
the code is finite, `recv_timeout` returns, and a detection is retried. A poll
falls due every 500 ms whatever the traffic, and a ramp ends after finitely many
ticks, but in the model both compete with other outcomes of the same step, so
they have strong fairness. Nothing is assumed of clients, crashes, restarts or
faults.

`FanDrive`'s worker has weak fairness as one process. It always has a next step,
and its waits end, so `FairSpec` says the same without `ENABLED`: it takes steps
again and again. Nothing is assumed of requests and readings.

In `AppWindow` the timer fires and in time looks at the file, the service serves
and publishes what there is, and the client takes up requests: weak fairness of
`Tick(TRUE)`, `Serve` of all that has arrived, `Publish` and `Forsake`. Nothing
is assumed of the user, of edits by hand, of stops and of starts.

`StateFeed`'s threads each have weak fairness: they block only on what the guards
say. A poll publishes every 500 ms whether or not a state has changed, and an
app retries every second while the accept loop is free most of the time, so
`Republish` and `Connect` have strong fairness. Nothing is assumed of new
states, of the service's end or start, and of the user: `ViewCatchesUp` promises
only for a state that lasts and a window that stays open.

## 4. Proofs

Checked by TLAPS for every value of the constants, from the named assumptions of
the modules: in `FanWorker`, fans are finitely many, levels are naturals, the maps
are total, markers differ from data, requests are requests; those of `FanDrive`
and `AppWindow` are below.

| Theorem | States | Argument |
|---|---|---|
| `TypeCorrect` | `Spec => []TypeOK` | inductive as it stands; lemmas for `RequestTarget`, `ClearSession` and the batch are shared by the actions |
| `StoresCorrect` | `Spec => []StoresInForce` | the property speaks of `recv`; the invariant adds what each stage has still to save: which stores are ahead of the disk, that an assigned fan has the assignment stored, that a stored target of an unassigned fan is its request or still to be requested |
| `ModesCorrect` | `Spec => ModesKept` | every action is a settling, asking or forgetting step or a stutter; the invariant bounds what the stores may differ in from the disk by what the batch asked for |
| `RestartCorrect` | `Spec /\ NoReleases => []RestartKeepsMode` | `StoreInv` with: a fan with neither a curve nor a stored target has no request (`AllStored`), and no queued assignment is empty |
| `SentCorrect` | `Spec /\ NoCalibrations => []TargetsWereSent` | what is queued, in memory or on disk was sent (`SentInv`); no step of a calibration is ever taken |
| `PinsCorrect` | `Spec => []NoOrphanedPin` | counted at every step, not only between batches: a calibration excuses the fans it has not yet restored (`Excused`), a ramp has a request behind it, and a release that leaves a fan pinned has failed |
| `CommandsCorrect` | `Spec /\ NoCalibrations /\ TunedApart => []CommandMatchesRequest` | `PlaceInv`, below |
| `CachesCorrect` | `Spec /\ NoCalibrations /\ TunedApart => []WriteCacheTrue` | `PlaceInv`, below |
| `IntentCorrect` | `IntentSpec /\ Unambiguous => []LastRequestWins` | `IntentInv`, below |
| `StopCorrect` | `OrderlySpec => []StoppedFansFree` | without failed writes, a control at a level is touched, so dropping the session visits it |
| `FeedOrdered` | `Spec => []FeedInOrder` | an inductive chain per app: recorded, shared, in the pipe, in the queue, about to be sent by `subscribe`, the hub's; it needs that an app that connects has nothing left from its last connection |
| `HeatCorrect` | `Spec => []HeatFollowed` | inductive with the types of what functions remember (`FilterInv`); one lemma per path through a function, over what leaving a function keeps (`LeaveKeeps`) |
| `DelayCorrect` | `Spec => DelayServed` | `FilterInv` adds that nothing is pending for longer than `calm` says, which elapsing time, edits and forgetting keep |
| `TowardsCorrect` | `Spec => RampTowards` | a step of a ramp ends between its current speed and its target; the command rises with the speed, below |
| `WrittenCorrect` | `Spec => []RampWritten` | inductive: every step that writes the control gives up the ramp or writes through it; the tick that writes an unchanged command is the case that needs the invariant itself |
| `DriveTyped` | `Spec => []TypeOK` | interpolation between measured points stays between the ends of its segment, whatever the points (the least segment that ends beyond the argument, a well-founded argument in place of induction); rounding and clamping keep it on the scale; the invariant adds what the stages of a pass rely on (`DriveInv`) |
| `CaretsCorrect` | `Spec => []CaretsSliceable` | `NamesSound`, below |
| `FitCorrect` | `Spec => []NamesFit` | `NamesSound`, below, where the file's own names are short |
| `TypesCorrect` | `Spec => []TypeOK`, if no curve is `None` | `HeldTyped`, below |
| `FramesOrdered` | `Spec => FramesInOrder` | from the same chain: what is shared is not older than what is recorded |
| `FeedTyped` | `Spec => []TypeOK` | inductive as it stands |
| `NothingLost` | `Spec => []NothingMissed` | with the types: every step of a thread or a window that leaves it behind leaves a reason to look again |
| `KindCorrect` | `Spec => []PublishedKindTrue` | the invariant says in which loops there is a session and what was published on the way in (`KindInv`) |
| `CurveStateCorrect` | `Spec => []NoStaleCurveState` | the invariant adds that no fan is on a curve without a session (`CurveInv`), so that the fans a detection finds start clean |

`FanDriveProofs` assumes nothing sane of what clients send: curves and settings
have the types of the wire, any number in every field, and a calibration pairs
duties with speeds in no particular order (`SitesAssumption`, checked by TLC for
the installations of the run). That a normalized curve yields percentages, that
sanitized settings are on their scales and that a fitted calibration is usable is
proved. Sorting is `SortSeq` with a stable order by temperature: `CurveProofs`
shows, by counting the entries that precede each, that the result is in order and
that a list in order is its own sorting.

*Ramps.* `RampTowards` is about the inverse lookup of a measured curve
(`calibration.rs` 79), which looks for the first segment that reaches a speed.
Points may dip, repeat or form plateaus, and no segment need rise; still the first
one to reach a higher speed never comes before the first one to reach a lower
one, and within one segment interpolating keeps the order. So the command for a
speed rises with it, and `steady_command_for_target`, which raises it to the
minimum and cuts it below the stop command, keeps that.

`StopCorrect` needs `OrderlySpec`: with process kills the statement is false
(section 3).

`RestartCorrect` and `SentCorrect` name what they exclude: without `NoReleases` a
fan released by `SetFanCurve(None)` keeps a request no store has, and a
calibration stores a duty it read back (section 3).

*The hardware and the requests* (`PlaceInv`). `CommandMatchesRequest` and
`WriteCacheTrue` speak of `recv`; within a pass they fail for good reason, as a
fan whose settings were just saved stands at the old command until `Retarget`
visits it. `PlaceInv` says at every step which fans stray from their request or
their cache, leaves out those that the loop in progress has still to visit, and
bounds the rest by the failed writes. It needs `PinInv` (a ramp has a request
behind it), that only fans clients assign to a curve are on one (`DrivenInv`), and
that a curve writes a command only of a target it has just requested. Both
conditions are of the clients, and neither can be dropped: a calibration
restores targets under the old calibration, which `Found_recalibrated` shows,
and new settings retarget a curve-driven fan without refreshing its cache
(`TunedApart`, section 3).

*The last request* (`IntentInv`). A history variable holds the mode last asked of
a fan; a request is in force only after its batch went through `targets` and
`assign`. The invariant says for each stage which mode a fan is headed for: what
the batch holds for it if that is still to be served (`Due`, `Pending`), what the
calibration is to restore (`Restoring`), and its mode otherwise. That the queued
entry is the last one asked needs that no batch both targets and assigns a fan
(`OrderInv`). `Unambiguous` names the clients for whom this is so; each of its
parts excludes one of the behaviours of section 3: a fan commanded both by hand
and by curve gets its requests one per batch (`Found_order`) and no calibration
(a target pumped from the ladder leaves the fan on its curve), no fan is released
by an empty assignment, and nobody asks for automatic control where clients
calibrate (the plan restores the duty last read back). The instances of both runs
that check `LastRequestWins` satisfy it.

*The names* (`NamesSound`). A panic in `text_input.rs` needs a caret within a
character, and carets outlive the text they were put in: a field is loaded anew,
its text is filtered and cut, another field takes the focus. `NamesSound` says
that the file, the loaded config, the curve being dragged and every field hold
names, texts of whole characters, with the field's caret and its selection
between two of them, and that the clipboard is a list. Names travel between all
of these, so it is kept handler by handler (one lemma each, `AppOk`); below them
are lemmas of what cutting, joining and filtering make of a text, in which the
bytes and the characters are counted separately. Its parameter `Sizes` is the
set of lengths a name may have: every natural for `CaretsCorrect`, at most
`MaxName` for `FitCorrect`. The latter is conditional (`ShortNames`), as a name
written into the file by hand may be of any length; it is shown whole, and only
never lengthened. Both rest on `NameAssumption`: the files of a site are configs
whose names are texts, and what it types are lists of characters. The loops of
the handlers over tables are recursive functions of natural numbers; no more is
needed of them than that they keep names names, which follows by taking the least
number of rounds for which it would not.

*Definitions as they are evaluated* (`HeldTyped`). A curve is normalized when the
file is loaded, when the editor saves it and when the service takes it, and each
side assumes that the other did: the plot's handlers index the points of what
they show, the service evaluates what it is sent. `HeldTyped` says that the
window's table, its edits in flight, the requests on their way and the service's
table hold only what normalizing leaves alone, while the file may hold anything of
the type of its format; that the copy of a curve is a graph with the dragged point
in it, exactly while there is a drag; that number fields are number fields of what
is on the screen; and that requests, pending targets and tunings are of fans there
are, on the scale. It is kept handler by handler (one lemma each). It rests on
normalizing being idempotent (`NormalizedStays`), which needs the sort. Its
hypotheses are `UseAssumption` (what a site offers is of the types of the
controls, and its settings are sanitized, as those of a store are), `NameAssumption`
and `NoCurve`, that no curve's record is the model value `None`: the code has an
`Option` there, whose `None` is no curve. `NoCurve` quantifies over every record
and is a hypothesis of the theorem, as TLC could not evaluate it; with `None` a
model value it is so by construction.

Only model-checked: liveness (the prover does not do `ENABLED`); `RampKept`,
which is not true of every calibration: `Slack` measures by how much a duty of
the `u8` scale may miss a speed, and that depends on how steep the measured curve
is between two of its points, which the instances bound; and `CurvesRise` and
`OneAtATime`, which are true of the sites in section 3 and not of every site: points
of a plot no wider than they are many fall together, a file may hold points
that fall, and an entry without an id that is the first of its table is taken for
another.

## 5. Not modelled

- What the calibration ladder measures (`calibrate.rs` 59-188): its settling,
  its guards and the conflicts it finds are any result. They depend on analog
  speeds and the time fans take, for which any bound would be a guess.
- The registers behind `fan_reg_state` and the CLI's baseline file, which talk to
  hardware alone, with no service and no concurrency.
- The CLI's other commands: a request, then printing what states say. Its
  `calibrate` cannot tell whose calibration a state reports (hazards), and no
  state carries what would be needed to.
- The evaluation of custom sensors (`custom.rs`): an average, minimum or maximum
  of readings, one pass over definitions that refer to no other definition.
- File formats and torn writes of the service's stores. Each is saved in place,
  and the model takes a save as one step. The app's config may be torn.
- The control pipe's threads, drawing, the tray, the installer, the LHM library.

Worth adding next: that `FanDrive` implements the loop of `FanWorker`, whose
`CurveTargets` and `Ramped` contain what filter and ramp yield; a model of the
ladder over a fan with inertia; `CurvesRise` as a theorem of the sites whose
plots are wide enough.
