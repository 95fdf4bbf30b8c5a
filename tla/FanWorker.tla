------------------------------ MODULE FanWorker ------------------------------
(***************************************************************************)
(* The hardware worker of the zugluft service: the single thread behind    *)
(* `worker::run` that owns the hardware session, drains client requests in *)
(* batches, keeps four persisted stores, drives fans by hand or by curve,  *)
(* runs calibration and hands the fans back when it stops.                 *)
(*                                                                         *)
(* One action is one iteration of one loop of the code, and the process    *)
(* may die between any two of them.  `pc` names the loop the worker is in. *)
(* Levels stand for the u8 duties: an encoded target and a hardware        *)
(* command are both levels, and `Steady` is the map from one to the other  *)
(* that settings and calibration define.                                   *)
(***************************************************************************)
EXTENDS Naturals, Sequences, FiniteSets

CONSTANTS
  Fans,        \* fan controls, identified by chip key and index
  Curves,      \* curve ids
  Shapes,      \* contents of a curve definition
  Readings,    \* sensor readings a curve source can resolve to
  Levels,      \* encoded targets and hardware commands (u8)
  Settings,    \* sanitized per-fan tunings
  Cals,        \* calibration results
  Ladder,      \* commands a calibration run steps through
  Requests,    \* what clients send
  Topologies,  \* sets of fans a detection can find
  DefaultSettings, NoCal,   \* what an empty store yields
  Limited,     \* tunings with a step limit
  Smooth,      \* shapes with a processing function that remembers
  Steady,      \* Steady[cal][settings][target]: the command a target ends at
  Start,       \* Start[cal][settings]: restart command, or None
  Output,      \* Output[shape][reading]: the target a curve asks for
  Automatic, Bios, None,
  MaxBatch,    \* requests one batch coalesces at most
  MaxFaults    \* hardware writes that fail at most

Targets == Levels \cup {Automatic}          \* Request::SetTarget's Option<u8>
Defs    == [Curves -> Shapes \cup {None}]

TargetRequest   == [op: {"target"}, fan: Fans, to: Targets]
AssignRequest   == [op: {"assign"}, fan: Fans, to: Curves \cup {None}]
SettingsRequest == [op: {"settings"}, fan: Fans, to: Settings]
CurvesRequest   == [op: {"curves"}, to: Defs]
PlainRequest    == [op: {"calibrate", "redetect", "shutdown"}]
Request         == TargetRequest \cup AssignRequest \cup SettingsRequest
                     \cup CurvesRequest \cup PlainRequest

ASSUME FansAssumption == IsFiniteSet(Fans)
ASSUME LevelsAssumption == Levels \subseteq Nat /\ Ladder \subseteq Levels
ASSUME DefaultsAssumption ==
  /\ DefaultSettings \in Settings /\ NoCal \in Cals
  /\ Limited \subseteq Settings /\ Smooth \subseteq Shapes
ASSUME MapsAssumption ==
  /\ Steady \in [Cals -> [Settings -> [Levels -> Levels]]]
  /\ Start \in [Cals -> [Settings -> Levels \cup {None}]]
  /\ Output \in [Shapes -> [Readings -> Levels]]
ASSUME MarkersAssumption ==
  /\ Automatic # Bios /\ Automatic # None /\ Bios # None
  /\ Automatic \notin Levels /\ Bios \notin Levels /\ None \notin Levels
  /\ None \notin Curves /\ None \notin Shapes /\ None \notin Settings
  /\ None \notin Defs
ASSUME InputsAssumption ==
  /\ Requests \subseteq Request /\ Topologies \subseteq SUBSET Fans
ASSUME BoundsAssumption == MaxBatch \in Nat /\ MaxFaults \in Nat

VARIABLES
  pc,        \* the loop the worker is in
  batch,     \* what the current batch of commands adds up to
  todo,      \* fans the current loop has still to visit
  wrote,     \* the pass has written to the hardware
  open,      \* a hardware session exists
  waiting,   \* the last detection failed: retry only after the interval
  present,   \* fan controls the session found
  drive,     \* per fan: request, ramp, control, touched by the session
  assigned,  \* curve driving each fan
  written,   \* command each curve-driven fan last wrote (curve_written)
  held,      \* target its processing function holds (curve_runtime)
  snap,      \* duty read back by the last update
  restore,   \* calibration's restore plan
  defs,      \* curve definitions, in memory and on disk
  curveStore, manualStore, settingsStore, calStore,   \* stores in memory
  disk,      \* the same stores as last saved
  latest,    \* kind of the last published state
  shown,     \* control mode of each fan in the last Ready state
  faults     \* failed hardware writes so far

sessionVars == <<open, waiting, present>>
curveVars   == <<assigned, written, held>>
storeVars   == <<curveStore, manualStore, settingsStore, calStore>>
viewVars    == <<latest, shown>>
vars == <<pc, batch, todo, wrote, sessionVars, drive, curveVars, snap,
          restore, defs, storeVars, disk, viewVars, faults>>

-----------------------------------------------------------------------------
(* Values.                                                                 *)

Drive == [requested: Levels \cup {None},      \* Hardware::requested
          ramp: Levels \cup {None},           \* target of its Ramp, if any
          last: Levels \cup {None},           \* Ramp::last_written
          ctl: Levels \cup {Automatic, Bios}, \* Bios: mode not yet set
          touched: BOOLEAN]                   \* Session::touched

Batch == [targets: [Fans -> Targets \cup {None}],
          assigns: Seq([fan: Fans, to: Curves \cup {None}]),
          settings: Seq([fan: Fans, to: Settings]),
          next: Nat \ {0},           \* entry the loop over a queue is at
          defs: Defs \cup {None},
          redetect: BOOLEAN, calibrate: BOOLEAN, dirty: BOOLEAN, due: BOOLEAN,
          size: Nat]

EmptyBatch == [targets |-> [f \in Fans |-> None], assigns |-> <<>>,
               settings |-> <<>>, next |-> 1, defs |-> None,
               redetect |-> FALSE, calibrate |-> FALSE, dirty |-> FALSE,
               due |-> FALSE, size |-> 0]

Nobody == [f \in Fans |-> None]

(* What drives a fan, as clients see it and as a restart would restore it. *)
ModeOf(curve, target) ==
  IF curve # None THEN <<"curve", curve>>
  ELSE IF target \in Levels THEN <<"manual", target>> ELSE <<"auto">>
Mode(f) == IF f \in present THEN ModeOf(assigned[f], drive[f].requested)
                             ELSE <<"absent">>

Command(f, to) == Steady[calStore[f]][settingsStore[f]][to]

-----------------------------------------------------------------------------
(* The hardware session as the worker uses it.                             *)

(* Mutant: the session does not note that it pinned the control.           *)
PinnedUntouched(d, level) == [d EXCEPT !.ctl = level]

(* Writing a level to a control, and starting or ending its ramp.          *)
Pinned(d, level) == [d EXCEPT !.ctl = level, !.touched = TRUE]
Ramped(d, to, last) == [d EXCEPT !.ramp = to, !.last = last]

(* Mutant: a direct write leaves the ramp running.                         *)
StillRamped(d) == d

Unramped(d) == Ramped(d, None, None)

(* Mutant: a released control keeps its request.                           *)
ReleasedRequested(d) ==
  [Unramped(d) EXCEPT !.ctl = Automatic, !.touched = FALSE]

(* Handing a control back to the chip, and opening a session on a fresh    *)
(* hardware library, which knows no control's mode.                        *)
Released(d) == [Unramped(d) EXCEPT !.requested = None, !.ctl = Automatic,
                                   !.touched = FALSE]
Reopened(d) == [d EXCEPT !.ctl = IF @ = Automatic THEN Bios ELSE @]

(* request_target's three ways to take on target `to`: a boost pulse for a *)
(* fan that appears stopped, a direct write, or a ramp that ticks advance. *)
Outcomes(f, to) ==
  IF to = Automatic THEN {[drive |-> Released(drive[f]), wrote |-> TRUE]}
  ELSE LET cmd   == Command(f, to)
           start == Start[calStore[f]][settingsStore[f]]
           asked == [drive[f] EXCEPT !.requested = to]
           boost == Pinned(Ramped(asked, to, start), start)
           direct == IF settingsStore[f] \in Limited
                       THEN [drive |-> Ramped(asked, to, None), wrote |-> FALSE]
                       ELSE [drive |-> Pinned(Unramped(asked), cmd),
                             wrote |-> TRUE]
       IN  IF start # None /\ cmd > 0 /\ start > cmd
             THEN {direct, [drive |-> boost, wrote |-> TRUE]}
             ELSE {direct}

(* A failed register write leaves the control and `touched` as they were;  *)
(* the worker only logs it.  A fan the session does not have always fails. *)
Unwritten(d, f) ==
  [d EXCEPT !.ctl = drive[f].ctl, !.touched = drive[f].touched]

Fault(f) == f \notin present \/ faults < MaxFaults
FaultCount(f, ok) == IF ok \/ f \notin present THEN faults ELSE faults + 1

(* request_target; `counts` says whether the caller looks at its result.   *)
RequestTarget(f, to, counts) ==
  \E o \in Outcomes(f, to), ok \in BOOLEAN :
    /\ ok => f \in present
    /\ ~ok => Fault(f)
    /\ drive' = [drive EXCEPT ![f] = IF ok THEN o.drive
                                           ELSE Unwritten(o.drive, f)]
    /\ wrote' = (wrote \/ (counts /\ o.wrote))
    /\ faults' = FaultCount(f, ok)

NoRequest == UNCHANGED <<drive, wrote, faults>>

(* Readback of a control: firmware whose mode was never set can read as    *)
(* any duty.                                                               *)
Readback(d) ==
  IF d.ctl \in Levels THEN {d.ctl}
  ELSE IF d.ctl = Bios THEN Targets ELSE {Automatic}

(* The duties an update can read from the fans P under controls D.         *)
Snapshots(P, D) ==
  {s \in [Fans -> Targets] :
     \A f \in Fans : s[f] \in IF f \in P THEN Readback(D[f]) ELSE {Automatic}}

(* Dropping the session: restore_all visits the touched controls in any    *)
(* order and stops at the first that fails.                                *)
Touched == {f \in Fans : drive[f].touched}

Abandoned(S) == [f \in Fans |->
  [requested |-> None, ramp |-> None, last |-> None, touched |-> FALSE,
   ctl |-> IF f \in S THEN Automatic ELSE drive[f].ctl]]

ClearSession ==
  /\ open' = FALSE /\ present' = {}
  /\ assigned' = Nobody /\ written' = Nobody /\ held' = Nobody
  /\ snap' = [f \in Fans |-> Automatic]
  /\ restore' = Nobody /\ todo' = {} /\ wrote' = FALSE /\ batch' = EmptyBatch

DropSession ==
  /\ ClearSession
  /\ \E S \in SUBSET Touched :
       /\ S # Touched => faults < MaxFaults
       /\ drive' = Abandoned(S)
       /\ faults' = IF S = Touched THEN faults ELSE faults + 1

Publish(kind) == latest' = kind /\ UNCHANGED shown
(* Mutant: only changes are published.                                     *)
PublishChanges ==
  /\ shown' = [f \in Fans |-> Mode(f)]
  /\ latest' = IF shown' = shown THEN latest ELSE "Ready"

PublishReady ==
  /\ latest' = "Ready"
  /\ shown' = [f \in Fans |-> Mode(f)]

-----------------------------------------------------------------------------
(* Process start, detection, and the environment.                          *)

Init ==
  /\ pc = "top" /\ batch = EmptyBatch
  /\ todo = {} /\ wrote = FALSE
  /\ open = FALSE /\ waiting = FALSE /\ present = {}
  /\ drive = [f \in Fans |-> [requested |-> None, ramp |-> None, last |-> None,
                              ctl |-> Bios, touched |-> FALSE]]
  /\ assigned = Nobody /\ written = Nobody /\ held = Nobody
  /\ snap = [f \in Fans |-> Automatic] /\ restore = Nobody
  /\ defs = [c \in Curves |-> None]
  /\ curveStore = Nobody /\ manualStore = Nobody
  /\ settingsStore = [f \in Fans |-> DefaultSettings]
  /\ calStore = [f \in Fans |-> NoCal]
  /\ disk = [curves |-> curveStore, manual |-> manualStore,
             settings |-> settingsStore, cals |-> calStore]
  /\ latest = "Detecting" /\ shown = [f \in Fans |-> <<"absent">>]
  /\ faults = 0

Running == pc \notin {"stopped", "crashed"}

(* The process is killed: nothing is dropped in order, the controls keep   *)
(* their last command and the disk its last saves.                         *)
Crash ==
  /\ Running
  /\ pc' = "crashed"
  /\ ClearSession /\ drive' = Abandoned({})
  /\ UNCHANGED <<waiting, defs, storeVars, disk, viewVars, faults>>

(* `run` begins: the stores are loaded and the hub is new.                 *)
Boot ==
  /\ ~Running
  /\ pc' = "top" /\ waiting' = FALSE
  /\ curveStore' = disk.curves /\ manualStore' = disk.manual
  /\ settingsStore' = disk.settings /\ calStore' = disk.cals
  /\ Publish("Detecting")
  /\ UNCHANGED <<batch, todo, wrote, open, present, drive, curveVars, snap,
                 restore, defs, disk, faults>>

(* Loop head without hardware, detection due: the session opens, stored    *)
(* assignments are taken over and the stored manual targets of the other   *)
(* fans are queued for re-application.                                     *)
Detect ==
  /\ pc = "top"
  /\ open' = TRUE /\ waiting' = FALSE
  /\ present' \in Topologies
  /\ assigned' = [f \in Fans |->
       IF f \in present' THEN curveStore[f] ELSE None]
  /\ todo' = {f \in present' : assigned'[f] = None /\ manualStore[f] # None}
  /\ drive' = [f \in Fans |-> Reopened(drive[f])]
  /\ snap' \in Snapshots(present', drive')
  /\ pc' = "resume"
  /\ UNCHANGED <<batch, wrote, written, held, restore, defs,
                 storeVars, disk, viewVars, faults>>

Resume(f) ==
  /\ pc = "resume" /\ f \in todo
  /\ RequestTarget(f, manualStore[f], FALSE)
  /\ todo' = todo \ {f}
  /\ UNCHANGED <<pc, batch, sessionVars, curveVars, snap, restore, defs,
                 storeVars, disk, viewVars>>

EndDetect ==
  /\ pc = "resume" /\ todo = {}
  /\ pc' = "recv" /\ wrote' = FALSE
  /\ PublishReady
  /\ UNCHANGED <<batch, todo, sessionVars, drive, curveVars, snap,
                 restore, defs, storeVars, disk, faults>>

DetectFails ==
  /\ pc = "top"
  /\ waiting' = TRUE /\ pc' = "recv"
  /\ Publish("Failed")
  /\ UNCHANGED <<batch, todo, wrote, open, present, drive, curveVars,
                 snap, restore, defs, storeVars, disk, faults>>

(* The retry interval is not over: the loop goes on without hardware.      *)
NotDue ==
  /\ pc = "top" /\ waiting
  /\ pc' = "recv"
  /\ UNCHANGED <<batch, todo, wrote, sessionVars, drive, curveVars, snap,
                 restore, defs, storeVars, disk, viewVars, faults>>

-----------------------------------------------------------------------------
(* Draining the channel into a batch.                                      *)

(* handle_command: targets and definitions overwrite, the others queue.    *)
Added(b, r) ==
  CASE r.op = "target"    -> [b EXCEPT !.targets[r.fan] = r.to]
    [] r.op = "assign"    -> [b EXCEPT !.assigns =
                               Append(@, [fan |-> r.fan, to |-> r.to])]
    [] r.op = "settings"  -> [b EXCEPT !.settings =
                               Append(@, [fan |-> r.fan, to |-> r.to])]
    [] r.op = "curves"    -> [b EXCEPT !.defs = r.to]
    [] r.op = "calibrate" -> [b EXCEPT !.calibrate = TRUE]
    [] r.op = "redetect"  -> [b EXCEPT !.redetect = TRUE]

Take(r) ==
  /\ pc = "recv" /\ batch.size < MaxBatch /\ r.op # "shutdown"
  /\ batch' = [Added(batch, r) EXCEPT !.size = @ + 1]
  /\ UNCHANGED <<pc, todo, wrote, sessionVars, drive, curveVars, snap, restore,
                 defs, storeVars, disk, viewVars, faults>>

(* Shutdown leaves the main loop; the rest of the batch is never applied,  *)
(* and dropping the session hands the controls back.                       *)
Stop(r) ==
  /\ pc \in {"recv", "ladder"} /\ r.op = "shutdown"
  /\ pc' = "stopped"
  /\ DropSession
  /\ UNCHANGED <<waiting, defs, storeVars, disk, viewVars>>

(* The channel is empty (or the wait timed out).  New definitions are      *)
(* saved first; then a re-detection drops the session, and without a       *)
(* session the batch ends here.                                            *)
NewDefs ==
  IF batch.defs = None THEN UNCHANGED <<defs, written, held, batch>>
  ELSE /\ defs' = batch.defs
       /\ written' = Nobody /\ held' = Nobody
       /\ batch' = [batch EXCEPT !.dirty = TRUE]

BeginBatch ==
  /\ pc = "recv" /\ open /\ ~batch.redetect
  /\ NewDefs
  /\ pc' = "targets"
  /\ todo' = {f \in Fans : batch.targets[f] # None}
  /\ UNCHANGED <<wrote, sessionVars, drive, assigned, snap, restore,
                 storeVars, disk, viewVars, faults>>

DiscardBatch ==
  /\ pc = "recv" /\ ~open /\ ~batch.redetect
  /\ defs' = IF batch.defs = None THEN defs ELSE batch.defs
  /\ batch' = EmptyBatch /\ pc' = "top"
  /\ UNCHANGED <<todo, wrote, sessionVars, drive, curveVars, snap,
                 restore, storeVars, disk, viewVars, faults>>

Redetect ==
  /\ pc = "recv" /\ batch.redetect
  /\ defs' = IF batch.defs = None THEN defs ELSE batch.defs
  /\ DropSession
  /\ Publish("Detecting")
  /\ waiting' = FALSE /\ pc' = "top"
  /\ UNCHANGED <<storeVars, disk>>

-----------------------------------------------------------------------------
(* Applying a batch, stage by stage.                                       *)

AfterAssigns == IF batch.settings # <<>> THEN "settings"
                ELSE IF batch.calibrate THEN "calibrate" ELSE "ramps"
AfterTargets == IF batch.assigns # <<>> THEN "assign" ELSE AfterAssigns

Ramping == {f \in Fans : drive[f].ramp # None}

(* Leave the current stage; the tail of the pass visits the ramps first.   *)
Proceed(stage) ==
  /\ pc' = stage
  /\ todo' = IF stage = "ramps" THEN Ramping ELSE {}

(* Mutant: only half of it is cleared.                                     *)
ClearWritten(f) == written' = [written EXCEPT ![f] = None] /\ UNCHANGED held
ClearHeld(f)    == held' = [held EXCEPT ![f] = None] /\ UNCHANGED written

(* A fan that leaves its curve: nothing of what the curve did is kept.     *)
ClearCurve(f) ==
  /\ written' = [written EXCEPT ![f] = None]
  /\ held' = [held EXCEPT ![f] = None]

(* Mutant: automatic control is stored as itself, or as the full duty.     *)
StoredAnyway(to) == to
StoredAsFull(to) ==
  IF to = Automatic THEN CHOOSE l \in Levels : \A k \in Levels : k <= l ELSE to

(* What the store keeps of a target: nothing for automatic control.        *)
StoredTarget(to) == IF to = Automatic THEN None ELSE to

(* One entry of the pending map: the target is remembered, a curve that    *)
(* drove the fan is released (and that saved), the target requested.       *)
ServeTarget(f) ==
  LET to == batch.targets[f]
      release == f \in present /\ assigned[f] # None
  IN  /\ pc = "targets" /\ f \in todo
      /\ todo' = todo \ {f}
      /\ manualStore' = IF f \in present
           THEN [manualStore EXCEPT ![f] = StoredTarget(to)] ELSE manualStore
      /\ IF release
           THEN /\ assigned' = [assigned EXCEPT ![f] = None]
                /\ curveStore' = [curveStore EXCEPT ![f] = None]
                /\ disk' = [disk EXCEPT !.curves = curveStore']
                /\ ClearCurve(f)
           ELSE UNCHANGED <<curveVars, curveStore, disk>>
      /\ RequestTarget(f, to, TRUE)
      /\ UNCHANGED <<pc, batch, sessionVars, snap, restore, defs,
                     settingsStore, calStore, viewVars>>

(* Mutant: the targets are not saved.                                      *)
EndTargetsUnsaved ==
  /\ pc = "targets" /\ todo = {}
  /\ Proceed(AfterTargets)
  /\ UNCHANGED <<batch, wrote, sessionVars, drive, curveVars, snap,
                 restore, defs, storeVars, disk, viewVars, faults>>

EndTargets ==
  /\ pc = "targets" /\ todo = {}
  /\ disk' = [disk EXCEPT !.manual = manualStore]
  /\ Proceed(AfterTargets)
  /\ UNCHANGED <<batch, wrote, sessionVars, drive, curveVars, snap,
                 restore, defs, storeVars, viewVars, faults>>

(* One queued assignment.  It drops the stored manual target, and a fan    *)
(* whose curve it takes away is released to automatic control.             *)
Assign ==
  LET f == batch.assigns[batch.next].fan
      c == batch.assigns[batch.next].to
  IN  /\ pc = "assign" /\ batch.next <= Len(batch.assigns)
      /\ batch' = [batch EXCEPT !.next = @ + 1, !.dirty = TRUE]
      /\ IF f \in present
           THEN /\ curveStore' = [curveStore EXCEPT ![f] = c]
                /\ manualStore' = [manualStore EXCEPT ![f] = None]
                /\ assigned' = [assigned EXCEPT ![f] = c]
                /\ ClearCurve(f)
                /\ IF c = None /\ assigned[f] # None
                     THEN RequestTarget(f, Automatic, TRUE) ELSE NoRequest
           ELSE NoRequest /\ UNCHANGED <<curveVars, curveStore, manualStore>>
      /\ UNCHANGED <<pc, todo, sessionVars, snap, restore, defs,
                     settingsStore, calStore, disk, viewVars>>

SaveAssigns ==
  /\ pc = "assign" /\ batch.next > Len(batch.assigns)
  /\ batch' = [batch EXCEPT !.next = 1]
  /\ disk' = [disk EXCEPT !.curves = curveStore]
  /\ pc' = "assigned"
  /\ UNCHANGED <<todo, wrote, sessionVars, drive, curveVars, snap,
                 restore, defs, storeVars, viewVars, faults>>

(* Mutant: the dropped manual targets stay in the file.                    *)
EndAssignsUnsaved ==
  /\ pc = "assigned"
  /\ PublishReady
  /\ Proceed(AfterAssigns)
  /\ UNCHANGED <<batch, wrote, sessionVars, drive, curveVars, snap,
                 restore, defs, storeVars, disk, faults>>

EndAssigns ==
  /\ pc = "assigned"
  /\ disk' = [disk EXCEPT !.manual = manualStore]
  /\ PublishReady
  /\ Proceed(AfterAssigns)
  /\ UNCHANGED <<batch, wrote, sessionVars, drive, curveVars, snap,
                 restore, defs, storeVars, faults>>

(* One queued tuning; then all are saved and every standing request is     *)
(* made again under the new tunings.                                       *)
Tune ==
  LET f == batch.settings[batch.next].fan
  IN  /\ pc = "settings" /\ batch.next <= Len(batch.settings)
      /\ batch' = [batch EXCEPT !.next = @ + 1]
      /\ settingsStore' = IF f \in present
           THEN [settingsStore EXCEPT ![f] = batch.settings[batch.next].to]
           ELSE settingsStore
      /\ UNCHANGED <<pc, todo, wrote, sessionVars, drive, curveVars, snap,
                     restore, defs, curveStore, manualStore, calStore, disk,
                     viewVars, faults>>

SaveSettings ==
  /\ pc = "settings" /\ batch.next > Len(batch.settings)
  /\ disk' = [disk EXCEPT !.settings = settingsStore]
  /\ pc' = "retarget"
  /\ todo' = {f \in Fans : drive[f].requested # None}
  /\ UNCHANGED <<batch, wrote, sessionVars, drive, curveVars, snap,
                 restore, defs, storeVars, viewVars, faults>>

Retarget(f) ==
  /\ pc = "retarget" /\ f \in todo
  /\ todo' = todo \ {f}
  /\ RequestTarget(f, drive[f].requested, TRUE)
  /\ UNCHANGED <<pc, batch, sessionVars, curveVars, snap, restore, defs,
                 storeVars, disk, viewVars>>

EndRetarget ==
  /\ pc = "retarget" /\ todo = {}
  /\ PublishReady
  /\ Proceed(IF batch.calibrate THEN "calibrate" ELSE "ramps")
  /\ UNCHANGED <<batch, wrote, sessionVars, drive, curveVars, snap,
                 restore, defs, storeVars, disk, faults>>

-----------------------------------------------------------------------------
(* Calibration: run_calibration, calibration_step and wait_pumping.        *)

(* Mutant: the standing request is ignored.                                *)
PlanAsRead(f) ==
  IF batch.targets[f] # None THEN batch.targets[f] ELSE snap[f]

(* Where a fan returns to: the batch's own target for it, else its         *)
(* standing request, else the duty last read back.                         *)
PlanFor(f) ==
  IF batch.targets[f] # None THEN batch.targets[f]
  ELSE IF drive[f].requested # None THEN drive[f].requested ELSE snap[f]

(* calibration_step writes one duty to every fan of the plan; a write may  *)
(* fail and is only logged.                                                *)
LadderWrite(level, plan) ==
  \E W \in SUBSET plan :
    /\ W # plan => faults < MaxFaults
    /\ faults' = IF W = plan THEN faults ELSE faults + 1
    /\ drive' = [f \in Fans |->
         LET d == Unramped(drive[f])
         IN  IF f \in W THEN Pinned(d, level) ELSE d]

StartCalibration ==
  /\ pc = "calibrate" /\ present # {}
  /\ restore' = [f \in Fans |-> IF f \in present THEN PlanFor(f) ELSE None]
  /\ \E level \in Ladder : LadderWrite(level, present)
  /\ Publish("Calibrating")
  /\ pc' = "ladder"
  /\ UNCHANGED <<batch, todo, wrote, sessionVars, curveVars, snap, defs,
                 storeVars, disk>>

SkipCalibration ==
  /\ pc = "calibrate" /\ present = {}
  /\ drive' = [f \in Fans |-> Unramped(drive[f])]
  /\ PublishReady
  /\ pc' = "ramps" /\ todo' = {}
  /\ UNCHANGED <<batch, wrote, sessionVars, curveVars, snap,
                 restore, defs, storeVars, disk, faults>>

NextDuty ==
  /\ pc = "ladder"
  /\ \E level \in Ladder : LadderWrite(level, present)
  /\ Publish("Calibrating")
  /\ UNCHANGED <<pc, batch, todo, wrote, sessionVars, curveVars, snap,
                 restore, defs, storeVars, disk>>

(* wait_pumping: a target goes into the restore plan, definitions are      *)
(* stored, tunings, assignments and another calibration are ignored.       *)
Pump(r) ==
  /\ pc = "ladder" /\ r.op \notin {"shutdown", "redetect"}
  /\ restore' = IF r.op = "target" /\ r.fan \in present
                  THEN [restore EXCEPT ![r.fan] = r.to] ELSE restore
  /\ defs' = IF r.op = "curves" THEN r.to ELSE defs
  /\ UNCHANGED <<pc, batch, todo, wrote, sessionVars, drive, curveVars, snap,
                 storeVars, disk, viewVars, faults>>

(* A re-detection aborts the run; the dropped session restores control.    *)
AbortCalibration(r) ==
  /\ pc = "ladder" /\ r.op = "redetect"
  /\ DropSession
  /\ Publish("Detecting")
  /\ waiting' = FALSE /\ pc' = "top"
  /\ UNCHANGED <<defs, storeVars, disk>>

(* Mutant: the run ends without restoring anything.                        *)
EndLadderUnrestored ==
  /\ pc = "ladder"
  /\ pc' = "restore" /\ todo' = {}
  /\ UNCHANGED <<batch, wrote, sessionVars, drive, curveVars, snap,
                 restore, defs, storeVars, disk, viewVars, faults>>

(* The ladder is done, too hot, or in conflict with another tool.          *)
EndLadder ==
  /\ pc = "ladder"
  /\ pc' = "restore" /\ todo' = present
  /\ UNCHANGED <<batch, wrote, sessionVars, drive, curveVars, snap,
                 restore, defs, storeVars, disk, viewVars, faults>>

(* Every fan of the plan, curve-driven ones too, gets its target stored    *)
(* and requested, still under the previous calibration.                    *)
Restore(f) ==
  /\ pc = "restore" /\ f \in todo
  /\ todo' = todo \ {f}
  /\ manualStore' = [manualStore EXCEPT ![f] = StoredTarget(restore[f])]
  /\ RequestTarget(f, restore[f], FALSE)
  /\ UNCHANGED <<pc, batch, sessionVars, curveVars, snap, restore, defs,
                 curveStore, settingsStore, calStore, disk, viewVars>>

(* The targets are saved; unless the run met a conflict, so are the new    *)
(* calibrations.                                                           *)
EndCalibration ==
  /\ pc = "restore" /\ todo = {}
  /\ calStore' \in {calStore} \cup
       {new \in [Fans -> Cals] :
          \A f \in Fans \ present : new[f] = calStore[f]}
  /\ disk' = [disk EXCEPT !.manual = manualStore, !.cals = calStore']
  /\ restore' = Nobody
  /\ snap' \in Snapshots(present, drive)
  /\ PublishReady
  /\ Proceed("ramps")
  /\ UNCHANGED <<batch, wrote, sessionVars, drive, curveVars, defs,
                 curveStore, manualStore, settingsStore, faults>>

-----------------------------------------------------------------------------
(* The tail of a pass: ramps, curves, update.                              *)

(* tick_ramps on one fan: it is held, or the next command is the one last  *)
(* written, or a new one is written; reaching the target ends the ramp.    *)
TickRamp(f) ==
  /\ pc = "ramps" /\ f \in todo
  /\ todo' = todo \ {f}
  /\ \/ UNCHANGED <<drive, wrote, faults>>
     \/ \E done \in BOOLEAN, level \in Levels, ok \in BOOLEAN :
          LET d == IF done THEN Unramped(drive[f])
                           ELSE Ramped(drive[f], drive[f].ramp, level)
          IN  /\ done => level = Command(f, drive[f].ramp)
              /\ IF level = drive[f].last
                   THEN /\ ok /\ done /\ drive' = [drive EXCEPT ![f] = d]
                        /\ UNCHANGED <<wrote, faults>>
                   ELSE /\ ok => f \in present
                        /\ ~ok => Fault(f)
                        /\ drive' = [drive EXCEPT
                             ![f] = IF ok THEN Pinned(d, level) ELSE d]
                        /\ wrote' = TRUE
                        /\ faults' = FaultCount(f, ok)
  /\ UNCHANGED <<pc, batch, sessionVars, curveVars, snap, restore, defs,
                 storeVars, disk, viewVars>>

(* Curves are due with the poll, or at once when this batch changed them.  *)
EndRamps ==
  /\ pc = "ramps" /\ todo = {}
  /\ \E due \in BOOLEAN :
       /\ due => ~batch.calibrate        \* a calibration resets next_poll
       /\ batch' = [batch EXCEPT !.due = due]
       /\ todo' = IF due \/ batch.dirty
                   THEN {f \in Fans : assigned[f] # None} ELSE {}
  /\ pc' = "curves"
  /\ UNCHANGED <<wrote, sessionVars, drive, curveVars, snap, restore,
                 defs, storeVars, disk, viewVars, faults>>

(* Mutant: the assignment to the vanished curve is dropped for good.       *)
DropVanishedForGood(f) ==
  /\ pc = "curves" /\ f \in todo /\ defs[assigned[f]] = None
  /\ todo' = todo \ {f}
  /\ IF written[f] # None THEN RequestTarget(f, Automatic, TRUE) ELSE NoRequest
  /\ ClearCurve(f) /\ assigned' = [assigned EXCEPT ![f] = None]
  /\ curveStore' = [curveStore EXCEPT ![f] = None]
  /\ disk' = [disk EXCEPT !.curves = curveStore']
  /\ UNCHANGED <<pc, batch, sessionVars, snap, restore, defs, manualStore,
                 settingsStore, calStore, viewVars>>

(* apply_curves on one assigned fan whose curve no longer exists: if the   *)
(* curve had written, the fan goes back to automatic control.              *)
DropVanished(f) ==
  /\ pc = "curves" /\ f \in todo /\ defs[assigned[f]] = None
  /\ todo' = todo \ {f}
  /\ IF written[f] # None THEN RequestTarget(f, Automatic, TRUE) ELSE NoRequest
  /\ ClearCurve(f)
  /\ UNCHANGED <<pc, batch, sessionVars, assigned, snap, restore, defs,
                 storeVars, disk, viewVars>>

(* The source reads nothing: the fan keeps its last command.               *)
HoldReading(f) ==
  /\ pc = "curves" /\ f \in todo /\ defs[assigned[f]] # None
  /\ todo' = todo \ {f}
  /\ UNCHANGED <<pc, batch, wrote, sessionVars, drive, curveVars, snap,
                 restore, defs, storeVars, disk, viewVars, faults>>

(* What apply_curve_functions may yield: the curve's target for the        *)
(* reading or, with a function that remembers, the target it holds or that *)
(* of a reading on the way.                                                *)
CurveTargets(f, reading) ==
  LET shape == defs[assigned[f]]
  IN  IF shape \in Smooth /\ held[f] # None
        THEN {held[f]} \cup {Output[shape][r] : r \in Readings}
        ELSE {Output[shape][reading]}

(* A changed command is requested, an unchanged one only remembered.       *)
DriveByCurve(f, reading) ==
  /\ pc = "curves" /\ f \in todo /\ defs[assigned[f]] # None
  /\ todo' = todo \ {f}
  /\ \E to \in CurveTargets(f, reading) :
       /\ held' = [held EXCEPT ![f] =
            IF defs[assigned[f]] \in Smooth THEN to ELSE None]
       /\ written' = [written EXCEPT ![f] = Command(f, to)]
       /\ IF written[f] # Command(f, to)
            THEN RequestTarget(f, to, TRUE)
            ELSE /\ drive' = [drive EXCEPT ![f].requested = to]
                 /\ UNCHANGED <<wrote, faults>>
  /\ UNCHANGED <<pc, batch, sessionVars, assigned, snap, restore, defs,
                 storeVars, disk, viewVars>>

(* Mutant: a state is published only when a duty reads differently.        *)
UpdateIfChanged ==
  /\ pc = "curves" /\ todo = {} /\ (batch.due \/ wrote)
  /\ snap' \in Snapshots(present, drive)
  /\ IF snap' # snap THEN PublishReady ELSE UNCHANGED viewVars
  /\ pc' = "recv" /\ batch' = EmptyBatch /\ wrote' = FALSE
  /\ UNCHANGED <<todo, sessionVars, drive, curveVars, restore, defs,
                 storeVars, disk, faults>>

(* A poll, or a debounced refresh after a write, reads everything back and *)
(* publishes it.                                                           *)
Update ==
  /\ pc = "curves" /\ todo = {} /\ (batch.due \/ wrote)
  /\ snap' \in Snapshots(present, drive)
  /\ PublishReady
  /\ pc' = "recv" /\ batch' = EmptyBatch /\ wrote' = FALSE
  /\ UNCHANGED <<todo, sessionVars, drive, curveVars, restore, defs,
                 storeVars, disk, faults>>

NoUpdate ==
  /\ pc = "curves" /\ todo = {} /\ ~batch.due
  /\ pc' = "recv" /\ batch' = EmptyBatch /\ wrote' = FALSE
  /\ UNCHANGED <<todo, sessionVars, drive, curveVars, snap, restore,
                 defs, storeVars, disk, viewVars, faults>>

-----------------------------------------------------------------------------
Detection   == \/ Detect \/ EndDetect \/ DetectFails \/ NotDue
               \/ \E f \in Fans : Resume(f)
Hearing     == \E r \in Requests : Take(r) \/ Pump(r)
Batching    == BeginBatch \/ DiscardBatch \/ Redetect
Applying    == \/ \E f \in Fans : ServeTarget(f) \/ Retarget(f)
               \/ EndTargets \/ Assign \/ SaveAssigns \/ EndAssigns
               \/ Tune \/ SaveSettings \/ EndRetarget
Calibrating == \/ StartCalibration \/ SkipCalibration \/ EndLadder
               \/ \E f \in Fans : Restore(f)
               \/ EndCalibration
Polling     == \/ EndRamps \/ Update \/ NoUpdate
               \/ \E f \in Fans :
                    TickRamp(f) \/ DropVanished(f) \/ HoldReading(f)
               \/ \E f \in Fans, r \in Readings : DriveByCurve(f, r)
Ending      == Boot \/ \E r \in Requests : Stop(r) \/ AbortCalibration(r)

(* The service on its own, with its clients, and with those who kill it.   *)
Working == \/ Detection \/ Batching \/ Applying \/ Calibrating \/ NextDuty
           \/ Polling \/ Ending
Orderly == Working \/ Hearing
Next    == Orderly \/ Crash

Spec        == Init /\ [][Next]_vars
OrderlySpec == Init /\ [][Orderly]_vars

(* The worker keeps running: every loop is finite, the receive times out   *)
(* and the calibration ladder ends.  Polls fall due again and again, and a *)
(* ramp reaches its target after finitely many ticks.                      *)
Progress == Detection \/ Batching \/ Applying \/ Calibrating \/ Polling
Fairness ==
  /\ WF_vars(Progress)
  /\ SF_vars(EndRamps /\ batch'.due)
  /\ \A f \in Fans : SF_vars(TickRamp(f) /\ drive'[f].ramp = None)

FairSpec == Spec /\ Fairness

-----------------------------------------------------------------------------
(* The mode of a fan that a restart would find in the stores, the modes    *)
(* the batch asks for, and the contract between the two (FanModes).        *)
DurableMode == [f \in Fans |-> ModeOf(disk.curves[f], disk.manual[f])]
AskedModes == [f \in Fans |->
  (IF batch.targets[f] = None THEN {} ELSE {ModeOf(None, batch.targets[f])})
    \cup {ModeOf(batch.assigns[i].to, None) :
            i \in {j \in DOMAIN batch.assigns : batch.assigns[j].fan = f}}]

Modes == INSTANCE FanModes WITH
  mode <- DurableMode, asked <- AskedModes, calibrating <- batch.calibrate

ModesKept == Modes!Spec

TypeOK ==
  /\ pc \in {"top", "resume", "recv", "targets", "assign", "assigned",
             "settings", "retarget", "calibrate", "ladder", "restore",
             "ramps", "curves", "stopped", "crashed"}
  /\ batch \in Batch /\ todo \in SUBSET Fans /\ wrote \in BOOLEAN
  /\ open \in BOOLEAN /\ waiting \in BOOLEAN /\ present \in SUBSET Fans
  /\ drive \in [Fans -> Drive]
  /\ assigned \in [Fans -> Curves \cup {None}]
  /\ written \in [Fans -> Levels \cup {None}]
  /\ held \in [Fans -> Levels \cup {None}]
  /\ snap \in [Fans -> Targets]
  /\ restore \in [Fans -> Targets \cup {None}]
  /\ defs \in Defs
  /\ curveStore \in [Fans -> Curves \cup {None}]
  /\ manualStore \in [Fans -> Levels \cup {None}]
  /\ settingsStore \in [Fans -> Settings]
  /\ calStore \in [Fans -> Cals]
  /\ disk \in [curves: [Fans -> Curves \cup {None}],
                manual: [Fans -> Levels \cup {None}],
                settings: [Fans -> Settings], cals: [Fans -> Cals]]
  /\ latest \in {"Detecting", "Failed", "Calibrating", "Ready"}
  /\ shown \in [Fans -> {<<"auto">>, <<"absent">>}
                 \cup ({"manual"} \X Levels) \cup ({"curve"} \X Curves)]
  /\ faults \in Nat

(* A fan that is off its curve has no curve state left: no remembered      *)
(* write, no held target that a later curve could mistake for its own.     *)
NoStaleCurveState ==
  \A f \in Fans : assigned[f] = None => written[f] = None /\ held[f] = None

(* Between batches the stores are what is in force: a restart would put    *)
(* every fan of the session on the curve that drives it now, and never     *)
(* re-applies a manual target that the running service has dropped.        *)
StoresInForce ==
  pc = "recv" /\ open => \A f \in present :
    /\ disk.curves[f] = assigned[f]
    /\ DurableMode[f] \in {Mode(f), <<"auto">>}

(* Where no client releases a fan by SetFanCurve(None), a restart between  *)
(* batches brings every fan of the session back in exactly its mode.       *)
RestartKeepsMode ==
  pc = "recv" /\ open => \A f \in present : DurableMode[f] = Mode(f)

(* A stored manual target is one that a client once sent for that fan; a   *)
(* curve's output or a readback never becomes one.                         *)
TargetsWereSent ==
  \A f \in Fans : disk.manual[f] # None =>
    [op |-> "target", fan |-> f, to |-> disk.manual[f]] \in Requests

(* A fan this session pinned still has the request that pinned it, except  *)
(* that a failed write may have left one fan behind: whatever sequence of  *)
(* batches, aborted calibrations and vanished curves came before.          *)
Orphans == {f \in Fans : drive[f].touched /\ drive[f].requested = None}
NoOrphanedPin == pc = "recv" => Cardinality(Orphans) <= faults

(* ... and it stands at the command its request ends at under the settings *)
(* and the calibration in force, or ramps to it (perhaps on behalf of an   *)
(* earlier target of its curve that ends at the same command).             *)
AsRequested(f) ==
  LET command == Command(f, drive[f].requested)
  IN  \/ drive[f].ctl = command
      \/ drive[f].ramp # None /\ Command(f, drive[f].ramp) = command
CommandMatchesRequest ==
  pc = "recv" =>
    Cardinality(Orphans \cup {f \in Fans : /\ drive[f].touched
                                          /\ drive[f].requested # None
                                          /\ ~AsRequested(f)}) <= faults

(* The write cache tells what the hardware was last told, or is ramping to *)
(* (again up to one fan per failed write); a curve's unchanged command may *)
(* be skipped only then.                                                   *)
CacheTrue(f) == \/ written[f] \in {None, drive[f].ctl}
                \/ /\ drive[f].ramp # None
                   /\ Command(f, drive[f].ramp) = written[f]
WriteCacheTrue ==
  pc = "recv" => Cardinality({f \in Fans : ~CacheTrue(f)}) <= faults

(* Between batches clients are told Ready exactly while a session is open. *)
PublishedKindTrue ==
  pc = "recv" => (open <=> latest = "Ready")

(* An orderly stop leaves no fan pinned unless a hardware write failed.    *)
StoppedFansFree ==
  pc = "stopped" /\ faults = 0 => \A f \in Fans : drive[f].ctl \notin Levels

(* A mode that a fan stays in is at some point the one clients are shown.  *)
ShownCatchesUp ==
  \A f \in Fans, m \in Modes!Modes :
    Mode(f) = m ~> (Mode(f) # m \/ (shown[f] = m /\ latest = "Ready"))

(* A fan whose curve has vanished does not stay pinned at a stale command. *)
Vanished(f) == open /\ assigned[f] # None /\ defs[assigned[f]] = None
VanishedReleased ==
  \A f \in Fans : Vanished(f) ~> ~Vanished(f) \/ drive[f].ctl \notin Levels
=============================================================================
