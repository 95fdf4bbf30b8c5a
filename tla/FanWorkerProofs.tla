--------------------------- MODULE FanWorkerProofs ---------------------------
(* Theorems about the hardware worker, for every fan, curve, request,      *)
(* setting and bound: its types, and what sessions and publications show.  *)
EXTENDS FanWorker, TLAPS

(* Every loop over fans visits only those that have what it looks at.      *)
TodoOK ==
  /\ pc = "resume"   => \A f \in todo : manualStore[f] # None
  /\ pc = "targets"  => \A f \in todo : batch.targets[f] # None
  /\ pc = "retarget" => \A f \in todo : drive[f].requested # None
  /\ pc = "ladder"   => \A f \in present : restore[f] # None
  /\ pc = "restore"  => \A f \in todo : restore[f] # None
  /\ pc = "ramps"    => \A f \in todo : drive[f].ramp # None
  /\ pc = "curves"   => \A f \in todo : assigned[f] # None
TypeInv == TypeOK /\ TodoOK

(* The ways a drive changes keep it well-formed.                           *)
LEMMA DriveType ==
  ASSUME NEW d \in Drive
  PROVE  /\ \A level \in Levels : Pinned(d, level) \in Drive
         /\ \A to \in Levels \cup {None}, last \in Levels \cup {None} :
              Ramped(d, to, last) \in Drive
         /\ \A to \in Levels : [d EXCEPT !.requested = to] \in Drive
         /\ Unramped(d) \in Drive /\ Released(d) \in Drive
         /\ Reopened(d) \in Drive
  BY DEF Drive, Pinned, Released, Reopened, Unramped, Ramped

LEMMA AppendType ==
  ASSUME NEW T, NEW q \in Seq(T), NEW a \in T
  PROVE  Append(q, a) \in Seq(T)
  OBVIOUS

LEMMA EntryType ==
  ASSUME NEW T, NEW q \in Seq(T), NEW n \in Nat \ {0}, n <= Len(q)
  PROVE  q[n] \in T
  OBVIOUS

(* Each way a batch changes keeps it well-formed.                          *)
LEMMA BatchType ==
  ASSUME NEW b \in Batch
  PROVE  /\ \A f \in Fans, to \in Targets :
              [b EXCEPT !.targets[f] = to] \in Batch
         /\ \A a \in [fan: Fans, to: Curves \cup {None}] :
              [b EXCEPT !.assigns = Append(@, a)] \in Batch
         /\ \A a \in [fan: Fans, to: Settings] :
              [b EXCEPT !.settings = Append(@, a)] \in Batch
         /\ \A d \in Defs : [b EXCEPT !.defs = d] \in Batch
         /\ [b EXCEPT !.calibrate = TRUE] \in Batch
         /\ [b EXCEPT !.redetect = TRUE] \in Batch
         /\ [b EXCEPT !.dirty = TRUE] \in Batch
         /\ \A due \in BOOLEAN : [b EXCEPT !.due = due] \in Batch
         /\ [b EXCEPT !.size = @ + 1] \in Batch
         /\ [b EXCEPT !.next = 1] \in Batch
         /\ [b EXCEPT !.next = @ + 1] \in Batch
         /\ [b EXCEPT !.next = @ + 1, !.dirty = TRUE] \in Batch
<1>1. \A f \in Fans, to \in Targets : [b EXCEPT !.targets[f] = to] \in Batch
  BY DEF Batch
<1>2. \A a \in [fan: Fans, to: Curves \cup {None}] :
        [b EXCEPT !.assigns = Append(@, a)] \in Batch
  <2>1. \A q \in Seq([fan: Fans, to: Curves \cup {None}]) :
          [b EXCEPT !.assigns = q] \in Batch
    BY DEF Batch
  <2>2. b.assigns \in Seq([fan: Fans, to: Curves \cup {None}])
    BY DEF Batch
  <2> QED
    BY <2>1, <2>2, AppendType
<1>3. \A a \in [fan: Fans, to: Settings] :
        [b EXCEPT !.settings = Append(@, a)] \in Batch
  <2>1. \A q \in Seq([fan: Fans, to: Settings]) :
          [b EXCEPT !.settings = q] \in Batch
    BY DEF Batch
  <2>2. b.settings \in Seq([fan: Fans, to: Settings])
    BY DEF Batch
  <2> QED
    BY <2>1, <2>2, AppendType
<1>4. \A d \in Defs : [b EXCEPT !.defs = d] \in Batch
  BY DEF Batch
<1>5. /\ [b EXCEPT !.calibrate = TRUE] \in Batch
      /\ [b EXCEPT !.redetect = TRUE] \in Batch
      /\ [b EXCEPT !.dirty = TRUE] \in Batch
  BY DEF Batch
<1>6. \A due \in BOOLEAN : [b EXCEPT !.due = due] \in Batch
  BY DEF Batch
<1>7. [b EXCEPT !.size = @ + 1] \in Batch
  BY SMTT(30) DEF Batch
<1>8. \A n \in Nat \ {0} : /\ [b EXCEPT !.next = n] \in Batch
                          /\ [b EXCEPT !.next = n, !.dirty = TRUE] \in Batch
  BY DEF Batch
<1>9. 1 \in Nat \ {0} /\ b.next + 1 \in Nat \ {0}
  <2>1. b.next \in Nat \ {0}
    BY DEF Batch
  <2> QED
    BY <2>1
<1> QED
  BY <1>1, <1>2, <1>3, <1>4, <1>5, <1>6, <1>7, <1>8, <1>9

(* Every way to take on a target leaves a well-formed drive.               *)
LEMMA OutcomesType ==
  ASSUME TypeOK, NEW f \in Fans, NEW to \in Targets
  PROVE  \A o \in Outcomes(f, to) : o.drive \in Drive
<1>1. Command(f, to) \in Levels \/ to = Automatic
  BY MapsAssumption DEF Command, Targets, TypeOK
<1>2. Start[calStore[f]][settingsStore[f]] \in Levels \cup {None}
  BY MapsAssumption DEF TypeOK
<1>3. drive[f] \in Drive
  BY DEF TypeOK
<1>4. CASE to = Automatic
  <2>1. Outcomes(f, to) = {[drive |-> Released(drive[f]), wrote |-> TRUE]}
    BY <1>4 DEF Outcomes
  <2> QED
    BY <2>1, <1>3, DriveType
<1>5. CASE to # Automatic
  <2>1. to \in Levels /\ Command(f, to) \in Levels
    BY <1>5, <1>1 DEF Targets
  <2> DEFINE start == Start[calStore[f]][settingsStore[f]]
             asked == [drive[f] EXCEPT !.requested = to]
  <2>2. asked \in Drive
    BY <1>3, <2>1, DriveType
  <2>3. /\ Ramped(asked, to, None) \in Drive
        /\ Pinned(Unramped(asked), Command(f, to)) \in Drive
        /\ start # None => Pinned(Ramped(asked, to, start), start) \in Drive
    BY <1>2, <2>1, <2>2, DriveType
  <2>4. \A o \in Outcomes(f, to) :
          \/ o = [drive |-> Ramped(asked, to, None), wrote |-> FALSE]
          \/ o = [drive |-> Pinned(Unramped(asked), Command(f, to)),
                  wrote |-> TRUE]
          \/ /\ start # None
             /\ o = [drive |-> Pinned(Ramped(asked, to, start), start),
                     wrote |-> TRUE]
    BY <1>5 DEF Outcomes
  <2> QED
    BY <2>3, <2>4
<1> QED
  BY <1>4, <1>5

(* A request of a level or of automatic control keeps every drive          *)
(* well-formed and touches no other fan.                                   *)
LEMMA RequestTargetType ==
  ASSUME TypeOK, NEW f \in Fans, NEW to \in Targets, NEW counts \in BOOLEAN,
         RequestTarget(f, to, counts)
  PROVE  /\ drive' \in [Fans -> Drive] /\ wrote' \in BOOLEAN /\ faults' \in Nat
         /\ \A g \in Fans \ {f} : drive'[g] = drive[g]
<1>1. drive[f] \in Drive
  BY DEF TypeOK
<1>2. PICK o \in Outcomes(f, to), ok \in BOOLEAN :
        /\ drive' = [drive EXCEPT ![f] = IF ok THEN o.drive
                                               ELSE Unwritten(o.drive, f)]
        /\ wrote' = (wrote \/ (counts /\ o.wrote))
        /\ faults' = FaultCount(f, ok)
  BY DEF RequestTarget
<1>3. o.drive \in Drive /\ Unwritten(o.drive, f) \in Drive
  BY <1>1, OutcomesType DEF Unwritten, Drive
<1> QED
  BY <1>1, <1>2, <1>3 DEF TypeOK, FaultCount

LEMMA EmptyBatchType == EmptyBatch \in Batch
<1>1. [f \in Fans |-> None] \in [Fans -> Targets \cup {None}]
  OBVIOUS
<1> QED
  BY <1>1 DEF EmptyBatch, Batch

LEMMA AbandonedType ==
  ASSUME TypeOK, NEW S \in SUBSET Fans
  PROVE  Abandoned(S) \in [Fans -> Drive]
<1>1. ASSUME NEW f \in Fans
      PROVE  [requested |-> None, ramp |-> None, last |-> None, touched |-> FALSE,
              ctl |-> IF f \in S THEN Automatic ELSE drive[f].ctl] \in Drive
  BY DEF TypeOK, Drive
<1> QED
  BY <1>1 DEF Abandoned

LEMMA InitType == Init => TypeInv
<1> SUFFICES ASSUME Init PROVE TypeInv
  OBVIOUS
<1>1. batch \in Batch
  BY EmptyBatchType DEF Init
<1>2. drive \in [Fans -> Drive]
  BY DEF Init, Drive
<1>3. disk \in [curves: [Fans -> Curves \cup {None}],
                manual: [Fans -> Levels \cup {None}],
                settings: [Fans -> Settings], cals: [Fans -> Cals]]
  BY DefaultsAssumption DEF Init, Nobody
<1> QED
  BY <1>1, <1>2, <1>3, DefaultsAssumption
  DEF Init, TypeInv, TypeOK, TodoOK, Nobody, Defs, Targets

LEMMA DetectionType ==
  ASSUME TypeInv, Detection PROVE TypeInv'
<1> USE DEF TypeInv, TypeOK, TodoOK, sessionVars, curveVars, storeVars, viewVars,
           ClearCurve
<1>1. CASE Detect
  <2>1. drive' \in [Fans -> Drive]
    BY <1>1, DriveType DEF Detect
  <2>2. snap' \in [Fans -> Targets] /\ present' \in SUBSET Fans
    BY <1>1, InputsAssumption DEF Detect, Snapshots
  <2>3. assigned' \in [Fans -> Curves \cup {None}]
    BY <1>1 DEF Detect
  <2>4. /\ todo' \in SUBSET Fans /\ \A f \in todo' : manualStore'[f] # None
        /\ open' \in BOOLEAN /\ waiting' \in BOOLEAN /\ pc' = "resume"
    BY <1>1, <2>2 DEF Detect
  <2> QED
    BY <1>1, <2>1, <2>2, <2>3, <2>4 DEF Detect
<1>2. CASE EndDetect
  BY <1>2 DEF EndDetect, PublishReady, Mode, ModeOf, Drive
<1>3. CASE DetectFails
  BY <1>3 DEF DetectFails, Publish
<1>4. CASE NotDue
  BY <1>4 DEF NotDue
<1>5. ASSUME NEW f \in Fans, Resume(f) PROVE TypeInv'
  BY <1>5, RequestTargetType DEF Resume, Targets
<1> QED
  BY <1>1, <1>2, <1>3, <1>4, <1>5 DEF Detection

LEMMA HearingType ==
  ASSUME TypeInv, Hearing PROVE TypeInv'
<1> USE DEF TypeInv, TypeOK, TodoOK, sessionVars, curveVars, storeVars, viewVars,
           ClearCurve
<1>1. PICK r \in Requests : Take(r) \/ Pump(r)
  BY DEF Hearing
<1>2. r \in Request
  BY InputsAssumption
<1>3. CASE Take(r)
  <2>1. Added(batch, r) \in Batch
    BY <1>2, <1>3, BatchType DEF Take, Added, Request, TargetRequest,
       AssignRequest, SettingsRequest, CurvesRequest, PlainRequest
  <2>2. batch' \in Batch
    BY <1>3, <2>1, BatchType DEF Take
  <2> QED
    BY <1>3, <2>2 DEF Take
<1>4. CASE Pump(r)
  <2>1. /\ restore' \in [Fans -> Targets \cup {None}] /\ defs' \in Defs
        /\ \A f \in present : restore'[f] # None
    BY <1>2, <1>4, MarkersAssumption DEF Pump, Targets, Request,
       TargetRequest, AssignRequest, SettingsRequest, CurvesRequest,
       PlainRequest
  <2> QED
    BY <1>4, <2>1 DEF Pump
<1> QED
  BY <1>1, <1>3, <1>4

LEMMA BatchingType ==
  ASSUME TypeInv, Batching PROVE TypeInv'
<1> USE DEF TypeInv, TypeOK, TodoOK, sessionVars, curveVars, storeVars, viewVars,
           ClearCurve
<1>1. CASE BeginBatch
  <2>1. batch' \in Batch
    BY <1>1, BatchType DEF BeginBatch, NewDefs
  <2>3. batch'.targets = batch.targets
    BY <1>1 DEF BeginBatch, NewDefs, Batch
  <2>2. defs' \in Defs
    BY <1>1 DEF BeginBatch, NewDefs, Batch
  <2> QED
    BY <1>1, <2>1, <2>2, <2>3 DEF BeginBatch, NewDefs, Nobody
<1>2. CASE DiscardBatch
  BY <1>2, EmptyBatchType DEF DiscardBatch, Batch
<1>3. CASE Redetect
  <2>1. drive' \in [Fans -> Drive] /\ faults' \in Nat
    BY <1>3, AbandonedType DEF Redetect, DropSession, Touched
  <2>2. defs' \in Defs
    BY <1>3 DEF Redetect, Batch
  <2> QED
    BY <1>3, <2>1, <2>2, EmptyBatchType
    DEF Redetect, DropSession, ClearSession, Publish, Nobody, Targets
<1> QED
  BY <1>1, <1>2, <1>3 DEF Batching

LEMMA ProceedType ==
  ASSUME TypeInv, NEW stage \in {"assign", "settings", "calibrate", "ramps"},
         Proceed(stage), drive' = drive
  PROVE  /\ pc' = stage /\ todo' \in SUBSET Fans
         /\ pc' = "ramps" => \A f \in todo' : drive'[f].ramp # None
  BY DEF Proceed, Ramping, TypeInv, TypeOK

LEMMA ShownType ==
  ASSUME TypeInv, PublishReady
  PROVE  /\ latest' = "Ready"
         /\ shown' \in [Fans -> {<<"auto">>, <<"absent">>}
                 \cup ({"manual"} \X Levels) \cup ({"curve"} \X Curves)]
  BY DEF PublishReady, Mode, ModeOf, TypeInv, TypeOK, Drive

LEMMA ApplyingType ==
  ASSUME TypeInv, Applying PROVE TypeInv'
<1> USE DEF TypeInv, TypeOK, TodoOK, sessionVars, curveVars, storeVars, viewVars,
           ClearCurve
<1>1. ASSUME NEW f \in Fans, ServeTarget(f) PROVE TypeInv'
  <2>1. batch.targets[f] \in Targets
    BY <1>1 DEF ServeTarget, Batch
  <2>2. /\ drive' \in [Fans -> Drive] /\ wrote' \in BOOLEAN /\ faults' \in Nat
    BY <1>1, <2>1, RequestTargetType DEF ServeTarget
  <2>3. manualStore' \in [Fans -> Levels \cup {None}]
    BY <1>1, <2>1 DEF ServeTarget, StoredTarget, Targets
  <2>4. /\ assigned' \in [Fans -> Curves \cup {None}]
        /\ curveStore' \in [Fans -> Curves \cup {None}]
        /\ written' \in [Fans -> Levels \cup {None}]
        /\ held' \in [Fans -> Levels \cup {None}]
    BY <1>1 DEF ServeTarget
  <2>5. disk' \in [curves: [Fans -> Curves \cup {None}],
                   manual: [Fans -> Levels \cup {None}],
                   settings: [Fans -> Settings], cals: [Fans -> Cals]]
    BY <1>1, <2>4 DEF ServeTarget
  <2> QED
    BY <1>1, <2>2, <2>3, <2>4, <2>5 DEF ServeTarget
<1>2. ASSUME NEW f \in Fans, Retarget(f) PROVE TypeInv'
  <2>1. drive[f].requested \in Targets
    BY <1>2 DEF Retarget, Drive, Targets
  <2> QED
    BY <1>2, <2>1, RequestTargetType DEF Retarget
<1>3. CASE EndTargets
  <2>1. AfterTargets \in {"assign", "settings", "calibrate", "ramps"}
    BY DEF AfterTargets, AfterAssigns
  <2> QED
    BY <1>3, <2>1, ProceedType DEF EndTargets
<1>4. CASE Assign
  <2> DEFINE a == batch.assigns[batch.next]
  <2>1. a.fan \in Fans /\ a.to \in Curves \cup {None}
    <3>1. /\ batch.assigns \in Seq([fan: Fans, to: Curves \cup {None}])
          /\ batch.next \in Nat \ {0}
      BY DEF Batch
    <3>2. a \in [fan: Fans, to: Curves \cup {None}]
      BY <1>4, <3>1, EntryType DEF Assign
    <3> QED
      BY <3>2
  <2>2. batch' \in Batch
    BY <1>4, BatchType DEF Assign
  <2>3. drive' \in [Fans -> Drive] /\ wrote' \in BOOLEAN /\ faults' \in Nat
    BY <1>4, <2>1, RequestTargetType DEF Assign, NoRequest, Targets
  <2>4. /\ assigned' \in [Fans -> Curves \cup {None}]
        /\ curveStore' \in [Fans -> Curves \cup {None}]
        /\ manualStore' \in [Fans -> Levels \cup {None}]
        /\ written' \in [Fans -> Levels \cup {None}]
        /\ held' \in [Fans -> Levels \cup {None}]
    <3>1. CASE a.fan \in present
      <4>1. /\ curveStore' = [curveStore EXCEPT ![a.fan] = a.to]
            /\ manualStore' = [manualStore EXCEPT ![a.fan] = None]
            /\ assigned' = [assigned EXCEPT ![a.fan] = a.to]
            /\ written' = [written EXCEPT ![a.fan] = None]
            /\ held' = [held EXCEPT ![a.fan] = None]
        BY <1>4, <3>1 DEF Assign
      <4> QED
        BY <2>1, <4>1
    <3>2. CASE a.fan \notin present
      BY <1>4, <3>2 DEF Assign
    <3> QED
      BY <3>1, <3>2
  <2> QED
    BY <1>4, <2>2, <2>3, <2>4 DEF Assign
<1>5. CASE SaveAssigns
  <2>1. batch' \in Batch
    BY <1>5, BatchType DEF SaveAssigns
  <2> QED
    BY <1>5, <2>1 DEF SaveAssigns
<1>6. CASE EndAssigns
  <2>1. AfterAssigns \in {"assign", "settings", "calibrate", "ramps"}
    BY DEF AfterAssigns
  <2> QED
    BY <1>6, <2>1, ProceedType, ShownType DEF EndAssigns
<1>7. CASE Tune
  <2>1. /\ batch.settings[batch.next].fan \in Fans
        /\ batch.settings[batch.next].to \in Settings
    <3>1. /\ batch.settings \in Seq([fan: Fans, to: Settings])
          /\ batch.next \in Nat \ {0}
      BY DEF Batch
    <3>2. batch.settings[batch.next] \in [fan: Fans, to: Settings]
      BY <1>7, <3>1, EntryType DEF Tune
    <3> QED
      BY <3>2
  <2>2. batch' \in Batch
    BY <1>7, BatchType DEF Tune
  <2> QED
    BY <1>7, <2>1, <2>2 DEF Tune
<1>8. CASE SaveSettings
  <2>1. batch' \in Batch
    BY <1>8, BatchType DEF SaveSettings
  <2> QED
    BY <1>8, <2>1 DEF SaveSettings
<1>9. CASE EndRetarget
  <2>1. (IF batch.calibrate THEN "calibrate" ELSE "ramps")
          \in {"assign", "settings", "calibrate", "ramps"}
    OBVIOUS
  <2> QED
    BY <1>9, <2>1, ProceedType, ShownType DEF EndRetarget
<1> QED
  BY <1>1, <1>2, <1>3, <1>4, <1>5, <1>6, <1>7, <1>8, <1>9 DEF Applying

LEMMA LadderWriteType ==
  ASSUME TypeInv, NEW level \in Ladder, LadderWrite(level, present)
  PROVE  drive' \in [Fans -> Drive] /\ faults' \in Nat
<1>1. level \in Levels
  BY LevelsAssumption
<1>2. PICK W \in SUBSET present :
        /\ faults' = IF W = present THEN faults ELSE faults + 1
        /\ drive' = [f \in Fans |->
             IF f \in W THEN Pinned(Unramped(drive[f]), level)
                        ELSE Unramped(drive[f])]
  BY DEF LadderWrite
<1>3. \A f \in Fans : /\ Unramped(drive[f]) \in Drive
                      /\ Pinned(Unramped(drive[f]), level) \in Drive
  BY <1>1, DriveType DEF TypeInv, TypeOK
<1> QED
  BY <1>2, <1>3 DEF TypeInv, TypeOK

LEMMA CalibratingType ==
  ASSUME TypeInv, Calibrating \/ NextDuty PROVE TypeInv'
<1> USE DEF TypeInv, TypeOK, TodoOK, sessionVars, curveVars, storeVars, viewVars,
           ClearCurve
<1>1. CASE StartCalibration
  <2>1. drive' \in [Fans -> Drive] /\ faults' \in Nat
    BY <1>1, LadderWriteType DEF StartCalibration
  <2>2. \A f \in Fans : PlanFor(f) \in Targets
    BY DEF PlanFor, Drive, Batch, Targets
  <2>3. /\ restore' \in [Fans -> Targets \cup {None}]
        /\ \A f \in present : restore'[f] # None
    BY <1>1, <2>2, MarkersAssumption DEF StartCalibration, Targets
  <2> QED
    BY <1>1, <2>1, <2>3 DEF StartCalibration, Publish
<1>2. CASE SkipCalibration
  <2>1. drive' \in [Fans -> Drive]
    BY <1>2, DriveType DEF SkipCalibration
  <2> QED
    BY <1>2, <2>1, ShownType DEF SkipCalibration
<1>3. CASE NextDuty
  <2>1. drive' \in [Fans -> Drive] /\ faults' \in Nat
    BY <1>3, LadderWriteType DEF NextDuty
  <2> QED
    BY <1>3, <2>1 DEF NextDuty, Publish
<1>4. CASE EndLadder
  BY <1>4 DEF EndLadder
<1>5. ASSUME NEW f \in Fans, Restore(f) PROVE TypeInv'
  <2>1. restore[f] \in Targets
    BY <1>5 DEF Restore
  <2>2. manualStore' \in [Fans -> Levels \cup {None}]
    BY <1>5, <2>1 DEF Restore, StoredTarget, Targets
  <2> QED
    BY <1>5, <2>1, <2>2, RequestTargetType DEF Restore
<1>6. CASE EndCalibration
  <2>1. calStore' \in [Fans -> Cals] /\ snap' \in [Fans -> Targets]
    BY <1>6 DEF EndCalibration, Snapshots
  <2>2. disk' \in [curves: [Fans -> Curves \cup {None}],
                   manual: [Fans -> Levels \cup {None}],
                   settings: [Fans -> Settings], cals: [Fans -> Cals]]
    BY <1>6, <2>1 DEF EndCalibration
  <2>3. drive' = drive /\ Proceed("ramps") /\ PublishReady
    BY <1>6 DEF EndCalibration
  <2> QED
    BY <1>6, <2>1, <2>2, <2>3, ProceedType, ShownType DEF EndCalibration, Nobody
<1> QED
  BY <1>1, <1>2, <1>3, <1>4, <1>5, <1>6 DEF Calibrating

(* A curve that is defined asks for levels.                                *)
LEMMA CurveTargetsType ==
  ASSUME TypeOK, NEW f \in Fans, NEW r \in Readings,
         assigned[f] # None, defs[assigned[f]] # None
  PROVE  CurveTargets(f, r) \subseteq Levels
<1>1. defs[assigned[f]] \in Shapes
  BY DEF TypeOK, Defs
<1> QED
  BY <1>1, MapsAssumption DEF CurveTargets, TypeOK

LEMMA PollingType ==
  ASSUME TypeInv, Polling PROVE TypeInv'
<1> USE DEF TypeInv, TypeOK, TodoOK, sessionVars, curveVars, storeVars, viewVars,
           ClearCurve
<1>1. CASE EndRamps
  <2>1. batch' \in Batch
    <3>1. PICK due \in BOOLEAN : batch' = [batch EXCEPT !.due = due]
      BY <1>1 DEF EndRamps
    <3> QED
      BY <3>1, BatchType
  <2> QED
    BY <1>1, <2>1 DEF EndRamps
<1>2. CASE Update
  BY <1>2, ShownType, EmptyBatchType DEF Update, Snapshots
<1>3. CASE NoUpdate
  BY <1>3, EmptyBatchType DEF NoUpdate
<1>4. ASSUME NEW f \in Fans, TickRamp(f) PROVE TypeInv'
  <2>1. /\ drive' \in [Fans -> Drive] /\ wrote' \in BOOLEAN /\ faults' \in Nat
        /\ \A g \in Fans \ {f} : drive'[g] = drive[g]
    <3>1. drive[f] \in Drive /\ drive[f].ramp \in Levels
      BY <1>4 DEF TickRamp, Drive
    <3>2. CASE UNCHANGED <<drive, wrote, faults>>
      BY <3>2
    <3>3. CASE ~UNCHANGED <<drive, wrote, faults>>
      <4>1. PICK done \in BOOLEAN, level \in Levels, ok \in BOOLEAN :
              LET d == IF done THEN Unramped(drive[f])
                               ELSE Ramped(drive[f], drive[f].ramp, level)
              IN  IF level = drive[f].last
                   THEN /\ drive' = [drive EXCEPT ![f] = d]
                        /\ UNCHANGED <<wrote, faults>>
                   ELSE /\ drive' = [drive EXCEPT
                             ![f] = IF ok THEN Pinned(d, level) ELSE d]
                        /\ wrote' = TRUE
                        /\ faults' = FaultCount(f, ok)
        BY <1>4, <3>3 DEF TickRamp
      <4> DEFINE d == IF done THEN Unramped(drive[f])
                              ELSE Ramped(drive[f], drive[f].ramp, level)
      <4>2. d \in Drive
        BY <3>1, DriveType
      <4>3. Pinned(d, level) \in Drive
        BY <4>2, DriveType
      <4>4. CASE level = drive[f].last
        BY <4>1, <4>2, <4>4
      <4>5. CASE level # drive[f].last
        <5>1. (IF ok THEN Pinned(d, level) ELSE d) \in Drive
          BY <4>2, <4>3
        <5>2. /\ drive' = [drive EXCEPT ![f] = IF ok THEN Pinned(d, level) ELSE d]
              /\ wrote' = TRUE /\ faults' = FaultCount(f, ok)
          BY <4>1, <4>5
        <5> HIDE DEF d
        <5> QED
          BY <5>1, <5>2 DEF FaultCount
      <4> QED
        BY <4>4, <4>5
    <3> QED
      BY <3>2, <3>3
  <2> QED
    BY <1>4, <2>1 DEF TickRamp
<1>5. ASSUME NEW f \in Fans, DropVanished(f) PROVE TypeInv'
  <2>1. drive' \in [Fans -> Drive] /\ wrote' \in BOOLEAN /\ faults' \in Nat
    BY <1>5, RequestTargetType DEF DropVanished, NoRequest, Targets
  <2> QED
    BY <1>5, <2>1 DEF DropVanished
<1>6. ASSUME NEW f \in Fans, HoldReading(f) PROVE TypeInv'
  BY <1>6 DEF HoldReading
<1>7. ASSUME NEW f \in Fans, NEW r \in Readings, DriveByCurve(f, r)
      PROVE  TypeInv'
  <2>2. CurveTargets(f, r) \subseteq Levels
    BY <1>7, CurveTargetsType DEF DriveByCurve
  <2>3. PICK to \in CurveTargets(f, r) :
          /\ held' = [held EXCEPT ![f] =
               IF defs[assigned[f]] \in Smooth THEN to ELSE None]
          /\ written' = [written EXCEPT ![f] = Command(f, to)]
          /\ IF written[f] # Command(f, to)
               THEN RequestTarget(f, to, TRUE)
               ELSE /\ drive' = [drive EXCEPT ![f].requested = to]
                    /\ UNCHANGED <<wrote, faults>>
    BY <1>7 DEF DriveByCurve
  <2>4. to \in Levels /\ to \in Targets /\ Command(f, to) \in Levels
    BY <2>2, MapsAssumption DEF Command, Targets
  <2>5. drive' \in [Fans -> Drive] /\ wrote' \in BOOLEAN /\ faults' \in Nat
    <3>1. CASE written[f] # Command(f, to)
      BY <2>3, <2>4, <3>1, RequestTargetType
    <3>2. CASE written[f] = Command(f, to)
      <4>1. [drive[f] EXCEPT !.requested = to] \in Drive
        BY <2>4, DriveType
      <4>2. drive' = [drive EXCEPT ![f] = [drive[f] EXCEPT !.requested = to]]
        BY <2>3, <3>2
      <4>3. wrote' = wrote /\ faults' = faults
        BY <2>3, <3>2
      <4> QED
        BY <4>1, <4>2, <4>3
    <3> QED
      BY <3>1, <3>2
  <2> QED
    BY <1>7, <2>3, <2>4, <2>5 DEF DriveByCurve
<1> QED
  BY <1>1, <1>2, <1>3, <1>4, <1>5, <1>6, <1>7 DEF Polling

LEMMA DropSessionType ==
  ASSUME TypeInv, DropSession
  PROVE  /\ drive' \in [Fans -> Drive] /\ faults' \in Nat
         /\ batch' \in Batch /\ todo' = {} /\ wrote' = FALSE
         /\ open' = FALSE /\ present' = {}
         /\ assigned' \in [Fans -> Curves \cup {None}]
         /\ written' \in [Fans -> Levels \cup {None}]
         /\ held' \in [Fans -> Levels \cup {None}]
         /\ snap' \in [Fans -> Targets]
         /\ restore' \in [Fans -> Targets \cup {None}]
<1>1. drive' \in [Fans -> Drive] /\ faults' \in Nat
  BY AbandonedType DEF DropSession, Touched, TypeInv, TypeOK
<1> QED
  BY <1>1, EmptyBatchType DEF DropSession, ClearSession, Nobody, Targets

LEMMA EndingType ==
  ASSUME TypeInv, Ending \/ Crash PROVE TypeInv'
<1> USE DEF TypeInv, TypeOK, TodoOK, sessionVars, curveVars, storeVars, viewVars,
           ClearCurve
<1>1. CASE Boot
  <2>1. /\ curveStore' \in [Fans -> Curves \cup {None}]
        /\ manualStore' \in [Fans -> Levels \cup {None}]
        /\ settingsStore' \in [Fans -> Settings] /\ calStore' \in [Fans -> Cals]
    BY <1>1 DEF Boot
  <2> QED
    BY <1>1, <2>1 DEF Boot, Publish
<1>2. ASSUME NEW r \in Requests, Stop(r) PROVE TypeInv'
  <2>1. DropSession /\ pc' = "stopped"
    BY <1>2 DEF Stop
  <2>2. UNCHANGED <<waiting, defs, storeVars, disk, viewVars>>
    BY <1>2 DEF Stop
  <2> QED
    BY <2>1, <2>2, DropSessionType
<1>3. ASSUME NEW r \in Requests, AbortCalibration(r) PROVE TypeInv'
  <2>1. /\ DropSession /\ pc' = "top" /\ waiting' = FALSE
        /\ latest' = "Detecting" /\ shown' = shown
    BY <1>3 DEF AbortCalibration, Publish
  <2>2. UNCHANGED <<defs, storeVars, disk>>
    BY <1>3 DEF AbortCalibration
  <2> QED
    BY <2>1, <2>2, DropSessionType
<1>4. CASE Crash
  BY <1>4, AbandonedType, EmptyBatchType
  DEF Crash, ClearSession, Nobody, Targets
<1> QED
  BY <1>1, <1>2, <1>3, <1>4 DEF Ending

LEMMA TypeStep == TypeInv /\ [Next]_vars => TypeInv'
<1> SUFFICES ASSUME TypeInv, [Next]_vars PROVE TypeInv'
  OBVIOUS
<1>1. CASE UNCHANGED vars
  BY <1>1 DEF vars, sessionVars, curveVars, storeVars, viewVars, TypeInv,
     TypeOK, TodoOK
<1> QED
  BY <1>1, DetectionType, HearingType, BatchingType, ApplyingType,
     CalibratingType, PollingType, EndingType
  DEF Next, Orderly, Working

(* Every variable of the worker stays within its type, and every loop      *)
(* visits only fans that have what it looks at, whatever clients send,     *)
(* hardware fails or kills the process.                                    *)
THEOREM TypeCorrect == Spec => []TypeOK
<1>1. TypeInv => TypeOK
  BY DEF TypeInv
<1> QED
  BY <1>1, InitType, TypeStep, PTL DEF Spec

-----------------------------------------------------------------------------
(* What goes with the hardware session: the state clients are told, what   *)
(* curves leave behind, and the fans an orderly stop hands back.           *)

Applied == {"targets", "assign", "assigned", "settings", "retarget",
            "calibrate", "ramps", "curves"}
WithSession == Applied \cup {"resume", "ladder", "restore"}

(* Where the worker has a session, and what it told before it left a loop. *)
KindInv ==
  /\ pc \in {"top", "stopped", "crashed"} => ~open
  /\ pc \in WithSession => open
  /\ pc = "top" => latest # "Ready"
  /\ pc \in Applied => latest = "Ready"
  /\ PublishedKindTrue

(* Without a session no fan is on a curve.                                 *)
Clean(f) == written[f] = None /\ held[f] = None
CurveInv ==
  /\ KindInv
  /\ ~open => \A f \in Fans : assigned[f] = None /\ Clean(f)
  /\ NoStaleCurveState

LEMMA InitSession == Init => CurveInv
  BY DEF Init, CurveInv, KindInv, NoStaleCurveState, PublishedKindTrue, Clean,
     Nobody, Applied, WithSession

-----------------------------------------------------------------------------
LEMMA KindDetection ==
  ASSUME KindInv, Detection PROVE KindInv'
<1> USE DEF KindInv, PublishedKindTrue, Applied, WithSession, sessionVars, viewVars
<1>1. CASE Detect
  BY <1>1 DEF Detect
<1>2. CASE EndDetect
  BY <1>2 DEF EndDetect, PublishReady
<1>3. CASE DetectFails
  BY <1>3 DEF DetectFails, Publish
<1>4. CASE NotDue
  BY <1>4 DEF NotDue
<1>5. ASSUME NEW f \in Fans, Resume(f) PROVE KindInv'
  BY <1>5 DEF Resume
<1> QED
  BY <1>1, <1>2, <1>3, <1>4, <1>5 DEF Detection

LEMMA KindBatching ==
  ASSUME KindInv, Hearing \/ Batching PROVE KindInv'
<1> USE DEF KindInv, PublishedKindTrue, Applied, WithSession, sessionVars, viewVars
<1>1. ASSUME NEW r \in Requests, Take(r) \/ Pump(r) PROVE KindInv'
  BY <1>1 DEF Take, Pump
<1>2. CASE BeginBatch
  BY <1>2 DEF BeginBatch
<1>3. CASE DiscardBatch
  BY <1>3 DEF DiscardBatch
<1>4. CASE Redetect
  BY <1>4 DEF Redetect, DropSession, ClearSession, Publish
<1> QED
  BY <1>1, <1>2, <1>3, <1>4 DEF Hearing, Batching

LEMMA KindApplying ==
  ASSUME KindInv, Applying PROVE KindInv'
<1> USE DEF KindInv, PublishedKindTrue, Applied, WithSession, sessionVars, viewVars
<1>1. ASSUME NEW f \in Fans, ServeTarget(f) \/ Retarget(f) PROVE KindInv'
  BY <1>1 DEF ServeTarget, Retarget
<1>2. CASE EndTargets
  BY <1>2 DEF EndTargets, Proceed, AfterTargets, AfterAssigns
<1>3. CASE Assign
  BY <1>3 DEF Assign
<1>4. CASE SaveAssigns
  BY <1>4 DEF SaveAssigns
<1>5. CASE EndAssigns
  BY <1>5 DEF EndAssigns, Proceed, AfterAssigns, PublishReady
<1>6. CASE Tune
  BY <1>6 DEF Tune
<1>7. CASE SaveSettings
  BY <1>7 DEF SaveSettings
<1>8. CASE EndRetarget
  BY <1>8 DEF EndRetarget, Proceed, PublishReady
<1> QED
  BY <1>1, <1>2, <1>3, <1>4, <1>5, <1>6, <1>7, <1>8 DEF Applying

LEMMA KindCalibrating ==
  ASSUME KindInv, Calibrating \/ NextDuty PROVE KindInv'
<1> USE DEF KindInv, PublishedKindTrue, Applied, WithSession, sessionVars, viewVars
<1>1. CASE StartCalibration
  BY <1>1 DEF StartCalibration, Publish
<1>2. CASE SkipCalibration
  BY <1>2 DEF SkipCalibration, PublishReady
<1>3. CASE NextDuty
  BY <1>3 DEF NextDuty, Publish
<1>4. CASE EndLadder
  BY <1>4 DEF EndLadder
<1>5. ASSUME NEW f \in Fans, Restore(f) PROVE KindInv'
  BY <1>5 DEF Restore
<1>6. CASE EndCalibration
  BY <1>6 DEF EndCalibration, Proceed, PublishReady
<1> QED
  BY <1>1, <1>2, <1>3, <1>4, <1>5, <1>6 DEF Calibrating

LEMMA KindPolling ==
  ASSUME KindInv, Polling PROVE KindInv'
<1> USE DEF KindInv, PublishedKindTrue, Applied, WithSession, sessionVars, viewVars
<1>1. CASE EndRamps
  BY <1>1 DEF EndRamps
<1>2. CASE Update
  BY <1>2 DEF Update, PublishReady
<1>3. CASE NoUpdate
  BY <1>3 DEF NoUpdate
<1>4. ASSUME NEW f \in Fans, TickRamp(f) PROVE KindInv'
  BY <1>4 DEF TickRamp
<1>5. ASSUME NEW f \in Fans, DropVanished(f) \/ HoldReading(f) PROVE KindInv'
  BY <1>5 DEF DropVanished, HoldReading
<1>6. ASSUME NEW f \in Fans, NEW r \in Readings, DriveByCurve(f, r) PROVE KindInv'
  BY <1>6 DEF DriveByCurve
<1> QED
  BY <1>1, <1>2, <1>3, <1>4, <1>5, <1>6 DEF Polling

LEMMA KindEnding ==
  ASSUME KindInv, Ending \/ Crash PROVE KindInv'
<1> USE DEF KindInv, PublishedKindTrue, Applied, WithSession, sessionVars, viewVars
<1>1. CASE Boot
  BY <1>1 DEF Boot, Publish, Running
<1>2. ASSUME NEW r \in Requests, Stop(r) PROVE KindInv'
  BY <1>2 DEF Stop, DropSession, ClearSession
<1>3. ASSUME NEW r \in Requests, AbortCalibration(r) PROVE KindInv'
  BY <1>3 DEF AbortCalibration, DropSession, ClearSession, Publish
<1>4. CASE Crash
  BY <1>4 DEF Crash, ClearSession
<1> QED
  BY <1>1, <1>2, <1>3, <1>4 DEF Ending

LEMMA KindStep == KindInv /\ [Next]_vars => KindInv'
<1> SUFFICES ASSUME KindInv, [Next]_vars PROVE KindInv'
  OBVIOUS
<1>1. CASE UNCHANGED vars
  BY <1>1 DEF vars, sessionVars, viewVars, KindInv, PublishedKindTrue,
     Applied, WithSession
<1> QED
  BY <1>1, KindDetection, KindBatching, KindApplying, KindCalibrating,
     KindPolling, KindEnding
  DEF Next, Orderly, Working

(* Whatever was requested, dropped or failed: between batches clients have *)
(* been told Ready exactly while a session is open (publish and            *)
(* publish_ready, on every path through the loop).                         *)
THEOREM KindCorrect == Spec => []PublishedKindTrue
<1>1. Init => KindInv
  BY InitSession DEF CurveInv
<1>2. KindInv => PublishedKindTrue
  BY DEF KindInv
<1> QED
  BY <1>1, <1>2, KindStep, PTL DEF Spec
-----------------------------------------------------------------------------
(* A fan's curve state as the loop over fans or assignments leaves it.     *)
Tidy(curve, w, h) == curve = None => w = None /\ h = None

LEMMA CurveKept ==
  ASSUME CurveInv, UNCHANGED <<open, curveVars>>, KindInv' PROVE CurveInv'
  BY DEF CurveInv, NoStaleCurveState, Clean, curveVars

LEMMA CurveDropped ==
  ASSUME ClearSession, KindInv' PROVE CurveInv'
  BY DEF ClearSession, Nobody, CurveInv, NoStaleCurveState, Clean

(* While a session is open, one fan's state may change if it stays tidy.   *)
LEMMA CurveChanged ==
  ASSUME TypeInv, CurveInv, KindInv', open, open' = open, NEW f \in Fans,
         NEW c, NEW w, NEW h, Tidy(c, w, h),
         assigned' = [assigned EXCEPT ![f] = c],
         written' = [written EXCEPT ![f] = w], held' = [held EXCEPT ![f] = h]
  PROVE  CurveInv'
<1>1. ASSUME NEW g \in Fans, assigned'[g] = None
      PROVE  written'[g] = None /\ held'[g] = None
  BY <1>1 DEF TypeInv, TypeOK, CurveInv, NoStaleCurveState, Tidy
<1> QED
  BY <1>1 DEF CurveInv, NoStaleCurveState

LEMMA CurveDetection ==
  ASSUME TypeInv, CurveInv, Detection PROVE CurveInv'
<1>0. KindInv /\ KindInv'
  BY KindDetection DEF CurveInv
<1>1. CASE Detect
  <2>1. ~open /\ open' /\ written' = written /\ held' = held
    BY <1>0, <1>1 DEF Detect, KindInv
  <2> QED
    BY <1>0, <2>1 DEF CurveInv, NoStaleCurveState, Clean
<1>2. CASE EndDetect \/ DetectFails \/ NotDue
  BY <1>0, <1>2, CurveKept DEF EndDetect, DetectFails, NotDue, sessionVars
<1>3. ASSUME NEW f \in Fans, Resume(f) PROVE CurveInv'
  BY <1>0, <1>3, CurveKept DEF Resume, sessionVars
<1> QED
  BY <1>1, <1>2, <1>3 DEF Detection

LEMMA CurveBatching ==
  ASSUME CurveInv, Hearing \/ Batching PROVE CurveInv'
<1>0. KindInv /\ KindInv'
  BY KindBatching DEF CurveInv
<1>1. ASSUME NEW r \in Requests, Take(r) \/ Pump(r) PROVE CurveInv'
  BY <1>0, <1>1, CurveKept DEF Take, Pump, sessionVars
<1>2. CASE BeginBatch
  <2>1. CASE batch.defs = None
    BY <1>0, <1>2, <2>1, CurveKept DEF BeginBatch, NewDefs, sessionVars, curveVars
  <2>2. CASE batch.defs # None
    BY <1>0, <1>2, <2>2
    DEF BeginBatch, NewDefs, sessionVars, Nobody, CurveInv, NoStaleCurveState, Clean
  <2> QED
    BY <2>1, <2>2
<1>3. CASE DiscardBatch
  BY <1>0, <1>3, CurveKept DEF DiscardBatch, sessionVars
<1>4. CASE Redetect
  BY <1>0, <1>4, CurveDropped DEF Redetect, DropSession
<1> QED
  BY <1>1, <1>2, <1>3, <1>4 DEF Hearing, Batching

LEMMA CurveApplying ==
  ASSUME TypeInv, CurveInv, Applying PROVE CurveInv'
<1>0. KindInv /\ KindInv' /\ open
  BY KindApplying DEF CurveInv, KindInv, WithSession, Applied, Applying, ServeTarget,
     Retarget, EndTargets, Assign, SaveAssigns, EndAssigns, Tune, SaveSettings, EndRetarget
<1>1. ASSUME NEW f \in Fans, ServeTarget(f) PROVE CurveInv'
  <2>1. CASE f \in present /\ assigned[f] # None
    <3>1. /\ assigned' = [assigned EXCEPT ![f] = None]
          /\ written' = [written EXCEPT ![f] = None]
          /\ held' = [held EXCEPT ![f] = None] /\ open' = open
      BY <1>1, <2>1 DEF ServeTarget, ClearCurve, sessionVars
    <3> QED
      BY <1>0, <3>1, CurveChanged DEF Tidy
  <2>2. CASE ~(f \in present /\ assigned[f] # None)
    <3>1. UNCHANGED <<open, curveVars>>
      BY <1>1, <2>2 DEF ServeTarget, sessionVars
    <3> QED
      BY <1>0, <3>1, CurveKept
  <2> QED
    BY <2>1, <2>2
<1>2. ASSUME NEW f \in Fans, Retarget(f) PROVE CurveInv'
  BY <1>0, <1>2, CurveKept DEF Retarget, sessionVars
<1>3. CASE Assign
  <2> DEFINE f == batch.assigns[batch.next].fan
             c == batch.assigns[batch.next].to
  <2>1. CASE f \in present
    <3>1. /\ assigned' = [assigned EXCEPT ![f] = c]
          /\ written' = [written EXCEPT ![f] = None]
          /\ held' = [held EXCEPT ![f] = None] /\ open' = open
      BY <1>3, <2>1 DEF Assign, ClearCurve, sessionVars
    <3>2. f \in Fans
      BY <2>1 DEF TypeInv, TypeOK
    <3> QED
      BY <1>0, <3>1, <3>2, CurveChanged DEF Tidy
  <2>2. CASE f \notin present
    <3>1. UNCHANGED <<open, curveVars>>
      BY <1>3, <2>2 DEF Assign, sessionVars
    <3> QED
      BY <1>0, <3>1, CurveKept
  <2> QED
    BY <2>1, <2>2
<1>4. CASE EndTargets \/ SaveAssigns \/ EndAssigns \/ Tune \/ SaveSettings \/ EndRetarget
  BY <1>0, <1>4, CurveKept
  DEF EndTargets, SaveAssigns, EndAssigns, Tune, SaveSettings, EndRetarget, sessionVars
<1> QED
  BY <1>1, <1>2, <1>3, <1>4 DEF Applying

LEMMA CurveCalibrating ==
  ASSUME CurveInv, Calibrating \/ NextDuty PROVE CurveInv'
<1>0. KindInv'
  BY KindCalibrating DEF CurveInv
<1>1. UNCHANGED <<open, curveVars>>
  BY DEF Calibrating, StartCalibration, SkipCalibration, NextDuty, EndLadder, Restore,
     EndCalibration, sessionVars
<1> QED
  BY <1>0, <1>1, CurveKept

LEMMA CurvePolling ==
  ASSUME TypeInv, CurveInv, Polling PROVE CurveInv'
<1>0. KindInv /\ KindInv'
  BY KindPolling DEF CurveInv
<1>1. CASE EndRamps \/ Update \/ NoUpdate
  BY <1>0, <1>1, CurveKept DEF EndRamps, Update, NoUpdate, sessionVars
<1>2. ASSUME NEW f \in Fans, TickRamp(f) \/ HoldReading(f) PROVE CurveInv'
  <2>1. UNCHANGED <<open, curveVars>>
    BY <1>2 DEF TickRamp, HoldReading, sessionVars
  <2> QED
    BY <1>0, <2>1, CurveKept
<1>3. ASSUME NEW f \in Fans, DropVanished(f) PROVE CurveInv'
  <2>1. /\ assigned' = [assigned EXCEPT ![f] = assigned[f]] /\ open /\ open' = open
        /\ written' = [written EXCEPT ![f] = None] /\ held' = [held EXCEPT ![f] = None]
    BY <1>0, <1>3 DEF DropVanished, ClearCurve, sessionVars, KindInv, WithSession,
       Applied, TypeInv, TypeOK
  <2> QED
    BY <1>0, <2>1, CurveChanged DEF Tidy
<1>4. ASSUME NEW f \in Fans, NEW r \in Readings, DriveByCurve(f, r) PROVE CurveInv'
  <2>1. /\ assigned' = [assigned EXCEPT ![f] = assigned[f]] /\ open /\ open' = open
        /\ assigned[f] # None
    BY <1>0, <1>4 DEF DriveByCurve, sessionVars, KindInv, WithSession, Applied,
       TypeInv, TypeOK, TodoOK
  <2>2. PICK to \in CurveTargets(f, r) :
          /\ held' = [held EXCEPT ![f] = IF defs[assigned[f]] \in Smooth THEN to ELSE None]
          /\ written' = [written EXCEPT ![f] = Command(f, to)]
    BY <1>4 DEF DriveByCurve
  <2> QED
    BY <1>0, <2>1, <2>2, CurveChanged DEF Tidy
<1> QED
  BY <1>1, <1>2, <1>3, <1>4 DEF Polling

LEMMA CurveEnding ==
  ASSUME CurveInv, Ending \/ Crash PROVE CurveInv'
<1>0. KindInv'
  BY KindEnding DEF CurveInv
<1>1. CASE Boot
  BY <1>0, <1>1, CurveKept DEF Boot
<1>2. ASSUME NEW r \in Requests, Stop(r) \/ AbortCalibration(r) PROVE CurveInv'
  BY <1>0, <1>2, CurveDropped DEF Stop, AbortCalibration, DropSession
<1>3. CASE Crash
  BY <1>0, <1>3, CurveDropped DEF Crash
<1> QED
  BY <1>1, <1>2, <1>3 DEF Ending

LEMMA CurveStep == TypeInv /\ CurveInv /\ [Next]_vars => CurveInv'
<1> SUFFICES ASSUME TypeInv, CurveInv, [Next]_vars PROVE CurveInv'
  OBVIOUS
<1>1. CASE UNCHANGED vars
  <2>1. KindInv'
    BY <1>1, KindStep DEF CurveInv
  <2> QED
    BY <1>1, <2>1, CurveKept DEF vars, sessionVars
<1> QED
  BY <1>1, CurveDetection, CurveBatching, CurveApplying, CurveCalibrating,
     CurvePolling, CurveEnding
  DEF Next, Orderly, Working

(* A fan that is off its curve keeps nothing of it: no remembered write,   *)
(* no held target that a later curve could take for its own, on whichever  *)
(* path it left (a target, an empty assignment, new definitions, a         *)
(* detection that finds other fans, the end of the session).               *)
THEOREM CurveStateCorrect == Spec => []NoStaleCurveState
<1>1. Init => TypeInv /\ CurveInv
  BY InitType, InitSession
<1>2. TypeInv /\ CurveInv /\ [Next]_vars => (TypeInv /\ CurveInv)'
  BY TypeStep, CurveStep
<1>3. CurveInv => NoStaleCurveState
  BY DEF CurveInv
<1> QED
  BY <1>1, <1>2, <1>3, PTL DEF Spec
-----------------------------------------------------------------------------
(* The session knows of every control it pinned, and restores those.       *)
Known(d) == d.ctl \in Levels => d.touched
StopInv ==
  /\ TypeInv
  /\ faults = 0 => \A f \in Fans : Known(drive[f])
  /\ pc = "stopped" /\ faults = 0 => \A f \in Fans : drive[f].ctl \notin Levels

LEMMA KnownKept ==
  ASSUME NEW d \in Drive
  PROVE  /\ \A level \in Levels : Known(Pinned(d, level))
         /\ \A to \in Levels \cup {None}, last \in Levels \cup {None} :
              Known(d) => Known(Ramped(d, to, last))
         /\ Known(d) => Known(Unramped(d)) /\ Known(Reopened(d))
         /\ \A to \in Levels : Known(d) => Known([d EXCEPT !.requested = to])
         /\ Known(Released(d))
  BY MarkersAssumption
  DEF Drive, Known, Pinned, Ramped, Unramped, Released, Reopened

LEMMA OutcomesKnown ==
  ASSUME TypeInv, NEW f \in Fans, NEW to \in Targets, Known(drive[f])
  PROVE  \A o \in Outcomes(f, to) : Known(o.drive)
<1>1. drive[f] \in Drive /\ calStore[f] \in Cals /\ settingsStore[f] \in Settings
  BY DEF TypeInv, TypeOK
<1>2. CASE to = Automatic
  BY <1>1, <1>2, KnownKept DEF Outcomes
<1>3. CASE to # Automatic
  <2> DEFINE start == Start[calStore[f]][settingsStore[f]]
             asked == [drive[f] EXCEPT !.requested = to]
  <2>1. to \in Levels /\ start \in Levels \cup {None} /\ Command(f, to) \in Levels
    BY <1>1, <1>3, MapsAssumption DEF Targets, Command
  <2>2. asked \in Drive /\ Known(asked)
    BY <1>1, <2>1, DriveType, KnownKept
  <2>3. \A o \in Outcomes(f, to) :
          \/ o = [drive |-> Ramped(asked, to, None), wrote |-> FALSE]
          \/ o = [drive |-> Pinned(Unramped(asked), Command(f, to)),
                  wrote |-> TRUE]
          \/ /\ start \in Levels
             /\ o = [drive |-> Pinned(Ramped(asked, to, start), start),
                     wrote |-> TRUE]
    BY <1>3, <2>1 DEF Outcomes
  <2> HIDE DEF start, asked
  <2>4. /\ Known(Ramped(asked, to, None))
        /\ Known(Pinned(Unramped(asked), Command(f, to)))
        /\ start \in Levels => Known(Pinned(Ramped(asked, to, start), start))
    BY <2>1, <2>2, DriveType, KnownKept
  <2> QED
    BY <2>3, <2>4
<1> QED
  BY <1>2, <1>3

LEMMA RequestKnown ==
  ASSUME StopInv, NEW f \in Fans, NEW to \in Targets, NEW counts \in BOOLEAN,
         RequestTarget(f, to, counts)
  PROVE  faults' = 0 => faults = 0 /\ \A g \in Fans : Known(drive'[g])
<1> SUFFICES ASSUME faults' = 0
             PROVE  faults = 0 /\ \A g \in Fans : Known(drive'[g])
  OBVIOUS
<1>1. PICK o \in Outcomes(f, to), ok \in BOOLEAN :
        /\ drive' = [drive EXCEPT ![f] = IF ok THEN o.drive
                                              ELSE Unwritten(o.drive, f)]
        /\ faults' = FaultCount(f, ok)
  BY DEF RequestTarget
<1>2. faults = 0
  BY <1>1 DEF FaultCount, StopInv, TypeInv, TypeOK
<1>3. \A g \in Fans : Known(drive[g])
  BY <1>2 DEF StopInv
<1>4. o.drive \in Drive /\ Known(o.drive) /\ drive \in [Fans -> Drive]
  BY <1>3, OutcomesType, OutcomesKnown DEF StopInv, TypeInv, TypeOK
<1>5. Known(Unwritten(o.drive, f))
  BY <1>3, <1>4 DEF Known, Unwritten, Drive
<1> QED
  BY <1>1, <1>2, <1>3, <1>4, <1>5

LEMMA InitStop == Init => StopInv
<1> SUFFICES ASSUME Init PROVE StopInv
  OBVIOUS
<1> QED
  BY InitType, MarkersAssumption DEF Init, StopInv, Known

(* A step either leaves the controls alone, or is one of these.            *)
LEMMA StopStep == StopInv /\ [Orderly]_vars => StopInv'
<1> SUFFICES ASSUME StopInv, [Orderly]_vars PROVE StopInv'
  OBVIOUS
<1> DEFINE Safe == /\ pc' # "stopped"
                   /\ faults' = 0 => /\ faults = 0
                                     /\ \A f \in Fans : Known(drive'[f])
<1>0. TypeInv' /\ TypeInv
  BY TypeStep DEF StopInv, Next
<1> USE DEF sessionVars, curveVars, storeVars, viewVars
<1>1. CASE UNCHANGED vars
  BY <1>0, <1>1 DEF vars, StopInv
<1>2. CASE Detection
  <2>1. CASE Detect
    <3>1. \A f \in Fans : Known(drive[f]) => Known(drive'[f])
      BY <1>0, <2>1, KnownKept DEF Detect, TypeInv, TypeOK
    <3> QED
      BY <1>0, <2>1, <3>1 DEF Detect, StopInv
  <2>2. CASE EndDetect \/ DetectFails \/ NotDue
    BY <1>0, <2>2 DEF EndDetect, DetectFails, NotDue, StopInv
  <2>3. ASSUME NEW f \in Fans, Resume(f) PROVE StopInv'
    <3>1. RequestTarget(f, manualStore[f], FALSE) /\ manualStore[f] \in Targets
      BY <1>0, <2>3 DEF Resume, TypeInv, TypeOK, TodoOK, Targets
    <3>2. Safe
      BY <2>3, <3>1, RequestKnown DEF Resume
    <3> QED
      BY <1>0, <3>2 DEF StopInv
  <2> QED
    BY <1>2, <2>1, <2>2, <2>3 DEF Detection
<1>3. CASE Hearing
  BY <1>0, <1>3 DEF Hearing, Take, Pump, StopInv
<1>4. ASSUME DropSession PROVE
        faults' = 0 => \A f \in Fans : drive'[f].ctl \notin Levels
  <2>1. PICK S \in SUBSET Touched :
          /\ drive' = Abandoned(S)
          /\ faults' = IF S = Touched THEN faults ELSE faults + 1
    BY <1>4 DEF DropSession
  <2>2. faults' = 0 => S = Touched /\ faults = 0
    BY <1>0, <2>1 DEF TypeInv, TypeOK
  <2>3. \A f \in Fans :
          drive'[f].ctl = IF f \in S THEN Automatic ELSE drive[f].ctl
    BY <2>1 DEF Abandoned
  <2> QED
    BY <2>2, <2>3, MarkersAssumption DEF Touched, Known, StopInv
<1>5. CASE Batching
  BY <1>0, <1>4, <1>5 DEF Batching, BeginBatch, DiscardBatch, Redetect,
     StopInv, Known
<1>6. CASE Applying
  <2>1. ASSUME NEW f \in Fans, ServeTarget(f) PROVE Safe
    <3>1. batch.targets[f] \in Targets
      BY <1>0, <2>1 DEF ServeTarget, TypeInv, TypeOK, TodoOK, Batch
    <3> QED
      BY <2>1, <3>1, RequestKnown DEF ServeTarget
  <2>2. ASSUME NEW f \in Fans, Retarget(f) PROVE Safe
    <3>1. drive[f].requested \in Targets
      BY <1>0, <2>2 DEF Retarget, TypeInv, TypeOK, TodoOK, Drive, Targets
    <3> QED
      BY <2>2, <3>1, RequestKnown DEF Retarget
  <2>3. ASSUME Assign PROVE Safe
    <3>1. /\ batch.assigns \in Seq([fan: Fans, to: Curves \cup {None}])
          /\ batch.next \in Nat \ {0} /\ batch.next <= Len(batch.assigns)
      BY <1>0, <2>3 DEF Assign, TypeInv, TypeOK, Batch
    <3>2. batch.assigns[batch.next] \in [fan: Fans, to: Curves \cup {None}]
      BY <3>1, EntryType
    <3>3. PICK f \in Fans : batch.assigns[batch.next].fan = f
      BY <3>2
    <3>4. \/ UNCHANGED <<drive, faults>>
          \/ RequestTarget(f, Automatic, TRUE)
      BY <2>3, <3>3 DEF Assign, NoRequest
    <3>5. pc' # "stopped"
      BY <2>3 DEF Assign
    <3>6. CASE UNCHANGED <<drive, faults>>
      BY <3>5, <3>6 DEF StopInv
    <3>7. CASE RequestTarget(f, Automatic, TRUE)
      BY <3>5, <3>7, RequestKnown DEF Targets
    <3> QED
      BY <3>4, <3>6, <3>7
  <2>4. CASE EndTargets \/ SaveAssigns \/ EndAssigns
    BY <1>0, <2>4 DEF EndTargets, SaveAssigns, EndAssigns, Proceed,
       AfterTargets, AfterAssigns, StopInv
  <2>5. CASE Tune \/ SaveSettings \/ EndRetarget
    BY <1>0, <2>5 DEF Tune, SaveSettings, EndRetarget, Proceed, StopInv
  <2> QED
    BY <1>0, <1>6, <2>1, <2>2, <2>3, <2>4, <2>5 DEF Applying, StopInv
<1>7. CASE Calibrating \/ NextDuty
  <2>1. ASSUME NEW level \in Ladder, LadderWrite(level, present)
        PROVE  faults' = 0 => faults = 0 /\ \A f \in Fans : Known(drive'[f])
    <3>1. PICK W \in SUBSET present :
            /\ faults' = IF W = present THEN faults ELSE faults + 1
            /\ drive' = [f \in Fans |->
                 IF f \in W THEN Pinned(Unramped(drive[f]), level)
                            ELSE Unramped(drive[f])]
      BY <2>1 DEF LadderWrite
    <3>2. faults' = 0 => faults = 0
      BY <1>0, <3>1 DEF TypeInv, TypeOK
    <3>3. \A f \in Fans : drive[f] \in Drive /\ Unramped(drive[f]) \in Drive
      BY <1>0, DriveType DEF TypeInv, TypeOK
    <3>4. level \in Levels
      BY LevelsAssumption
    <3> QED
      BY <3>1, <3>2, <3>3, <3>4, KnownKept DEF StopInv
  <2>2. CASE StartCalibration \/ NextDuty
    BY <1>0, <2>1, <2>2 DEF StartCalibration, NextDuty, StopInv
  <2>3. CASE SkipCalibration
    <3>1. \A f \in Fans : Known(drive[f]) => Known(drive'[f])
      BY <1>0, <2>3, KnownKept DEF SkipCalibration, TypeInv, TypeOK
    <3> QED
      BY <1>0, <2>3, <3>1 DEF SkipCalibration, StopInv
  <2>4. CASE EndLadder \/ EndCalibration
    BY <1>0, <2>4 DEF EndLadder, EndCalibration, Proceed, StopInv
  <2>5. ASSUME NEW f \in Fans, Restore(f) PROVE StopInv'
    <3>1. RequestTarget(f, restore[f], FALSE) /\ restore[f] \in Targets
      BY <1>0, <2>5 DEF Restore, TypeInv, TypeOK, TodoOK
    <3>2. Safe
      BY <2>5, <3>1, RequestKnown DEF Restore
    <3> QED
      BY <1>0, <3>2 DEF StopInv
  <2> QED
    BY <1>7, <2>2, <2>3, <2>4, <2>5 DEF Calibrating
<1>8. CASE Polling
  <2>1. CASE EndRamps \/ Update \/ NoUpdate
    BY <1>0, <2>1 DEF EndRamps, Update, NoUpdate, StopInv
  <2>2. ASSUME NEW f \in Fans, HoldReading(f) PROVE StopInv'
    BY <1>0, <2>2 DEF HoldReading, StopInv
  <2>3. ASSUME NEW f \in Fans, TickRamp(f) PROVE Safe
    <3>1. drive[f] \in Drive /\ drive[f].ramp \in Levels
      BY <1>0, <2>3 DEF TickRamp, TypeInv, TypeOK, TodoOK, Drive
    <3>2. drive' = drive
          \/ \E level \in Levels :
               \E d \in {Unramped(drive[f]),
                        Ramped(drive[f], drive[f].ramp, level)} :
                 \/ drive' = [drive EXCEPT ![f] = d]
                 \/ drive' = [drive EXCEPT ![f] = Pinned(d, level)]
      BY <2>3 DEF TickRamp
    <3>3. \A level \in Levels :
            \A d \in {Unramped(drive[f]),
                     Ramped(drive[f], drive[f].ramp, level)} :
              /\ Known(drive[f]) => Known(d)
              /\ Known(Pinned(d, level))
      BY <3>1, DriveType, KnownKept
    <3>4. \A g \in Fans : Known(drive[g]) => Known(drive'[g])
      <4>1. drive \in [Fans -> Drive]
        BY <1>0 DEF TypeInv, TypeOK
      <4>2. CASE drive' = drive
        BY <4>2
      <4>3. ASSUME NEW d, Known(drive[f]) => Known(d),
                   drive' = [drive EXCEPT ![f] = d]
            PROVE  \A g \in Fans : Known(drive[g]) => Known(drive'[g])
        BY <4>1, <4>3
      <4> QED
        BY <3>2, <3>3, <4>2, <4>3
    <3>5. pc' # "stopped" /\ (faults' = 0 => faults = 0)
      BY <1>0, <2>3 DEF TickRamp, FaultCount, TypeInv, TypeOK
    <3> QED
      BY <3>4, <3>5 DEF StopInv
  <2>4. ASSUME NEW f \in Fans, DropVanished(f) PROVE Safe
    <3>1. CASE RequestTarget(f, Automatic, TRUE)
      BY <2>4, <3>1, RequestKnown DEF DropVanished, Targets
    <3>2. CASE NoRequest
      BY <2>4, <3>2 DEF DropVanished, NoRequest, StopInv
    <3> QED
      BY <2>4, <3>1, <3>2 DEF DropVanished
  <2>5. ASSUME NEW f \in Fans, NEW r \in Readings, DriveByCurve(f, r)
        PROVE  Safe
    <3>1. PICK to \in CurveTargets(f, r) :
            IF written[f] # Command(f, to)
              THEN RequestTarget(f, to, TRUE)
              ELSE /\ drive' = [drive EXCEPT ![f].requested = to]
                   /\ UNCHANGED <<wrote, faults>>
      BY <2>5 DEF DriveByCurve
    <3>2. to \in Levels
      BY <1>0, <2>5, CurveTargetsType DEF DriveByCurve, TypeInv, TodoOK
    <3>3. pc' # "stopped"
      BY <2>5 DEF DriveByCurve
    <3>4. CASE RequestTarget(f, to, TRUE)
      BY <3>2, <3>3, <3>4, RequestKnown DEF Targets
    <3>5. CASE drive' = [drive EXCEPT ![f].requested = to] /\ faults' = faults
      <4>1. \A g \in Fans : Known(drive[g]) => Known(drive'[g])
        BY <1>0, <3>2, <3>5, KnownKept DEF TypeInv, TypeOK
      <4> QED
        BY <3>3, <3>5, <4>1 DEF StopInv
    <3> QED
      BY <3>1, <3>4, <3>5
  <2> QED
    BY <1>0, <1>8, <2>1, <2>2, <2>3, <2>4, <2>5 DEF Polling, StopInv
<1>9. CASE Ending
  BY <1>0, <1>4, <1>9 DEF Ending, Boot, Stop, AbortCalibration, StopInv, Known,
     Running
<1> QED
  BY <1>1, <1>2, <1>3, <1>5, <1>6, <1>7, <1>8, <1>9 DEF Orderly, Working

(* Unless a hardware write has failed, a service that stops in order leaves *)
(* no fan at a command of its own: whatever was going on, a calibration    *)
(* too, and through any number of sessions.                                *)
THEOREM StopCorrect == OrderlySpec => []StoppedFansFree
<1>1. StopInv => StoppedFansFree
  BY DEF StopInv, StoppedFansFree
<1> QED
  BY <1>1, InitStop, StopStep, PTL DEF OrderlySpec
=============================================================================
