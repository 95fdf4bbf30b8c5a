--------------------------- MODULE FanStoreProofs ---------------------------
(* What the worker's stores hold: a restart finds what is in force, and    *)
(* fans keep their durable modes, step by step, as FanModes promises; and  *)
(* what becomes of the hardware: pins, commands and write caches.          *)
EXTENDS FanWorkerProofs, FiniteSetTheorems

(* A fan whose assignment the batch has changed, in memory at least.       *)
Reassigned(f) ==
  /\ manualStore[f] = None
  /\ \E i \in DOMAIN batch.assigns : /\ batch.assigns[i].fan = f
                                     /\ batch.assigns[i].to = curveStore[f]

(* The stores in memory and on disk differ only while a batch is applied,  *)
(* and then only by what the batch, or a calibration, has asked for.       *)
StoresSaved ==
  Running =>
    /\ pc # "assign" => curveStore = disk.curves
    /\ pc \notin {"targets", "assign", "assigned", "restore"} =>
         manualStore = disk.manual
    /\ pc = "targets" => \A f \in Fans :
         \/ manualStore[f] = disk.manual[f]
         \/ /\ batch.targets[f] # None
            /\ manualStore[f] = StoredTarget(batch.targets[f])
    /\ pc \in {"assign", "assigned"} => \A f \in Fans :
         \/ curveStore[f] = disk.curves[f] /\ manualStore[f] = disk.manual[f]
         \/ Reassigned(f)
    /\ pc \in {"calibrate", "ladder", "restore"} => batch.calibrate

(* The stores in memory are what drives the fans.                          *)
StoresDrive ==
  /\ open \/ present = {}
  /\ ~Running => present = {}
  /\ \A f \in present :
       /\ assigned[f] = curveStore[f]
       /\ /\ assigned[f] = None /\ manualStore[f] # None
          /\ ~(pc = "resume" /\ f \in todo)
          => drive[f].requested = manualStore[f]

StoreInv == TypeInv /\ StoresSaved /\ StoresDrive

(* Whether or not the write succeeds, the request is remembered; other     *)
(* fans keep theirs.                                                       *)
LEMMA RequestRemembered ==
  ASSUME TypeInv, NEW f \in Fans, NEW to \in Targets, NEW counts \in BOOLEAN,
         RequestTarget(f, to, counts)
  PROVE  /\ drive'[f].requested = StoredTarget(to)
         /\ \A g \in Fans \ {f} : drive'[g].requested = drive[g].requested
<1>1. drive[f] \in Drive /\ drive \in [Fans -> Drive]
  BY DEF TypeInv, TypeOK
<1>2. \A o \in Outcomes(f, to) : o.drive.requested = StoredTarget(to)
  <2>1. CASE to = Automatic
    <3>1. Outcomes(f, to) = {[drive |-> Released(drive[f]), wrote |-> TRUE]}
      BY <2>1 DEF Outcomes
    <3>2. Released(drive[f]).requested = None
      BY <1>1 DEF Released, Unramped, Ramped, Drive
    <3> QED
      BY <2>1, <3>1, <3>2 DEF StoredTarget
  <2>2. CASE to # Automatic
    <3> DEFINE start == Start[calStore[f]][settingsStore[f]]
               asked == [drive[f] EXCEPT !.requested = to]
    <3>1. asked \in [requested: {to}, ramp: Levels \cup {None},
                     last: Levels \cup {None},
                     ctl: Levels \cup {Automatic, Bios}, touched: BOOLEAN]
      BY <1>1 DEF Drive
    <3>2. \A o \in Outcomes(f, to) :
            \/ o = [drive |-> Ramped(asked, to, None), wrote |-> FALSE]
            \/ o = [drive |-> Pinned(Unramped(asked), Command(f, to)),
                    wrote |-> TRUE]
            \/ o = [drive |-> Pinned(Ramped(asked, to, start), start),
                    wrote |-> TRUE]
      BY <2>2 DEF Outcomes
    <3>3. /\ Ramped(asked, to, None).requested = to
          /\ Pinned(Unramped(asked), Command(f, to)).requested = to
          /\ Pinned(Ramped(asked, to, start), start).requested = to
      BY <3>1 DEF Pinned, Unramped, Ramped
    <3> HIDE DEF asked, start
    <3> QED
      BY <2>2, <3>2, <3>3 DEF StoredTarget
  <2> QED
    BY <2>1, <2>2
<1>3. PICK o \in Outcomes(f, to), ok \in BOOLEAN :
        drive' = [drive EXCEPT ![f] = IF ok THEN o.drive
                                            ELSE Unwritten(o.drive, f)]
  BY DEF RequestTarget
<1>4. o.drive \in Drive
  BY OutcomesType DEF TypeInv
<1>5. Unwritten(o.drive, f).requested = o.drive.requested
  BY <1>4 DEF Unwritten, Drive
<1> QED
  BY <1>1, <1>2, <1>3, <1>5

(* Neither the ladder nor a ramp changes what is requested.                *)
LEMMA LadderRemembered ==
  ASSUME TypeInv, NEW level \in Ladder, NEW P, LadderWrite(level, P)
  PROVE  \A f \in Fans : drive'[f].requested = drive[f].requested
<1>1. \A f \in Fans : drive[f] \in Drive
  BY DEF TypeInv, TypeOK
<1>2. \A d \in Drive : /\ Unramped(d).requested = d.requested
                       /\ Pinned(Unramped(d), level).requested = d.requested
  BY DEF Drive, Unramped, Ramped, Pinned
<1> QED
  BY <1>1, <1>2 DEF LadderWrite

LEMMA TickRemembered ==
  ASSUME TypeInv, NEW f \in Fans, TickRamp(f)
  PROVE  \A g \in Fans : drive'[g].requested = drive[g].requested
<1>1. \A d \in Drive, level \in Levels :
        /\ Unramped(d).requested = d.requested
        /\ Ramped(d, d.ramp, level).requested = d.requested
        /\ Pinned(Unramped(d), level).requested = d.requested
        /\ Pinned(Ramped(d, d.ramp, level), level).requested = d.requested
  BY DEF Drive, Unramped, Ramped, Pinned
<1>2. drive \in [Fans -> Drive]
  BY DEF TypeInv, TypeOK
<1>3. drive' = drive
      \/ \E level \in Levels :
           \E d \in {Unramped(drive[f]), Ramped(drive[f], drive[f].ramp, level)} :
             \/ drive' = [drive EXCEPT ![f] = d]
             \/ drive' = [drive EXCEPT ![f] = Pinned(d, level)]
  BY DEF TickRamp
<1> QED
  BY <1>1, <1>2, <1>3

LEMMA InitStores == Init => StoreInv
<1> SUFFICES ASSUME Init PROVE StoresSaved /\ StoresDrive
  BY InitType DEF StoreInv
<1> QED
  BY DEF Init, StoresSaved, StoresDrive, Running

LEMMA DetectionStores ==
  ASSUME StoreInv, Detection PROVE StoresSaved' /\ StoresDrive'
<1> USE DEF StoreInv, StoresSaved, StoresDrive, Running, sessionVars,
            curveVars, storeVars, viewVars
<1>1. CASE Detect
  BY <1>1, InputsAssumption DEF Detect
<1>2. CASE EndDetect
  BY <1>2 DEF EndDetect
<1>3. CASE DetectFails \/ NotDue
  BY <1>3 DEF DetectFails, NotDue
<1>4. ASSUME NEW f \in Fans, Resume(f) PROVE StoresSaved' /\ StoresDrive'
  <2>1. manualStore[f] \in Levels
    BY <1>4 DEF Resume, TypeInv, TypeOK, TodoOK
  <2>2. /\ drive'[f].requested = manualStore[f]
        /\ \A g \in Fans \ {f} : drive'[g].requested = drive[g].requested
    <3>1. /\ RequestTarget(f, manualStore[f], FALSE) /\ TypeInv
          /\ manualStore[f] \in Targets /\ FALSE \in BOOLEAN
          /\ StoredTarget(manualStore[f]) = manualStore[f]
      BY <1>4, <2>1, MarkersAssumption DEF Resume, StoredTarget, Targets
    <3> HIDE DEF StoreInv, StoresSaved, StoresDrive
    <3> QED
      BY <3>1, RequestRemembered
  <2> QED
    BY <1>4, <2>2 DEF Resume, TypeInv, TypeOK
<1> QED
  BY <1>1, <1>2, <1>3, <1>4 DEF Detection

LEMMA HearingStores ==
  ASSUME StoreInv, Hearing PROVE StoresSaved' /\ StoresDrive'
  BY DEF Hearing, Take, Pump, StoreInv, StoresSaved, StoresDrive, Running,
     sessionVars, curveVars, storeVars, viewVars

LEMMA BatchingStores ==
  ASSUME StoreInv, Batching PROVE StoresSaved' /\ StoresDrive'
<1> USE DEF StoreInv, StoresSaved, StoresDrive, Running, sessionVars,
            curveVars, storeVars, viewVars
<1>1. CASE BeginBatch
  BY <1>1 DEF BeginBatch
<1>2. CASE DiscardBatch
  BY <1>2 DEF DiscardBatch
<1>3. CASE Redetect
  BY <1>3 DEF Redetect, DropSession, ClearSession
<1> QED
  BY <1>1, <1>2, <1>3 DEF Batching

LEMMA CalibratingStores ==
  ASSUME StoreInv, Calibrating \/ NextDuty PROVE StoresSaved' /\ StoresDrive'
<1> USE DEF StoreInv, StoresSaved, StoresDrive, Running, sessionVars,
            curveVars, storeVars, viewVars
<1>1. CASE StartCalibration
  BY <1>1, LadderRemembered DEF StartCalibration, TypeInv, TypeOK
<1>2. CASE SkipCalibration
  BY <1>2 DEF SkipCalibration
<1>3. CASE NextDuty
  BY <1>3, LadderRemembered DEF NextDuty, TypeInv, TypeOK
<1>4. CASE EndLadder
  BY <1>4 DEF EndLadder
<1>5. ASSUME NEW f \in Fans, Restore(f) PROVE StoresSaved' /\ StoresDrive'
  <2>1. restore[f] \in Targets
    BY <1>5 DEF Restore, TypeInv, TypeOK, TodoOK
  <2>2. /\ drive'[f].requested = StoredTarget(restore[f])
        /\ \A g \in Fans \ {f} : drive'[g].requested = drive[g].requested
    BY <1>5, <2>1, RequestRemembered DEF Restore
  <2> QED
    BY <1>5, <2>2 DEF Restore, TypeInv, TypeOK
<1>6. CASE EndCalibration
  BY <1>6 DEF EndCalibration, Proceed, TypeInv, TypeOK
<1> QED
  BY <1>1, <1>2, <1>3, <1>4, <1>5, <1>6 DEF Calibrating

LEMMA EndingStores ==
  ASSUME StoreInv, Ending \/ Crash PROVE StoresSaved' /\ StoresDrive'
<1> USE DEF StoreInv, StoresSaved, StoresDrive, Running, sessionVars,
            curveVars, storeVars, viewVars
<1>1. CASE Boot
  BY <1>1 DEF Boot
<1>2. ASSUME NEW r \in Requests, Stop(r) PROVE StoresSaved' /\ StoresDrive'
  BY <1>2 DEF Stop, DropSession, ClearSession
<1>3. ASSUME NEW r \in Requests, AbortCalibration(r)
      PROVE  StoresSaved' /\ StoresDrive'
  BY <1>3 DEF AbortCalibration, DropSession, ClearSession
<1>4. CASE Crash
  BY <1>4 DEF Crash, ClearSession
<1> QED
  BY <1>1, <1>2, <1>3, <1>4 DEF Ending

LEMMA PollingStores ==
  ASSUME StoreInv, Polling PROVE StoresSaved' /\ StoresDrive'
<1> USE DEF StoreInv, StoresSaved, StoresDrive, Running, sessionVars,
            curveVars, storeVars, viewVars
<1>1. CASE EndRamps
  BY <1>1 DEF EndRamps, TypeInv, TypeOK, Batch
<1>2. CASE Update \/ NoUpdate
  BY <1>2 DEF Update, NoUpdate
<1>3. ASSUME NEW f \in Fans, TickRamp(f) PROVE StoresSaved' /\ StoresDrive'
  <2>1. \A g \in Fans : drive'[g].requested = drive[g].requested
    BY <1>3, TickRemembered
  <2> QED
    BY <1>3, <2>1 DEF TickRamp, TypeInv, TypeOK
<1>4. ASSUME NEW f \in Fans, DropVanished(f) PROVE StoresSaved' /\ StoresDrive'
  <2>1. /\ assigned[f] # None
        /\ \A g \in Fans \ {f} : drive'[g].requested = drive[g].requested
    BY <1>4, RequestRemembered
    DEF DropVanished, NoRequest, TypeInv, TodoOK, Targets
  <2> QED
    BY <1>4, <2>1 DEF DropVanished, TypeInv, TypeOK
<1>5. ASSUME NEW f \in Fans, HoldReading(f) PROVE StoresSaved' /\ StoresDrive'
  BY <1>5 DEF HoldReading
<1>6. ASSUME NEW f \in Fans, NEW r \in Readings, DriveByCurve(f, r)
      PROVE  StoresSaved' /\ StoresDrive'
  <2>1. \A g \in Fans \ {f} : drive'[g] = drive[g]
    <3>1. PICK to \in CurveTargets(f, r) :
            IF written[f] # Command(f, to)
              THEN RequestTarget(f, to, TRUE)
              ELSE drive' = [drive EXCEPT ![f].requested = to]
      BY <1>6 DEF DriveByCurve
    <3>2. to \in Targets
      BY CurveTargetsType, <1>6 DEF DriveByCurve, TypeInv, TodoOK, Targets
    <3> QED
      BY <3>1, <3>2, RequestTargetType DEF TypeInv, TypeOK
  <2>2. assigned[f] # None
    BY <1>6 DEF DriveByCurve, TypeInv, TodoOK
  <2> QED
    BY <1>6, <2>1, <2>2 DEF DriveByCurve, TypeInv, TypeOK
<1> QED
  BY <1>1, <1>2, <1>3, <1>4, <1>5, <1>6 DEF Polling

(* An assignment touches one fan, and marks it as reassigned.              *)
LEMMA AssignStores ==
  ASSUME StoreInv, Assign PROVE StoresSaved' /\ StoresDrive'
<1>1. /\ batch.assigns \in Seq([fan: Fans, to: Curves \cup {None}])
      /\ batch.next \in Nat \ {0} /\ batch.next <= Len(batch.assigns)
      /\ batch'.assigns = batch.assigns
  BY DEF Assign, StoreInv, TypeInv, TypeOK, Batch
<1>2. batch.next \in DOMAIN batch.assigns
  BY <1>1
<1>3. batch.assigns[batch.next] \in [fan: Fans, to: Curves \cup {None}]
  BY <1>1, EntryType
<1>4. PICK f \in Fans, c \in Curves \cup {None} :
        /\ batch.assigns[batch.next].fan = f
        /\ batch.assigns[batch.next].to = c
  BY <1>3
<1>5. /\ pc = "assign" /\ pc' = "assign" /\ disk' = disk
      /\ present' = present /\ open' = open /\ todo' = todo
  BY DEF Assign, sessionVars
<1>6. \/ /\ f \in present
         /\ curveStore' = [curveStore EXCEPT ![f] = c]
         /\ manualStore' = [manualStore EXCEPT ![f] = None]
         /\ assigned' = [assigned EXCEPT ![f] = c]
      \/ UNCHANGED <<assigned, curveStore, manualStore, drive>>
  BY <1>4 DEF Assign, NoRequest, curveVars
<1>7. drive' = drive \/ RequestTarget(f, Automatic, TRUE)
  BY <1>4 DEF Assign, NoRequest
<1>8. \A g \in Fans \ {f} : drive'[g].requested = drive[g].requested
  BY <1>4, <1>7, RequestRemembered DEF StoreInv, Targets
<1>9. /\ curveStore \in [Fans -> Curves \cup {None}]
      /\ manualStore \in [Fans -> Levels \cup {None}]
      /\ assigned \in [Fans -> Curves \cup {None}] /\ present \subseteq Fans
  BY DEF StoreInv, TypeInv, TypeOK
<1>10. \A g \in Fans \ {f} : /\ curveStore'[g] = curveStore[g]
                             /\ manualStore'[g] = manualStore[g]
                             /\ assigned'[g] = assigned[g]
  BY <1>6, <1>9
<1>11. \A g \in Fans \ {f} : Reassigned(g) => Reassigned(g)'
  BY <1>1, <1>10 DEF Reassigned
<1>12. \/ /\ curveStore'[f] = c /\ manualStore'[f] = None /\ assigned'[f] = c
       \/ UNCHANGED <<assigned, curveStore, manualStore, drive>>
  BY <1>4, <1>6, <1>9
<1>13. curveStore'[f] = c /\ manualStore'[f] = None => Reassigned(f)'
  BY <1>1, <1>2, <1>4 DEF Reassigned
<1>14. UNCHANGED <<curveStore, manualStore>> /\ Reassigned(f) => Reassigned(f)'
  BY <1>1 DEF Reassigned
<1>15. \A g \in Fans : \/ /\ curveStore[g] = disk.curves[g]
                          /\ manualStore[g] = disk.manual[g]
                       \/ Reassigned(g)
  BY <1>5 DEF StoreInv, StoresSaved, Running
<1>16. \A g \in Fans : \/ /\ curveStore'[g] = disk'.curves[g]
                          /\ manualStore'[g] = disk'.manual[g]
                       \/ Reassigned(g)'
  BY <1>4, <1>5, <1>10, <1>11, <1>12, <1>13, <1>14, <1>15
<1>17. StoresSaved'
  BY <1>5, <1>16 DEF StoresSaved, Running
<1>18. StoresDrive'
  BY <1>4, <1>5, <1>8, <1>9, <1>10, <1>12 DEF StoreInv, StoresDrive, Running
<1> QED
  BY <1>17, <1>18

LEMMA ApplyingStores ==
  ASSUME StoreInv, Applying PROVE StoresSaved' /\ StoresDrive'
<1> USE DEF StoreInv, StoresSaved, StoresDrive, Running, sessionVars,
            curveVars, storeVars, viewVars
<1>1. ASSUME NEW f \in Fans, ServeTarget(f) PROVE StoresSaved' /\ StoresDrive'
  <2>1. batch.targets[f] \in Targets
    BY <1>1 DEF ServeTarget, TypeInv, TypeOK, TodoOK, Batch
  <2>2. /\ drive'[f].requested = StoredTarget(batch.targets[f])
        /\ \A g \in Fans \ {f} : drive'[g].requested = drive[g].requested
    BY <1>1, <2>1, RequestRemembered DEF ServeTarget
  <2>3. batch.targets[f] # None
    BY <1>1 DEF ServeTarget, TypeInv, TodoOK
  <2>4. /\ pc = "targets" /\ pc' = "targets" /\ batch' = batch
        /\ disk'.manual = disk.manual /\ disk'.curves = curveStore'
    BY <1>1 DEF ServeTarget, TypeInv, TypeOK
  <2>5. StoresSaved'
    BY <1>1, <2>3, <2>4 DEF ServeTarget, TypeInv, TypeOK
  <2>6. StoresDrive'
    BY <1>1, <2>2, <2>4 DEF ServeTarget, TypeInv, TypeOK
  <2> QED
    BY <2>5, <2>6
<1>2. CASE EndTargets
  <2>1. /\ disk'.manual = manualStore /\ disk'.curves = disk.curves
        /\ pc = "targets" /\ pc' \in {"assign", "settings", "calibrate", "ramps"}
        /\ pc' = "calibrate" => batch.calibrate
    BY <1>2 DEF EndTargets, Proceed, AfterTargets, AfterAssigns, TypeInv, TypeOK
  <2> QED
    BY <1>2, <2>1 DEF EndTargets
<1>3. CASE Assign
  BY <1>3, AssignStores
<1>4. CASE SaveAssigns
  <2>1. /\ disk'.manual = disk.manual /\ disk'.curves = curveStore
        /\ pc = "assign" /\ pc' = "assigned" /\ batch'.assigns = batch.assigns
    BY <1>4 DEF SaveAssigns, TypeInv, TypeOK, Batch
  <2>2. \A f \in Fans : Reassigned(f) => Reassigned(f)'
    BY <1>4, <2>1 DEF SaveAssigns, Reassigned
  <2> QED
    BY <1>4, <2>1, <2>2 DEF SaveAssigns
<1>5. CASE EndAssigns
  <2>1. /\ disk'.manual = manualStore /\ disk'.curves = disk.curves
        /\ pc = "assigned" /\ pc' \in {"settings", "calibrate", "ramps"}
        /\ pc' = "calibrate" => batch.calibrate
    BY <1>5 DEF EndAssigns, Proceed, AfterAssigns, TypeInv, TypeOK
  <2> QED
    BY <1>5, <2>1 DEF EndAssigns
<1>6. CASE Tune
  BY <1>6 DEF Tune, TypeInv, TypeOK, Batch
<1>7. CASE SaveSettings
  BY <1>7 DEF SaveSettings, TypeInv, TypeOK
<1>8. ASSUME NEW f \in Fans, Retarget(f) PROVE StoresSaved' /\ StoresDrive'
  <2>1. drive[f].requested \in Levels
    BY <1>8 DEF Retarget, TypeInv, TypeOK, TodoOK, Drive
  <2>2. /\ RequestTarget(f, drive[f].requested, TRUE)
        /\ drive[f].requested \in Targets /\ TRUE \in BOOLEAN /\ TypeInv
    BY <1>8, <2>1 DEF Retarget, Targets
  <2>3. StoredTarget(drive[f].requested) = drive[f].requested
    BY <2>1, MarkersAssumption DEF StoredTarget
  <2>4. \A g \in Fans : drive'[g].requested = drive[g].requested
    <3> HIDE DEF StoreInv, StoresSaved, StoresDrive
    <3> QED
      BY <2>2, <2>3, RequestRemembered
  <2> QED
    BY <1>8, <2>4 DEF Retarget, TypeInv, TypeOK
<1>9. CASE EndRetarget
  BY <1>9 DEF EndRetarget, Proceed
<1> QED
  BY <1>1, <1>2, <1>3, <1>4, <1>5, <1>6, <1>7, <1>8, <1>9 DEF Applying

LEMMA StoreStep == StoreInv /\ [Next]_vars => StoreInv'
<1> SUFFICES ASSUME StoreInv, [Next]_vars PROVE StoreInv'
  OBVIOUS
<1>1. TypeInv'
  BY TypeStep DEF StoreInv
<1>2. CASE UNCHANGED vars
  BY <1>1, <1>2 DEF vars, sessionVars, curveVars, storeVars, StoreInv,
     StoresSaved, StoresDrive, Running, Reassigned
<1>3. CASE Next
  BY <1>1, <1>3, DetectionStores, HearingStores, BatchingStores,
     ApplyingStores, CalibratingStores, PollingStores, EndingStores
  DEF StoreInv, Next, Orderly, Working
<1> QED
  BY <1>2, <1>3

(* What is in force is what a restart finds: for every number of fans, and *)
(* every sequence of batches, calibrations, re-detections and crashes.     *)
THEOREM StoresCorrect == Spec => []StoresInForce
<1>1. StoreInv => StoresInForce
  <2> SUFFICES ASSUME StoreInv, pc = "recv", NEW f \in present
               PROVE  /\ disk.curves[f] = assigned[f]
                      /\ DurableMode[f] \in {Mode(f), <<"auto">>}
    BY DEF StoresInForce
  <2>1. /\ f \in Fans /\ assigned[f] = disk.curves[f]
        /\ manualStore[f] = disk.manual[f]
        /\ assigned[f] = None /\ manualStore[f] # None
             => drive[f].requested = manualStore[f]
    BY DEF StoreInv, StoresSaved, StoresDrive, Running, TypeInv, TypeOK
  <2>2. /\ Mode(f) = ModeOf(assigned[f], drive[f].requested)
        /\ DurableMode[f] = ModeOf(assigned[f], manualStore[f])
    BY <2>1 DEF Mode, DurableMode
  <2>3. CASE assigned[f] # None
    BY <2>1, <2>2, <2>3 DEF ModeOf
  <2>4. CASE assigned[f] = None /\ manualStore[f] # None
    BY <2>1, <2>2, <2>4
  <2>5. CASE assigned[f] = None /\ manualStore[f] = None
    BY <2>1, <2>2, <2>5, MarkersAssumption DEF ModeOf
  <2> QED
    BY <2>1, <2>3, <2>4, <2>5
<1> QED
  BY <1>1, InitStores, StoreStep, PTL DEF Spec
-----------------------------------------------------------------------------
(* What a batch holds was sent by clients: its targets, and the entries of *)
(* its two queues.                                                         *)
Sent(f, to) == [op |-> "target", fan |-> f, to |-> to] \in Requests
Listed(queue, op) ==
  \A i \in DOMAIN queue :
    [op |-> op, fan |-> queue[i].fan, to |-> queue[i].to] \in Requests
Queued ==
  /\ \A f \in Fans : batch.targets[f] # None => Sent(f, batch.targets[f])
  /\ Listed(batch.assigns, "assign") /\ Listed(batch.settings, "settings")
  /\ batch.calibrate => \E r \in Requests : r.op = "calibrate"

LEMMA ListedAppend ==
  ASSUME NEW T, NEW queue \in Seq(T), NEW entry, NEW op, Listed(queue, op),
         [op |-> op, fan |-> entry.fan, to |-> entry.to] \in Requests
  PROVE  Listed(Append(queue, entry), op)
<1>1. /\ DOMAIN Append(queue, entry) = 1..(Len(queue) + 1)
      /\ DOMAIN queue = 1..Len(queue) /\ Len(queue) \in Nat
      /\ \A i \in 1..Len(queue) : Append(queue, entry)[i] = queue[i]
      /\ Append(queue, entry)[Len(queue) + 1] = entry
  OBVIOUS
<1> QED
  BY <1>1 DEF Listed

LEMMA QueueTaken ==
  ASSUME TypeInv, Queued, NEW r \in Requests, Take(r) PROVE Queued'
<1>0. /\ batch \in Batch /\ r \in Request /\ r.op # "shutdown"
      /\ batch.targets \in [Fans -> Targets \cup {None}]
      /\ batch.assigns \in Seq([fan: Fans, to: Curves \cup {None}])
      /\ batch.settings \in Seq([fan: Fans, to: Settings])
      /\ batch' = [Added(batch, r) EXCEPT !.size = @ + 1]
  BY InputsAssumption DEF TypeInv, TypeOK, Batch, Take
<1>1. \/ r.op = "target" /\ r \in TargetRequest
      \/ r.op = "assign" /\ r \in AssignRequest
      \/ r.op = "settings" /\ r \in SettingsRequest
      \/ r.op = "curves" /\ r \in CurvesRequest
      \/ r.op \in {"calibrate", "redetect"}
  BY <1>0 DEF Request, TargetRequest, AssignRequest, SettingsRequest, CurvesRequest,
     PlainRequest
<1> DEFINE entry == [fan |-> r.fan, to |-> r.to]
<1>2. CASE r.op = "target" /\ r \in TargetRequest
  <2>1. /\ batch'.targets = [batch.targets EXCEPT ![r.fan] = r.to]
        /\ batch'.assigns = batch.assigns /\ batch'.settings = batch.settings
        /\ batch'.calibrate = batch.calibrate
    BY <1>0, <1>2 DEF Added, Batch
  <2>2. r = [op |-> "target", fan |-> r.fan, to |-> r.to]
    BY <1>2 DEF TargetRequest
  <2>3. \A f \in Fans : batch'.targets[f] # None => Sent(f, batch'.targets[f])
    BY <1>0, <1>2, <2>1, <2>2 DEF Queued, Sent, TargetRequest
  <2> QED
    BY <2>1, <2>3 DEF Queued, Sent
<1>3. CASE r.op = "assign" /\ r \in AssignRequest
  <2>1. /\ batch'.assigns = Append(batch.assigns, entry)
        /\ batch'.targets = batch.targets /\ batch'.settings = batch.settings
        /\ batch'.calibrate = batch.calibrate
    BY <1>0, <1>3 DEF Added, Batch
  <2>2. [op |-> "assign", fan |-> entry.fan, to |-> entry.to] \in Requests
    BY <1>3 DEF AssignRequest
  <2>3. Listed(batch'.assigns, "assign")
    <3>1. Listed(batch.assigns, "assign")
      BY DEF Queued
    <3> HIDE DEF entry
    <3> QED
      BY <1>0, <2>1, <2>2, <3>1, ListedAppend, ZenonT(30)
  <2> QED
    BY <2>1, <2>3 DEF Queued, Sent
<1>4. CASE r.op = "settings" /\ r \in SettingsRequest
  <2>1. /\ batch'.settings = Append(batch.settings, entry)
        /\ batch'.targets = batch.targets /\ batch'.assigns = batch.assigns
        /\ batch'.calibrate = batch.calibrate
    BY <1>0, <1>4 DEF Added, Batch
  <2>2. [op |-> "settings", fan |-> entry.fan, to |-> entry.to] \in Requests
    BY <1>4 DEF SettingsRequest
  <2>3. Listed(batch'.settings, "settings")
    <3>1. Listed(batch.settings, "settings")
      BY DEF Queued
    <3> HIDE DEF entry
    <3> QED
      BY <1>0, <2>1, <2>2, <3>1, ListedAppend, ZenonT(30)
  <2> QED
    BY <2>1, <2>3 DEF Queued, Sent
<1>5. CASE \/ r.op = "curves" /\ r \in CurvesRequest
           \/ r.op \in {"calibrate", "redetect"}
  <2>1. /\ batch'.targets = batch.targets /\ batch'.assigns = batch.assigns
        /\ batch'.settings = batch.settings
        /\ batch'.calibrate = (batch.calibrate \/ r.op = "calibrate")
    BY <1>0, <1>5 DEF Added, Batch
  <2> QED
    BY <2>1 DEF Queued, Sent
<1> QED
  BY <1>1, <1>2, <1>3, <1>4, <1>5

(* Every other step keeps the queues and the targets, or drops them all.   *)
LEMMA BatchKept ==
  ASSUME TypeInv, [Next]_vars, \A r \in Requests : ~Take(r)
  PROVE  \/ UNCHANGED <<batch.targets, batch.assigns, batch.settings, batch.calibrate,
                        batch.size>>
         \/ batch' = EmptyBatch
<1> DEFINE Kept == \/ UNCHANGED <<batch.targets, batch.assigns, batch.settings,
                                  batch.calibrate, batch.size>>
                   \/ batch' = EmptyBatch
<1>0. batch \in Batch
  BY DEF TypeInv, TypeOK
<1>1. CASE batch' = batch \/ batch' = EmptyBatch
  BY <1>1
<1>2. ASSUME NEW r \in Requests, Pump(r) \/ Stop(r) \/ AbortCalibration(r) PROVE Kept
  BY <1>1, <1>2 DEF Pump, Stop, AbortCalibration, DropSession, ClearSession
<1>3. CASE UNCHANGED vars \/ Detection \/ Boot \/ Crash
  BY <1>1, <1>3 DEF vars, Detection, Detect, EndDetect, DetectFails, NotDue, Resume,
     Boot, Crash, ClearSession
<1>4. CASE Batching
  <2>1. CASE BeginBatch
    BY <1>0, <2>1 DEF BeginBatch, NewDefs, Batch
  <2>2. CASE DiscardBatch \/ Redetect
    BY <1>1, <2>2 DEF DiscardBatch, Redetect, DropSession, ClearSession
  <2> QED
    BY <1>4, <2>1, <2>2 DEF Batching
<1>5. CASE Applying
  <2>1. ASSUME NEW f \in Fans, ServeTarget(f) \/ Retarget(f) PROVE Kept
    BY <1>1, <2>1 DEF ServeTarget, Retarget
  <2>2. CASE EndTargets \/ EndAssigns \/ SaveSettings \/ EndRetarget
    BY <1>1, <2>2 DEF EndTargets, EndAssigns, SaveSettings, EndRetarget
  <2>3. CASE Assign
    BY <1>0, <2>3 DEF Assign, Batch
  <2>4. CASE SaveAssigns \/ Tune
    BY <1>0, <2>4 DEF SaveAssigns, Tune, Batch
  <2> QED
    BY <1>5, <2>1, <2>2, <2>3, <2>4 DEF Applying
<1>6. CASE Calibrating \/ NextDuty
  <2>1. batch' = batch
    BY <1>6 DEF Calibrating, StartCalibration, SkipCalibration, NextDuty, EndLadder,
       Restore, EndCalibration
  <2> QED
    BY <1>1, <2>1
<1>7. CASE Polling
  <2>1. CASE EndRamps
    BY <1>0, <2>1 DEF EndRamps, Batch
  <2>2. CASE Update \/ NoUpdate
    BY <1>1, <2>2 DEF Update, NoUpdate
  <2>3. ASSUME NEW f \in Fans, TickRamp(f) \/ DropVanished(f) \/ HoldReading(f)
        PROVE  Kept
    BY <1>1, <2>3 DEF TickRamp, DropVanished, HoldReading
  <2>4. ASSUME NEW f \in Fans, NEW r \in Readings, DriveByCurve(f, r) PROVE Kept
    BY <1>1, <2>4 DEF DriveByCurve
  <2> QED
    BY <1>7, <2>1, <2>2, <2>3, <2>4 DEF Polling
<1> QED
  BY <1>2, <1>3, <1>4, <1>5, <1>6, <1>7 DEF Next, Orderly, Working, Hearing, Ending

LEMMA QueueStep == TypeInv /\ Queued /\ [Next]_vars => Queued'
<1> SUFFICES ASSUME TypeInv, Queued, [Next]_vars PROVE Queued'
  OBVIOUS
<1>1. CASE \E r \in Requests : Take(r)
  BY <1>1, QueueTaken
<1>2. CASE \A r \in Requests : ~Take(r)
  <2>1. CASE UNCHANGED <<batch.targets, batch.assigns, batch.settings, batch.calibrate,
                         batch.size>>
    BY <2>1 DEF Queued, Sent, Listed
  <2>2. CASE batch' = EmptyBatch
    BY <2>2 DEF Queued, EmptyBatch, Listed
  <2> QED
    BY <1>2, <2>1, <2>2, BatchKept
<1> QED
  BY <1>1, <1>2

-----------------------------------------------------------------------------
(* Where no client takes a curve away by an empty assignment, a fan with   *)
(* neither a curve nor a stored target has no request either.              *)
NoReleases == \A r \in Requests : r.op = "assign" => r.to # None
AllStored ==
  /\ open \/ \A f \in Fans : drive[f].requested = None
  /\ \A f \in present : assigned[f] = None /\ manualStore[f] = None =>
                          drive[f].requested = None
RestartInv == StoreInv /\ KindInv /\ NoReleases /\ Queued /\ AllStored

(* The entry an assignment is about was sent, and names a fan and a curve. *)
LEMMA AssignEntry ==
  ASSUME TypeInv, Queued, Assign
  PROVE  \E f \in Fans, c \in Curves \cup {None} :
           /\ batch.assigns[batch.next].fan = f /\ batch.assigns[batch.next].to = c
           /\ batch.next \in DOMAIN batch.assigns
           /\ [op |-> "assign", fan |-> f, to |-> c] \in Requests
<1>1. /\ batch.assigns \in Seq([fan: Fans, to: Curves \cup {None}])
      /\ batch.next \in Nat \ {0} /\ batch.next <= Len(batch.assigns)
  BY DEF Assign, TypeInv, TypeOK, Batch
<1>2. batch.next \in DOMAIN batch.assigns
  BY <1>1
<1>3. batch.assigns[batch.next] \in [fan: Fans, to: Curves \cup {None}]
  BY <1>1, EntryType
<1> QED
  BY <1>2, <1>3 DEF Queued, Listed

LEMMA StoredKept ==
  ASSUME AllStored, \A f \in Fans : drive'[f].requested = drive[f].requested,
         present \subseteq Fans, UNCHANGED <<open, present, assigned, manualStore>>
  PROVE  AllStored'
  BY DEF AllStored

(* One fan of the session changes, to a request that is stored.            *)
LEMMA StoredChanged ==
  ASSUME RestartInv, open, UNCHANGED <<open, present>>, NEW f \in Fans,
         \A g \in Fans \ {f} : /\ drive'[g].requested = drive[g].requested
                               /\ assigned'[g] = assigned[g]
                               /\ manualStore'[g] = manualStore[g],
         f \in present => \/ assigned'[f] # None
                          \/ drive'[f].requested = manualStore'[f]
  PROVE  AllStored'
  BY DEF RestartInv, StoreInv, TypeInv, TypeOK, AllStored

LEMMA StoredDetection == ASSUME RestartInv, Detection PROVE AllStored'
<1> USE DEF RestartInv, StoreInv, sessionVars, curveVars, storeVars
<1>1. CASE Detect
  <2>1. \A d \in Drive : Reopened(d).requested = d.requested
    BY DEF Reopened, Drive
  <2>2. \A f \in Fans : drive'[f].requested = drive[f].requested
    BY <1>1, <2>1 DEF Detect, TypeInv, TypeOK
  <2>3. present' \subseteq Fans /\ ~open /\ open'
    BY <1>1, InputsAssumption DEF Detect, KindInv
  <2> QED
    BY <2>2, <2>3 DEF AllStored
<1>2. CASE EndDetect \/ DetectFails \/ NotDue
  BY <1>2, StoredKept DEF EndDetect, DetectFails, NotDue, TypeInv, TypeOK
<1>3. ASSUME NEW f \in Fans, Resume(f) PROVE AllStored'
  <2>1. /\ manualStore[f] \in Levels /\ manualStore[f] \in Targets
        /\ StoredTarget(manualStore[f]) = manualStore[f]
    BY <1>3, MarkersAssumption DEF Resume, TypeInv, TypeOK, TodoOK, StoredTarget, Targets
  <2>2. /\ drive'[f].requested = manualStore[f]
        /\ \A g \in Fans \ {f} : drive'[g].requested = drive[g].requested
    BY <1>3, <2>1, RequestRemembered DEF Resume
  <2>3. open
    BY <1>3 DEF Resume, KindInv, WithSession
  <2> QED
    BY <1>3, <2>2, <2>3, StoredChanged DEF Resume
<1> QED
  BY <1>1, <1>2, <1>3 DEF Detection

LEMMA StoredDropped ==
  ASSUME RestartInv, DropSession \/ Crash PROVE AllStored'
<1>1. /\ present' = {} /\ \E S \in SUBSET Fans : drive' = Abandoned(S)
  BY DEF DropSession, ClearSession, Crash, Touched
<1> QED
  BY <1>1 DEF AllStored, Abandoned

LEMMA StoredBatching == ASSUME RestartInv, Hearing \/ Batching PROVE AllStored'
<1> USE DEF RestartInv, StoreInv, sessionVars, curveVars, storeVars
<1>1. CASE Redetect
  BY <1>1, StoredDropped DEF Redetect
<1>2. CASE ~Redetect
  BY <1>2, StoredKept DEF Hearing, Take, Pump, Batching, BeginBatch, DiscardBatch,
     TypeInv, TypeOK
<1> QED
  BY <1>1, <1>2

LEMMA StoredApplying == ASSUME RestartInv, Applying PROVE AllStored'
<1> USE DEF RestartInv, StoreInv, sessionVars, curveVars, storeVars
<1>0. open
  BY DEF KindInv, WithSession, Applied, Applying, ServeTarget, Retarget, EndTargets,
     Assign, SaveAssigns, EndAssigns, Tune, SaveSettings, EndRetarget
<1>1. ASSUME NEW f \in Fans, ServeTarget(f) PROVE AllStored'
  <2>1. batch.targets[f] \in Targets
    BY <1>1 DEF ServeTarget, TypeInv, TypeOK, TodoOK, Batch
  <2>2. /\ drive'[f].requested = StoredTarget(batch.targets[f])
        /\ \A g \in Fans \ {f} : drive'[g].requested = drive[g].requested
    BY <1>1, <2>1, RequestRemembered DEF ServeTarget
  <2>3. /\ f \in present => manualStore'[f] = StoredTarget(batch.targets[f])
        /\ \A g \in Fans \ {f} : /\ manualStore'[g] = manualStore[g]
                                 /\ assigned'[g] = assigned[g]
    BY <1>1 DEF ServeTarget, TypeInv, TypeOK
  <2> QED
    BY <1>0, <1>1, <2>2, <2>3, StoredChanged DEF ServeTarget
<1>2. ASSUME NEW f \in Fans, Retarget(f) PROVE AllStored'
  <2>1. /\ drive[f].requested \in Levels /\ drive[f].requested \in Targets
        /\ StoredTarget(drive[f].requested) = drive[f].requested
    BY <1>2, MarkersAssumption
    DEF Retarget, TypeInv, TypeOK, TodoOK, Drive, StoredTarget, Targets
  <2>2. \A g \in Fans : drive'[g].requested = drive[g].requested
    BY <1>2, <2>1, RequestRemembered DEF Retarget
  <2> QED
    BY <1>2, <2>2, StoredKept DEF Retarget, TypeInv, TypeOK
<1>3. CASE Assign
  <2>3. PICK f \in Fans, c \in Curves :
          /\ batch.assigns[batch.next].fan = f /\ c # None
          /\ batch.assigns[batch.next].to = c
    <3>1. PICK f \in Fans, c \in Curves \cup {None} :
            /\ batch.assigns[batch.next].fan = f
            /\ batch.assigns[batch.next].to = c
            /\ [op |-> "assign", fan |-> f, to |-> c] \in Requests
      BY <1>3, AssignEntry
    <3>2. c # None
      BY <3>1 DEF NoReleases
    <3> QED
      BY <3>1, <3>2
  <2>4. drive' = drive /\ UNCHANGED <<open, present>>
    BY <1>3, <2>3 DEF Assign, NoRequest
  <2>5. CASE f \in present
    <3>1. /\ manualStore' = [manualStore EXCEPT ![f] = None]
          /\ assigned' = [assigned EXCEPT ![f] = c]
      BY <1>3, <2>3, <2>5 DEF Assign
    <3> QED
      BY <1>0, <2>3, <2>4, <3>1, StoredChanged DEF TypeInv, TypeOK
  <2>6. CASE f \notin present
    <3>1. UNCHANGED <<assigned, manualStore>>
      BY <1>3, <2>3, <2>6 DEF Assign
    <3> QED
      BY <2>4, <3>1, StoredKept DEF TypeInv, TypeOK
  <2> QED
    BY <2>5, <2>6
<1>4. CASE EndTargets \/ SaveAssigns \/ EndAssigns \/ Tune \/ SaveSettings \/ EndRetarget
  BY <1>4, StoredKept DEF EndTargets, SaveAssigns, EndAssigns, Tune, SaveSettings,
     EndRetarget, TypeInv, TypeOK
<1> QED
  BY <1>1, <1>2, <1>3, <1>4 DEF Applying

LEMMA StoredCalibrating ==
  ASSUME RestartInv, Calibrating \/ NextDuty PROVE AllStored'
<1> USE DEF RestartInv, StoreInv, sessionVars, curveVars, storeVars
<1>1. CASE StartCalibration \/ NextDuty
  BY <1>1, LadderRemembered, StoredKept DEF StartCalibration, NextDuty, TypeInv, TypeOK
<1>2. CASE SkipCalibration
  <2>1. \A d \in Drive : Unramped(d).requested = d.requested
    BY DEF Drive, Unramped, Ramped
  <2> QED
    BY <1>2, <2>1, StoredKept DEF SkipCalibration, TypeInv, TypeOK
<1>3. CASE EndLadder \/ EndCalibration
  BY <1>3, StoredKept DEF EndLadder, EndCalibration, TypeInv, TypeOK
<1>4. ASSUME NEW f \in Fans, Restore(f) PROVE AllStored'
  <2>1. restore[f] \in Targets /\ open
    BY <1>4 DEF Restore, TypeInv, TypeOK, TodoOK, KindInv, WithSession
  <2>2. /\ drive'[f].requested = StoredTarget(restore[f])
        /\ \A g \in Fans \ {f} : drive'[g].requested = drive[g].requested
    BY <1>4, <2>1, RequestRemembered DEF Restore
  <2> QED
    BY <1>4, <2>1, <2>2, StoredChanged DEF Restore, TypeInv, TypeOK
<1> QED
  BY <1>1, <1>2, <1>3, <1>4 DEF Calibrating

LEMMA StoredPolling == ASSUME RestartInv, Polling PROVE AllStored'
<1> USE DEF RestartInv, StoreInv, sessionVars, curveVars, storeVars
<1>0. open
  BY DEF KindInv, WithSession, Applied, Polling, EndRamps, Update, NoUpdate, TickRamp,
     DropVanished, HoldReading, DriveByCurve
<1>1. CASE EndRamps \/ Update \/ NoUpdate
  BY <1>1, StoredKept DEF EndRamps, Update, NoUpdate, TypeInv, TypeOK
<1>2. ASSUME NEW f \in Fans, TickRamp(f) PROVE AllStored'
  BY <1>2, TickRemembered, StoredKept DEF TickRamp, TypeInv, TypeOK
<1>3. ASSUME NEW f \in Fans, HoldReading(f) PROVE AllStored'
  BY <1>3, StoredKept DEF HoldReading, TypeInv, TypeOK
<1>4. ASSUME NEW f \in Fans, DropVanished(f) PROVE AllStored'
  <2>1. /\ assigned[f] # None
        /\ \A g \in Fans \ {f} : drive'[g].requested = drive[g].requested
    BY <1>4, RequestRemembered
    DEF DropVanished, NoRequest, TypeInv, TodoOK, Targets
  <2> QED
    BY <1>0, <1>4, <2>1, StoredChanged DEF DropVanished
<1>5. ASSUME NEW f \in Fans, NEW r \in Readings, DriveByCurve(f, r) PROVE AllStored'
  <2>1. PICK to \in CurveTargets(f, r) :
          IF written[f] # Command(f, to)
            THEN RequestTarget(f, to, TRUE)
            ELSE drive' = [drive EXCEPT ![f].requested = to]
    BY <1>5 DEF DriveByCurve
  <2>2. to \in Targets /\ assigned[f] # None
    BY CurveTargetsType, <1>5 DEF DriveByCurve, TypeInv, TodoOK, Targets
  <2>3. \A g \in Fans \ {f} : drive'[g] = drive[g]
    BY <2>1, <2>2, RequestTargetType DEF TypeInv, TypeOK
  <2> QED
    BY <1>0, <1>5, <2>2, <2>3, StoredChanged DEF DriveByCurve
<1> QED
  BY <1>1, <1>2, <1>3, <1>4, <1>5 DEF Polling

LEMMA StoredEnding == ASSUME RestartInv, Ending \/ Crash PROVE AllStored'
<1> USE DEF RestartInv, StoreInv, sessionVars, curveVars, storeVars
<1>1. CASE Boot
  BY <1>1 DEF Boot, AllStored, StoresDrive, Running
<1>2. CASE Crash
  BY <1>2, StoredDropped
<1>3. ASSUME NEW r \in Requests, Stop(r) \/ AbortCalibration(r) PROVE AllStored'
  BY <1>3, StoredDropped DEF Stop, AbortCalibration
<1> QED
  BY <1>1, <1>2, <1>3 DEF Ending

LEMMA RestartStep == RestartInv /\ [Next]_vars => RestartInv'
<1> SUFFICES ASSUME RestartInv, [Next]_vars PROVE RestartInv'
  OBVIOUS
<1>0. StoreInv /\ TypeInv /\ KindInv /\ NoReleases /\ Queued /\ AllStored
  BY DEF RestartInv, StoreInv
<1>1. StoreInv' /\ KindInv' /\ Queued'
  BY <1>0, StoreStep, KindStep, QueueStep
<1>2. NoReleases'
  BY <1>0 DEF NoReleases
<1>3. CASE UNCHANGED vars
  <2>1. UNCHANGED <<open, present, drive, assigned, manualStore>>
    BY <1>3 DEF vars, sessionVars, curveVars, storeVars
  <2>2. present \subseteq Fans
    BY <1>0 DEF TypeInv, TypeOK
  <2> QED
    BY <1>0, <1>1, <1>2, <2>1, <2>2, StoredKept DEF RestartInv
<1>4. CASE Next
  <2>1. AllStored'
    BY <1>4, StoredDetection, StoredBatching, StoredApplying, StoredCalibrating,
       StoredPolling, StoredEnding DEF Next, Orderly, Working
  <2> QED
    BY <1>1, <1>2, <2>1 DEF RestartInv
<1> QED
  BY <1>3, <1>4

(* Where no client takes a curve away by an empty assignment, a restart    *)
(* between batches finds every fan of the session in exactly its mode.     *)
THEOREM RestartCorrect == Spec /\ NoReleases => []RestartKeepsMode
<1>1. Init /\ NoReleases => RestartInv
  BY InitStores, InitSession
  DEF Init, EmptyBatch, CurveInv, RestartInv, Queued, Listed, AllStored
<1>2. RestartInv => RestartKeepsMode
  <2> SUFFICES ASSUME RestartInv, pc = "recv", NEW f \in present
               PROVE  DurableMode[f] = Mode(f)
    BY DEF RestartKeepsMode
  <2>1. /\ f \in Fans /\ assigned[f] = disk.curves[f]
        /\ manualStore[f] = disk.manual[f]
        /\ assigned[f] = None => drive[f].requested = manualStore[f]
    BY DEF RestartInv, AllStored, StoreInv, StoresSaved, StoresDrive, Running,
       TypeInv, TypeOK
  <2> QED
    BY <2>1 DEF Mode, DurableMode, ModeOf
<1> QED
  BY <1>1, <1>2, RestartStep, PTL DEF Spec
-----------------------------------------------------------------------------
(* Without calibrations, which store what they read back, every target on  *)
(* its way into the store is one that a client sent for that fan.          *)
NoCalibrations == \A r \in Requests : r.op # "calibrate"
SentInv ==
  /\ TypeInv /\ NoCalibrations
  /\ ~batch.calibrate /\ pc \notin {"calibrate", "ladder", "restore"}
  /\ \A f \in Fans : /\ batch.targets[f] # None => Sent(f, batch.targets[f])
                     /\ manualStore[f] # None => Sent(f, manualStore[f])
                     /\ disk.manual[f] # None => Sent(f, disk.manual[f])

(* A step that stores nothing but what the batch or the stores have.       *)
LEMMA SentKept ==
  ASSUME SentInv, TypeInv',
         UNCHANGED <<batch.calibrate, batch.targets>> \/ batch' = EmptyBatch,
         pc' \notin {"calibrate", "ladder", "restore"},
         \A f \in Fans : manualStore'[f] \in {manualStore[f], disk.manual[f], None},
         \A f \in Fans : disk'.manual[f] \in {disk.manual[f], manualStore[f]}
  PROVE  SentInv'
<1>1. NoCalibrations'
  BY DEF SentInv, NoCalibrations
<1>2. ~batch'.calibrate
  BY DEF SentInv, EmptyBatch
<1>3. ASSUME NEW f \in Fans, batch'.targets[f] # None PROVE Sent(f, batch'.targets[f])
  BY <1>3 DEF SentInv, EmptyBatch
<1>4. ASSUME NEW f \in Fans, manualStore'[f] # None PROVE Sent(f, manualStore'[f])
  BY <1>4 DEF SentInv
<1>5. ASSUME NEW f \in Fans, disk'.manual[f] # None PROVE Sent(f, disk'.manual[f])
  BY <1>5 DEF SentInv
<1> QED
  BY <1>1, <1>2, <1>3, <1>4, <1>5 DEF SentInv, Sent

LEMMA SentTaken == ASSUME SentInv, TypeInv', NEW r \in Requests, Take(r) PROVE SentInv'
<1>1. /\ r \in Request /\ r.op # "calibrate" /\ r.op # "shutdown" /\ batch \in Batch
      /\ batch' = [Added(batch, r) EXCEPT !.size = @ + 1]
      /\ UNCHANGED <<pc, manualStore, disk>> /\ TypeInv
  BY InputsAssumption DEF SentInv, NoCalibrations, Take, TypeInv, TypeOK, storeVars
<1>2. CASE r.op = "target"
  <2>1. r.fan \in Fans /\ r = [op |-> "target", fan |-> r.fan, to |-> r.to]
    BY <1>1, <1>2 DEF Request, TargetRequest, AssignRequest, SettingsRequest,
       CurvesRequest, PlainRequest
  <2>2. /\ batch'.calibrate = batch.calibrate
        /\ batch'.targets = [batch.targets EXCEPT ![r.fan] = r.to]
    BY <1>1, <1>2 DEF Added, Batch
  <2>3. batch.targets \in [Fans -> Targets \cup {None}]
    BY <1>1 DEF Batch
  <2>4. \A f \in Fans : batch'.targets[f] # None => Sent(f, batch'.targets[f])
    BY <2>1, <2>2, <2>3 DEF Sent, SentInv
  <2> QED
    BY <1>1, <2>2, <2>4 DEF SentInv, Sent, NoCalibrations
<1>3. CASE r.op # "target"
  <2>1. r.op \in {"assign", "settings", "curves", "redetect"}
    BY <1>1, <1>3 DEF Request, TargetRequest, AssignRequest, SettingsRequest,
       CurvesRequest, PlainRequest
  <2>2. UNCHANGED <<batch.calibrate, batch.targets>>
    BY <1>1, <2>1 DEF Added, Batch
  <2> QED
    BY <1>1, <2>2, SentKept DEF SentInv
<1> QED
  BY <1>2, <1>3

LEMMA SentServed ==
  ASSUME SentInv, TypeInv', NEW f \in Fans, ServeTarget(f) PROVE SentInv'
<1>1. /\ batch.targets[f] # None /\ Sent(f, batch.targets[f])
      /\ UNCHANGED <<pc, batch>> /\ disk'.manual = disk.manual
  BY DEF ServeTarget, SentInv, TypeInv, TypeOK, TodoOK
<1>2. /\ \A g \in Fans \ {f} : manualStore'[g] = manualStore[g]
      /\ manualStore'[f] \in {manualStore[f], StoredTarget(batch.targets[f])}
  BY DEF ServeTarget, SentInv, TypeInv, TypeOK
<1>3. \A g \in Fans : manualStore'[g] # None => Sent(g, manualStore'[g])
  BY <1>1, <1>2 DEF StoredTarget, SentInv
<1> QED
  BY <1>1, <1>3 DEF SentInv, Sent, NoCalibrations

LEMMA SentStep == SentInv /\ [Next]_vars => SentInv'
<1> SUFFICES ASSUME SentInv, [Next]_vars PROVE SentInv'
  OBVIOUS
<1>0. /\ TypeInv' /\ TypeInv /\ batch \in Batch /\ ~batch.calibrate
      /\ pc \notin {"calibrate", "ladder", "restore"}
  BY TypeStep DEF SentInv, TypeInv, TypeOK
<1>1. ASSUME UNCHANGED <<manualStore, disk>>,
             UNCHANGED <<batch.calibrate, batch.targets>> \/ batch' = EmptyBatch,
             pc' \notin {"calibrate", "ladder", "restore"}
      PROVE  SentInv'
  BY <1>0, <1>1, SentKept
<1>2. CASE UNCHANGED vars
  BY <1>0, <1>1, <1>2 DEF vars, storeVars
<1>3. CASE Detection
  <2>1. UNCHANGED <<manualStore, disk, batch>> /\ pc' \in {"resume", "recv"}
    BY <1>3 DEF Detection, Detect, EndDetect, DetectFails, NotDue, Resume, storeVars
  <2> QED
    BY <1>1, <2>1
<1>4. CASE Hearing
  BY <1>0, <1>4, SentTaken DEF Hearing, Pump
<1>5. CASE Batching
  <2>1. CASE BeginBatch
    BY <1>0, <1>1, <2>1 DEF BeginBatch, NewDefs, storeVars, Batch
  <2>2. CASE DiscardBatch \/ Redetect
    BY <1>1, <2>2 DEF DiscardBatch, Redetect, DropSession, ClearSession, storeVars
  <2> QED
    BY <1>5, <2>1, <2>2 DEF Batching
<1>6. CASE Applying
  <2>1. CASE EndTargets \/ EndAssigns
    <3>1. /\ UNCHANGED <<batch, manualStore>>
          /\ pc' \notin {"calibrate", "ladder", "restore"}
      BY <1>0, <2>1 DEF EndTargets, EndAssigns, Proceed, AfterTargets, AfterAssigns,
         storeVars
    <3>2. disk'.manual = manualStore
      BY <1>0, <2>1 DEF EndTargets, EndAssigns, TypeInv, TypeOK
    <3> QED
      BY <1>0, <3>1, <3>2, SentKept
  <2>2. CASE Assign
    <3>1. pc' = pc /\ disk' = disk
      BY <2>2 DEF Assign
    <3>2. UNCHANGED <<batch.calibrate, batch.targets>>
      BY <1>0, <2>2 DEF Assign, Batch
    <3>3. \A f \in Fans : manualStore'[f] \in {manualStore[f], None}
      <4>1. \/ manualStore' = manualStore
            \/ \E f : manualStore' = [manualStore EXCEPT ![f] = None]
        BY <2>2 DEF Assign
      <4>2. manualStore \in [Fans -> Levels \cup {None}]
        BY <1>0 DEF TypeInv, TypeOK
      <4> QED
        BY <4>1, <4>2
    <3>4. /\ \A f \in Fans : manualStore'[f] \in {manualStore[f], disk.manual[f], None}
          /\ \A f \in Fans : disk'.manual[f] \in {disk.manual[f], manualStore[f]}
          /\ pc' \notin {"calibrate", "ladder", "restore"}
      BY <1>0, <3>1, <3>3
    <3> QED
      BY <1>0, <3>2, <3>4, SentKept
  <2>3. CASE SaveAssigns \/ SaveSettings
    <3>1. manualStore' = manualStore /\ pc' \in {"assigned", "retarget"}
      BY <2>3 DEF SaveAssigns, SaveSettings, storeVars
    <3>2. UNCHANGED <<batch.calibrate, batch.targets>>
      BY <1>0, <2>3 DEF SaveAssigns, SaveSettings, Batch
    <3>3. disk'.manual = disk.manual
      BY <1>0, <2>3 DEF SaveAssigns, SaveSettings, TypeInv, TypeOK
    <3> QED
      BY <1>0, <3>1, <3>2, <3>3, SentKept
  <2>4. CASE Tune
    BY <1>0, <1>1, <2>4 DEF Tune, Batch
  <2>5. CASE EndRetarget
    BY <1>0, <1>1, <2>5 DEF EndRetarget, Proceed, storeVars
  <2>6. ASSUME NEW f \in Fans, Retarget(f) PROVE SentInv'
    BY <1>0, <1>1, <2>6 DEF Retarget, storeVars
  <2> QED
    BY <1>0, <1>6, <2>1, <2>2, <2>3, <2>4, <2>5, <2>6, SentServed DEF Applying
<1>7. CASE Calibrating \/ NextDuty
  BY <1>0, <1>7 DEF Calibrating, StartCalibration, SkipCalibration, NextDuty, EndLadder,
     Restore, EndCalibration
<1>8. CASE Polling
  <2>1. UNCHANGED <<manualStore, disk>> /\ pc' \in {"ramps", "curves", "recv"}
    BY <1>8 DEF Polling, EndRamps, Update, NoUpdate, TickRamp, DropVanished, HoldReading,
       DriveByCurve, storeVars
  <2>2. CASE EndRamps
    BY <1>0, <1>1, <2>1, <2>2 DEF EndRamps, Batch
  <2>3. CASE Update \/ NoUpdate
    BY <1>1, <2>1, <2>3 DEF Update, NoUpdate
  <2>4. ASSUME NEW f \in Fans, TickRamp(f) \/ DropVanished(f) \/ HoldReading(f)
        PROVE  SentInv'
    BY <1>1, <2>1, <2>4 DEF TickRamp, DropVanished, HoldReading
  <2>5. ASSUME NEW f \in Fans, NEW r \in Readings, DriveByCurve(f, r) PROVE SentInv'
    BY <1>1, <2>1, <2>5 DEF DriveByCurve
  <2> QED
    BY <1>8, <2>2, <2>3, <2>4, <2>5 DEF Polling
<1>9. CASE Boot
  BY <1>0, <1>9, SentKept DEF Boot
<1>10. CASE Crash
  BY <1>1, <1>10 DEF Crash, ClearSession, storeVars
<1>11. ASSUME NEW r \in Requests, Stop(r) \/ AbortCalibration(r) PROVE SentInv'
  BY <1>1, <1>11 DEF Stop, AbortCalibration, DropSession, ClearSession, storeVars
<1> QED
  BY <1>2, <1>3, <1>4, <1>5, <1>6, <1>7, <1>8, <1>9, <1>10, <1>11
  DEF Next, Orderly, Working, Ending

(* Where no calibration runs, what a restart would re-apply by hand is     *)
(* what a client once sent for that fan: never a curve's output, never     *)
(* another fan's target.                                                   *)
THEOREM SentCorrect == Spec /\ NoCalibrations => []TargetsWereSent
<1>1. Init /\ NoCalibrations => SentInv
  BY InitType DEF Init, EmptyBatch, Nobody, SentInv
<1>2. SentInv => TargetsWereSent
  BY DEF SentInv, Sent, TargetsWereSent
<1> QED
  BY <1>1, <1>2, SentStep, PTL DEF Spec

-----------------------------------------------------------------------------
(* The worker implements FanModes: every step leaves the durable modes, or *)
(* moves them as FanModes lets it.                                         *)

NothingAsked == /\ batch'.targets = batch.targets
                /\ batch'.assigns = batch.assigns
                /\ batch'.calibrate = batch.calibrate
DiskKept == disk'.curves = disk.curves /\ disk'.manual = disk.manual

(* A step of FanModes, or none.                                            *)
ModeStep == Modes!Next \/ UNCHANGED Modes!vars

LEMMA KeptAsked == NothingAsked => UNCHANGED <<AskedModes, batch.calibrate>>
  BY DEF NothingAsked, AskedModes

LEMMA KeptModes == DiskKept => UNCHANGED DurableMode
  BY DEF DiskKept, DurableMode

LEMMA KeptStutters == NothingAsked /\ DiskKept => ModeStep
  BY KeptAsked, KeptModes DEF ModeStep, Modes!vars

(* Dropping what is left of a batch is forgetting.                         *)
LEMMA EmptyForgets == batch' = EmptyBatch /\ DiskKept => ModeStep
<1> SUFFICES ASSUME batch' = EmptyBatch, DiskKept PROVE Modes!Forget
  BY DEF ModeStep, Modes!Next
<1>1. /\ batch'.targets = [f \in Fans |-> None] /\ batch'.assigns = <<>>
      /\ batch'.calibrate = FALSE
  BY DEF EmptyBatch
<1>2. AskedModes' = [f \in Fans |-> {}]
  BY <1>1 DEF AskedModes
<1> QED
  BY <1>1, <1>2, KeptModes DEF Modes!Forget

LEMMA ModesType ==
  /\ \A c \in Curves \cup {None}, t \in Targets \cup {None} :
       ModeOf(c, t) \in Modes!Modes
  /\ \A t \in Targets \cup {None} : ModeOf(None, t) \in Modes!Manual
<1>1. \A c \in Curves \cup {None}, t \in Targets \cup {None} :
        ModeOf(c, t) \in Modes!Modes
  BY DEF ModeOf, Modes!Modes, Modes!Manual, Modes!CurveModes
<1> QED
  BY <1>1 DEF ModeOf, Modes!Manual

(* Fans keep their modes or move as they may, and the batch stays.         *)
LEMMA SettleStep ==
  ASSUME NothingAsked, TypeOK',
         \A f \in Fans : \/ DurableMode'[f] = DurableMode[f]
                         \/ Modes!MayMove(f, DurableMode'[f])
  PROVE  ModeStep
<1>1. DurableMode' \in [Fans -> Modes!Modes]
  BY ModesType DEF TypeOK, DurableMode, Targets
<1> QED
  BY <1>1, KeptAsked DEF ModeStep, Modes!Next, Modes!Settle

LEMMA AskedTarget ==
  ASSUME TypeOK, NEW f \in Fans, batch.targets[f] # None
  PROVE  /\ batch.targets[f] \in Targets
         /\ ModeOf(None, batch.targets[f]) \in AskedModes[f]
  BY DEF AskedModes, TypeOK, Batch

LEMMA AskedAssign ==
  ASSUME NEW f \in Fans, Reassigned(f)
  PROVE  ModeOf(curveStore[f], None) \in AskedModes[f]
  BY DEF AskedModes, Reassigned

(* Serving a target takes the fan off its curve, as the target asks.       *)
LEMMA ServeTargetMode ==
  ASSUME StoreInv, TypeOK', NEW f \in Fans, ServeTarget(f) PROVE ModeStep
<1>1. /\ NothingAsked /\ disk'.manual = disk.manual
      /\ \A g \in Fans \ {f} : disk'.curves[g] = disk.curves[g]
      /\ disk'.curves[f] \in {disk.curves[f], None}
      /\ batch.targets[f] # None
  BY DEF ServeTarget, NothingAsked, StoreInv, StoresSaved, Running, TypeInv,
     TypeOK, TodoOK
<1>2. \A g \in Fans \ {f} : DurableMode'[g] = DurableMode[g]
  BY <1>1 DEF DurableMode
<1>3. CASE disk'.curves[f] = disk.curves[f]
  BY <1>1, <1>2, <1>3, SettleStep DEF DurableMode
<1>4. CASE disk'.curves[f] = None
  <2>1. /\ DurableMode'[f] = ModeOf(None, disk.manual[f])
        /\ disk.manual[f] \in Targets \cup {None}
    BY <1>1, <1>4 DEF DurableMode, StoreInv, TypeInv, TypeOK, Targets
  <2>2. DurableMode'[f] \in Modes!Manual
    BY <2>1, ModesType
  <2>3. AskedModes[f] \cap Modes!Manual # {}
    BY <1>1, AskedTarget, ModesType DEF StoreInv, TypeInv
  <2>4. DurableMode[f] \in Modes!Manual => DurableMode'[f] = DurableMode[f]
    BY <2>1 DEF DurableMode, ModeOf, Modes!Manual
  <2> QED
    BY <1>1, <1>2, <2>2, <2>3, <2>4, SettleStep DEF Modes!MayMove
<1> QED
  BY <1>1, <1>3, <1>4

(* Saving the manual targets settles the fans that targets were sent for.  *)
LEMMA EndTargetsMode ==
  ASSUME StoreInv, TypeOK', EndTargets PROVE ModeStep
<1>1. /\ NothingAsked /\ disk'.curves = disk.curves
      /\ disk'.manual = manualStore
      /\ \A f \in Fans : \/ manualStore[f] = disk.manual[f]
                         \/ /\ batch.targets[f] # None
                            /\ manualStore[f] = StoredTarget(batch.targets[f])
  BY DEF EndTargets, NothingAsked, StoreInv, StoresSaved, Running, TypeInv,
     TypeOK, storeVars
<1>2. ASSUME NEW f \in Fans
      PROVE  \/ DurableMode'[f] = DurableMode[f]
             \/ Modes!MayMove(f, DurableMode'[f])
  <2>1. /\ DurableMode[f] = ModeOf(disk.curves[f], disk.manual[f])
        /\ DurableMode'[f] = ModeOf(disk.curves[f], manualStore[f])
    BY <1>1 DEF DurableMode
  <2>2. CASE disk.curves[f] # None \/ manualStore[f] = disk.manual[f]
    BY <2>1, <2>2 DEF ModeOf
  <2>3. CASE /\ disk.curves[f] = None /\ batch.targets[f] # None
             /\ manualStore[f] = StoredTarget(batch.targets[f])
    <3>1. DurableMode'[f] = ModeOf(None, batch.targets[f])
      BY <2>1, <2>3, MarkersAssumption DEF ModeOf, StoredTarget
    <3> QED
      BY <2>3, <3>1, AskedTarget DEF Modes!MayMove, StoreInv, TypeInv
  <2> QED
    BY <1>1, <2>2, <2>3
<1> QED
  BY <1>1, <1>2, SettleStep

(* Saving the assignments puts fans on curves, or back to a manual mode.   *)
LEMMA SaveAssignsMode ==
  ASSUME StoreInv, TypeOK', SaveAssigns PROVE ModeStep
<1>1. /\ NothingAsked /\ disk'.curves = curveStore /\ disk'.manual = disk.manual
      /\ \A f \in Fans : curveStore[f] = disk.curves[f] \/ Reassigned(f)
  BY DEF SaveAssigns, NothingAsked, StoreInv, StoresSaved, Running, TypeInv,
     TypeOK, Batch
<1>2. ASSUME NEW f \in Fans, Reassigned(f), curveStore[f] # disk.curves[f]
      PROVE  Modes!MayMove(f, DurableMode'[f])
  <2>1. /\ DurableMode[f] = ModeOf(disk.curves[f], disk.manual[f])
        /\ DurableMode'[f] = ModeOf(curveStore[f], disk.manual[f])
        /\ disk.manual[f] \in Targets \cup {None}
    BY <1>1 DEF DurableMode, StoreInv, TypeInv, TypeOK, Targets
  <2>2. ModeOf(curveStore[f], None) \in AskedModes[f]
    BY <1>2, AskedAssign
  <2>3. CASE curveStore[f] # None
    BY <2>1, <2>2, <2>3 DEF ModeOf, Modes!MayMove
  <2>4. CASE curveStore[f] = None
    <3>1. DurableMode'[f] \in Modes!Manual /\ DurableMode[f] \notin Modes!Manual
      BY <1>2, <2>1, <2>4, ModesType DEF ModeOf, Modes!Manual
    <3>2. ModeOf(None, None) \in AskedModes[f] \cap Modes!Manual
      BY <2>2, <2>4, ModesType
    <3> QED
      BY <3>1, <3>2 DEF Modes!MayMove
  <2> QED
    BY <2>3, <2>4
<1>3. \A f \in Fans : curveStore[f] = disk.curves[f]
                        => DurableMode'[f] = DurableMode[f]
  BY <1>1 DEF DurableMode
<1> QED
  BY <1>1, <1>2, <1>3, SettleStep

LEMMA EndAssignsMode ==
  ASSUME StoreInv, TypeOK', EndAssigns PROVE ModeStep
<1>1. /\ NothingAsked /\ disk'.curves = disk.curves
      /\ disk'.manual = manualStore /\ disk.curves = curveStore
      /\ \A f \in Fans : manualStore[f] = disk.manual[f] \/ Reassigned(f)
  BY DEF EndAssigns, NothingAsked, StoreInv, StoresSaved, Running, TypeInv,
     TypeOK, storeVars
<1>2. ASSUME NEW f \in Fans, Reassigned(f)
      PROVE  Modes!MayMove(f, DurableMode'[f])
  <2>1. DurableMode'[f] = ModeOf(curveStore[f], None)
    BY <1>1, <1>2 DEF DurableMode, Reassigned
  <2> QED
    BY <1>2, <2>1, AskedAssign DEF Modes!MayMove
<1>3. \A f \in Fans : manualStore[f] = disk.manual[f]
                        => DurableMode'[f] = DurableMode[f]
  BY <1>1 DEF DurableMode
<1> QED
  BY <1>1, <1>2, <1>3, SettleStep

(* A calibration stores whatever its plan held, but only below curves.     *)
LEMMA EndCalibrationMode ==
  ASSUME StoreInv, TypeOK', EndCalibration PROVE ModeStep
<1>1. /\ NothingAsked /\ batch.calibrate /\ disk'.curves = disk.curves
  BY DEF EndCalibration, NothingAsked, StoreInv, StoresSaved, Running, TypeInv,
     TypeOK
<1>2. ASSUME NEW f \in Fans
      PROVE  \/ DurableMode'[f] = DurableMode[f]
             \/ Modes!MayMove(f, DurableMode'[f])
  <2>1. /\ DurableMode[f] = ModeOf(disk.curves[f], disk.manual[f])
        /\ DurableMode'[f] = ModeOf(disk.curves[f], disk'.manual[f])
        /\ {disk.manual[f], disk'.manual[f]} \subseteq Targets \cup {None}
    BY <1>1 DEF DurableMode, StoreInv, TypeInv, TypeOK, Targets
  <2>2. CASE disk.curves[f] # None
    BY <2>1, <2>2 DEF ModeOf
  <2>3. CASE disk.curves[f] = None
    <3>1. {DurableMode[f], DurableMode'[f]} \subseteq Modes!Manual
      BY <2>1, <2>3, ModesType
    <3>2. DurableMode[f] \notin Modes!CurveModes
      BY <3>1 DEF Modes!Manual, Modes!CurveModes
    <3> QED
      BY <1>1, <3>1, <3>2 DEF Modes!MayMove
  <2> QED
    BY <2>2, <2>3
<1> QED
  BY <1>1, <1>2, SettleStep

(* A request taken into the batch is a mode asked for, or none of FanModes'*)
(* concern.                                                                *)
LEMMA TakeMode ==
  ASSUME StoreInv, NEW r \in Requests, Take(r) PROVE ModeStep
<1>1. /\ r \in Request /\ batch \in Batch /\ DiskKept
      /\ batch' = [Added(batch, r) EXCEPT !.size = @ + 1]
      /\ r.op # "shutdown"
  BY InputsAssumption DEF Take, DiskKept, StoreInv, TypeInv, TypeOK
<1>2. CASE r.op = "target"
  <2>1. /\ r.fan \in Fans /\ r.to \in Targets
        /\ batch'.targets = [batch.targets EXCEPT ![r.fan] = r.to]
        /\ batch'.assigns = batch.assigns /\ batch'.calibrate = batch.calibrate
    BY <1>1, <1>2 DEF Added, Batch, Request, TargetRequest, AssignRequest,
       SettingsRequest, CurvesRequest, PlainRequest
  <2> DEFINE queued(f) == {ModeOf(batch.assigns[i].to, None) :
                 i \in {j \in DOMAIN batch.assigns : batch.assigns[j].fan = f}}
             sent == IF batch.targets[r.fan] = None THEN {}
                       ELSE {ModeOf(None, batch.targets[r.fan])}
             old == sent \ queued(r.fan)
  <2>2. AskedModes[r.fan] = sent \cup queued(r.fan)
    BY <2>1 DEF AskedModes
  <2>3. AskedModes' = [AskedModes EXCEPT
                         ![r.fan] = (@ \ old) \cup {ModeOf(None, r.to)}]
    <3>1. /\ AskedModes'[r.fan] = {ModeOf(None, r.to)} \cup queued(r.fan)
          /\ \A f \in Fans \ {r.fan} : AskedModes'[f] = AskedModes[f]
      <4>1. batch'.targets[r.fan] = r.to /\ r.to # None
        BY <1>1, <2>1, MarkersAssumption DEF Targets, Batch
      <4>2. \A f \in Fans \ {r.fan} : batch'.targets[f] = batch.targets[f]
        BY <1>1, <2>1 DEF Batch
      <4>3. AskedModes'[r.fan] = {ModeOf(None, r.to)} \cup queued(r.fan)
        BY <2>1, <4>1 DEF AskedModes
      <4>4. \A f \in Fans \ {r.fan} : AskedModes'[f] = AskedModes[f]
        BY <2>1, <4>2 DEF AskedModes
      <4> QED
        BY <4>3, <4>4
    <3>2. {ModeOf(None, r.to)} \cup queued(r.fan)
            = (AskedModes[r.fan] \ old) \cup {ModeOf(None, r.to)}
      BY <2>2
    <3>3. /\ AskedModes' = [f \in Fans |-> AskedModes'[f]]
          /\ AskedModes = [f \in Fans |-> AskedModes[f]]
      BY DEF AskedModes
    <3> HIDE DEF queued, old, sent
    <3> QED
      BY <2>1, <3>1, <3>2, <3>3
  <2>4. old \subseteq AskedModes[r.fan] /\ ModeOf(None, r.to) \in Modes!Modes
    BY <2>1, <2>2, ModesType
  <2> HIDE DEF old
  <2>5. Modes!Ask
    BY <1>1, <2>1, <2>3, <2>4, KeptModes DEF Modes!Ask
  <2> QED
    BY <2>5 DEF ModeStep, Modes!Next
<1>3. CASE r.op = "assign"
  <2>1. /\ r.fan \in Fans /\ r.to \in Curves \cup {None}
        /\ batch'.targets = batch.targets
        /\ batch'.assigns = Append(batch.assigns, [fan |-> r.fan, to |-> r.to])
        /\ batch'.calibrate = batch.calibrate
    BY <1>1, <1>3 DEF Added, Batch, Request, TargetRequest, AssignRequest,
       SettingsRequest, CurvesRequest, PlainRequest
  <2>2. batch.assigns \in Seq([fan: Fans, to: Curves \cup {None}])
    BY <1>1 DEF Batch
  <2>3. AskedModes' = [AskedModes EXCEPT
                         ![r.fan] = (@ \ {}) \cup {ModeOf(r.to, None)}]
    <3>1. /\ DOMAIN batch'.assigns = DOMAIN batch.assigns
                                       \cup {Len(batch.assigns) + 1}
          /\ \A i \in DOMAIN batch.assigns :
               batch'.assigns[i] = batch.assigns[i]
          /\ batch'.assigns[Len(batch.assigns) + 1].fan = r.fan
          /\ batch'.assigns[Len(batch.assigns) + 1].to = r.to
      BY <2>1, <2>2
    <3> DEFINE n == Len(batch.assigns) + 1
               own(f) == {j \in DOMAIN batch.assigns : batch.assigns[j].fan = f}
               grown(f) == {j \in DOMAIN batch'.assigns :
                              batch'.assigns[j].fan = f}
    <3>2. \A f \in Fans : grown(f) = IF f = r.fan THEN own(f) \cup {n}
                                                  ELSE own(f)
      BY <3>1
    <3>3. \A f \in Fans : \A i \in own(f) : batch'.assigns[i] = batch.assigns[i]
      BY <3>1
    <3>4. \A f \in Fans :
            {ModeOf(batch'.assigns[i].to, None) : i \in grown(f)} =
            {ModeOf(batch.assigns[i].to, None) : i \in own(f)}
              \cup (IF f = r.fan THEN {ModeOf(r.to, None)} ELSE {})
      <4> HIDE DEF n, own, grown
      <4>1. batch'.assigns[n].to = r.to
        BY <3>1 DEF n
      <4> QED
        BY <3>2, <3>3, <4>1
    <3>5. \A f \in Fans \ {r.fan} : AskedModes'[f] = AskedModes[f]
      BY <2>1, <3>4 DEF AskedModes
    <3>6. AskedModes'[r.fan] = AskedModes[r.fan] \cup {ModeOf(r.to, None)}
      BY <2>1, <3>4 DEF AskedModes
    <3>7. /\ AskedModes' = [f \in Fans |-> AskedModes'[f]]
          /\ AskedModes = [f \in Fans |-> AskedModes[f]]
      BY DEF AskedModes
    <3> HIDE DEF n, own, grown
    <3> QED
      BY <2>1, <3>5, <3>6, <3>7
  <2>4. ModeOf(r.to, None) \in Modes!Modes
    BY <2>1, ModesType
  <2>5. Modes!Ask
    BY <1>1, <2>1, <2>3, <2>4, KeptModes DEF Modes!Ask
  <2> QED
    BY <2>5 DEF ModeStep, Modes!Next
<1>4. CASE r.op = "calibrate"
  <2>1. /\ batch'.targets = batch.targets /\ batch'.assigns = batch.assigns
        /\ batch'.calibrate = TRUE
    BY <1>1, <1>4 DEF Added, Batch
  <2>2. UNCHANGED AskedModes
    BY <2>1 DEF AskedModes
  <2> QED
    BY <1>1, <2>1, <2>2, KeptModes DEF ModeStep, Modes!Next, Modes!AskCalibration
<1>5. CASE r.op \in {"settings", "curves", "redetect"}
  <2>1. NothingAsked
    BY <1>1, <1>5 DEF Added, Batch, NothingAsked
  <2> QED
    BY <1>1, <2>1, KeptStutters
<1> QED
  BY <1>1, <1>2, <1>3, <1>4, <1>5 DEF Request, TargetRequest, AssignRequest,
     SettingsRequest, CurvesRequest, PlainRequest

LEMMA NextMode == StoreInv /\ TypeOK' /\ [Next]_vars => ModeStep
<1> SUFFICES ASSUME StoreInv, TypeOK', [Next]_vars PROVE ModeStep
  OBVIOUS
<1> USE DEF storeVars
<1>1. CASE UNCHANGED vars
  BY <1>1, KeptStutters DEF vars, NothingAsked, DiskKept
<1>2. CASE Detection
  BY <1>2, KeptStutters DEF Detection, Detect, Resume, EndDetect, DetectFails,
     NotDue, NothingAsked, DiskKept
<1>3. CASE Hearing
  <2>1. ASSUME NEW r \in Requests, Pump(r) PROVE ModeStep
    BY <2>1, KeptStutters DEF Pump, NothingAsked, DiskKept
  <2> QED
    BY <1>3, <2>1, TakeMode DEF Hearing
<1>4. CASE Batching
  <2>1. CASE BeginBatch
    BY <2>1, KeptStutters DEF BeginBatch, NewDefs, NothingAsked, DiskKept,
       StoreInv, TypeInv, TypeOK, Batch
  <2>2. CASE DiscardBatch \/ Redetect
    BY <2>2, EmptyForgets DEF DiscardBatch, Redetect, DropSession,
       ClearSession, DiskKept
  <2> QED
    BY <1>4, <2>1, <2>2 DEF Batching
<1>5. CASE Applying
  <2>1. CASE Assign \/ Tune
    BY <2>1, KeptStutters, ZenonT(30) DEF Assign, Tune, NothingAsked, DiskKept, StoreInv,
       TypeInv, TypeOK, Batch
  <2>2. CASE SaveSettings \/ EndRetarget
    BY <2>2, KeptStutters DEF SaveSettings, EndRetarget, NothingAsked, DiskKept,
       StoreInv, TypeInv, TypeOK
  <2>3. ASSUME NEW f \in Fans, Retarget(f) PROVE ModeStep
    BY <2>3, KeptStutters DEF Retarget, NothingAsked, DiskKept
  <2> QED
    BY <1>5, <2>1, <2>2, <2>3, ServeTargetMode, EndTargetsMode,
       SaveAssignsMode, EndAssignsMode DEF Applying
<1>6. CASE Calibrating \/ NextDuty
  <2>1. CASE StartCalibration \/ SkipCalibration \/ EndLadder \/ NextDuty
    BY <2>1, KeptStutters DEF StartCalibration, SkipCalibration, EndLadder,
       NextDuty, NothingAsked, DiskKept
  <2>2. ASSUME NEW f \in Fans, Restore(f) PROVE ModeStep
    BY <2>2, KeptStutters DEF Restore, NothingAsked, DiskKept
  <2> QED
    BY <1>6, <2>1, <2>2, EndCalibrationMode DEF Calibrating
<1>7. CASE Polling
  <2>1. CASE EndRamps
    BY <2>1, KeptStutters DEF EndRamps, NothingAsked, DiskKept, StoreInv,
       TypeInv, TypeOK, Batch
  <2>2. CASE Update \/ NoUpdate
    BY <2>2, EmptyForgets DEF Update, NoUpdate, DiskKept
  <2>3. ASSUME NEW f \in Fans, NEW r \in Readings,
               TickRamp(f) \/ DropVanished(f) \/ HoldReading(f)
                 \/ DriveByCurve(f, r)
        PROVE  ModeStep
    BY <2>3, KeptStutters DEF TickRamp, DropVanished, HoldReading,
       DriveByCurve, NothingAsked, DiskKept
  <2>4. ASSUME NEW f \in Fans, TickRamp(f) \/ DropVanished(f) \/ HoldReading(f)
        PROVE  ModeStep
    BY <2>4, KeptStutters DEF TickRamp, DropVanished, HoldReading, NothingAsked,
       DiskKept
  <2> QED
    BY <1>7, <2>1, <2>2, <2>3, <2>4 DEF Polling
<1>8. CASE Ending \/ Crash
  <2>1. CASE Boot
    BY <2>1, KeptStutters DEF Boot, NothingAsked, DiskKept
  <2>2. CASE Crash
    BY <2>2, EmptyForgets DEF Crash, ClearSession, DiskKept
  <2>3. ASSUME NEW r \in Requests, Stop(r) \/ AbortCalibration(r)
        PROVE  ModeStep
    BY <2>3, EmptyForgets DEF Stop, AbortCalibration, DropSession,
       ClearSession, DiskKept
  <2> QED
    BY <1>8, <2>1, <2>2, <2>3 DEF Ending
<1> QED
  BY <1>1, <1>2, <1>3, <1>4, <1>5, <1>6, <1>7, <1>8
  DEF Next, Orderly, Working

(* The worker implements FanModes: only a request moves a fan's durable    *)
(* mode, and only where it asks, whatever happens between and whenever the *)
(* service dies.                                                           *)
THEOREM ModesCorrect == Spec => ModesKept
<1>1. Init => Modes!Init
  <2> SUFFICES ASSUME Init PROVE Modes!Init
    OBVIOUS
  <2>1. /\ batch.targets = [f \in Fans |-> None] /\ batch.assigns = <<>>
        /\ batch.calibrate = FALSE
    BY DEF Init, EmptyBatch
  <2>2. AskedModes = [f \in Fans |-> {}]
    BY <2>1 DEF AskedModes
  <2>3. DurableMode = [f \in Fans |-> <<"auto">>]
    BY MarkersAssumption DEF Init, DurableMode, ModeOf, Nobody
  <2> QED
    BY <2>1, <2>2, <2>3 DEF Modes!Init
<1>2. StoreInv /\ StoreInv' /\ [Next]_vars => [Modes!Next]_(Modes!vars)
  BY NextMode DEF ModeStep, StoreInv, TypeInv
<1> QED
  BY <1>1, <1>2, InitStores, StoreStep, PTL DEF Spec, ModesKept, Modes!Spec
-----------------------------------------------------------------------------
(* The hardware: no fan stays pinned without a request, and each stands    *)
(* where its request and its curve's last write say, but one per failed    *)
(* write.                                                                  *)

(* Fans whose pin the calibration in progress has still to account for:    *)
(* all of the session, then those whose target is not yet restored.        *)
Excused == CASE pc = "ladder"  -> present
             [] pc = "restore" -> todo
             [] OTHER          -> {}

(* Only fans of the session are pinned or on a curve, a ramp has a request *)
(* behind it, and failed writes account for the rest.                      *)
Proper(d, f) == /\ d.touched => f \in present
                /\ d.ramp # None => d.requested # None
Orphan(d) == d.touched /\ d.requested = None
PinInv ==
  /\ StoreInv /\ CurveInv
  /\ \A f \in Fans : Proper(drive[f], f) /\ (assigned[f] # None => f \in present)
  /\ Cardinality(Orphans \ Excused) <= faults

LEMMA FewerOrphans ==
  ASSUME NEW S \in SUBSET Fans, NEW n \in Nat, Cardinality(S) <= n, NEW T, NEW x
  PROVE  /\ T \subseteq S => Cardinality(T) <= n
         /\ T \subseteq S \cup {x} => Cardinality(T) <= n + 1
<1>0. IsFiniteSet(S)
  BY FansAssumption, FS_Subset
<1>1. IsFiniteSet(S) /\ Cardinality(S) \in Nat
  BY <1>0, FS_CardinalityType
<1>2. /\ IsFiniteSet(S \cup {x}) /\ Cardinality(S \cup {x}) \in Nat
      /\ Cardinality(S \cup {x}) <= Cardinality(S) + 1
  <2>1. /\ IsFiniteSet(S \cup {x})
        /\ Cardinality(S \cup {x}) =
             IF x \in S THEN Cardinality(S) ELSE Cardinality(S) + 1
    BY <1>1, FS_AddElement
  <2> QED
    BY <1>1, <2>1
<1>3. T \subseteq S => Cardinality(T) \in Nat /\ Cardinality(T) <= Cardinality(S)
  BY <1>1, FS_Subset, FS_CardinalityType
<1>4. T \subseteq S \cup {x} =>
        Cardinality(T) \in Nat /\ Cardinality(T) <= Cardinality(S \cup {x})
  BY <1>2, FS_Subset, FS_CardinalityType
<1> QED
  BY <1>1, <1>2, <1>3, <1>4

(* Nothing about pins, requests and ramps changes, but ramps that end.     *)
LEMMA PinKept ==
  ASSUME PinInv, StoreInv', CurveInv', present' = present,
         \A f \in Fans : /\ drive'[f].touched = drive[f].touched
                         /\ drive'[f].requested = drive[f].requested
                         /\ drive'[f].ramp \in {drive[f].ramp, None}
                         /\ assigned'[f] \in {assigned[f], None},
         faults' = faults, Excused \subseteq Excused'
  PROVE  PinInv'
<1>1. Orphans \ Excused \in SUBSET Fans /\ faults \in Nat
  BY DEF Orphans, PinInv, StoreInv, TypeInv, TypeOK
<1>2. (Orphans \ Excused)' \subseteq Orphans \ Excused
  BY DEF Orphans
<1>3. Cardinality((Orphans \ Excused)') <= faults'
  BY <1>1, <1>2, FewerOrphans DEF PinInv
<1> QED
  BY <1>3 DEF PinInv, Proper

(* One fan changes, and is left an orphan only by a failed write.          *)
LEMMA PinChanged ==
  ASSUME PinInv, StoreInv', CurveInv', present' = present, NEW f \in Fans,
         \A g \in Fans \ {f} : drive'[g] = drive[g] /\ assigned'[g] = assigned[g],
         Proper(drive'[f], f), assigned'[f] # None => f \in present,
         faults' \in {faults, faults + 1},
         Orphan(drive'[f]) => f \in Orphans \ Excused \/ faults' = faults + 1,
         Excused \ {f} \subseteq Excused'
  PROVE  PinInv'
<1>1. Orphans \ Excused \in SUBSET Fans /\ faults \in Nat
  BY DEF Orphans, PinInv, StoreInv, TypeInv, TypeOK
<1>2. (Orphans \ Excused)' \subseteq (Orphans \ Excused) \cup {f}
  BY DEF Orphans
<1>3. faults' = faults => (Orphans \ Excused)' \subseteq Orphans \ Excused
  BY <1>1, <1>2 DEF Orphans, Orphan
<1>4. Cardinality((Orphans \ Excused)') <= faults'
  BY <1>1, <1>2, <1>3, FewerOrphans DEF PinInv
<1> QED
  BY <1>4 DEF PinInv, Proper

(* Taking on a target: a level becomes the request, and a release that     *)
(* leaves the fan pinned has failed.                                       *)
LEMMA OutcomesProper ==
  ASSUME TypeInv, NEW f \in Fans, NEW to \in Targets
  PROVE  \A o \in Outcomes(f, to) :
           /\ o.drive \in Drive
           /\ to = Automatic => ~o.drive.touched /\ o.drive.ramp = None
           /\ to # Automatic => o.drive.requested = to
<1>1. drive[f] \in Drive /\ \A o \in Outcomes(f, to) : o.drive \in Drive
  BY OutcomesType DEF TypeInv, TypeOK
<1>2. CASE to = Automatic
  <2>1. ~Released(drive[f]).touched /\ Released(drive[f]).ramp = None
    BY <1>1 DEF Released, Unramped, Ramped, Drive
  <2>2. Outcomes(f, to) = {[drive |-> Released(drive[f]), wrote |-> TRUE]}
    BY <1>2 DEF Outcomes
  <2> QED
    BY <1>1, <1>2, <2>1, <2>2
<1>3. CASE to # Automatic
  <2> DEFINE asked == [drive[f] EXCEPT !.requested = to]
  <2>1. \A o \in Outcomes(f, to) : \E level, ramp, start :
          \/ o.drive = Ramped(asked, ramp, start)
          \/ o.drive = Pinned(Ramped(asked, ramp, start), level)
    BY <1>3 DEF Outcomes, Unramped
  <2>2. asked \in [requested: {to}, ramp: Levels \cup {None}, last: Levels \cup {None},
                   ctl: Levels \cup {Automatic, Bios}, touched: BOOLEAN]
    BY <1>1 DEF Drive
  <2>3. \A level, ramp, start : /\ Ramped(asked, ramp, start).requested = to
                                /\ Pinned(Ramped(asked, ramp, start), level).requested = to
    BY <2>2 DEF Ramped, Pinned
  <2> HIDE DEF asked
  <2> QED
    BY <1>1, <1>3, <2>1, <2>3
<1> QED
  BY <1>2, <1>3

LEMMA RequestProper ==
  ASSUME PinInv, NEW f \in Fans, NEW to \in Targets, NEW counts \in BOOLEAN,
         RequestTarget(f, to, counts)
  PROVE  /\ \A g \in Fans \ {f} : drive'[g] = drive[g]
         /\ Proper(drive'[f], f) /\ faults' \in {faults, faults + 1}
         /\ Orphan(drive'[f]) => faults' = faults + 1
<1>0. TypeInv /\ drive \in [Fans -> Drive] /\ Proper(drive[f], f)
  BY DEF PinInv, StoreInv, TypeInv, TypeOK
<1>1. PICK o \in Outcomes(f, to), ok \in BOOLEAN :
        /\ ok => f \in present
        /\ drive' = [drive EXCEPT ![f] = IF ok THEN o.drive
                                              ELSE Unwritten(o.drive, f)]
        /\ faults' = FaultCount(f, ok)
  BY DEF RequestTarget
<1>2. /\ o.drive \in Drive
      /\ to = Automatic => ~o.drive.touched /\ o.drive.ramp = None
      /\ to # Automatic => o.drive.requested # None
  BY <1>0, OutcomesProper, MarkersAssumption DEF Targets
<1>3. /\ Unwritten(o.drive, f).requested = o.drive.requested
      /\ Unwritten(o.drive, f).ramp = o.drive.ramp
      /\ Unwritten(o.drive, f).touched = drive[f].touched
  BY <1>2 DEF Unwritten, Drive
<1>4. CASE ok
  BY <1>0, <1>1, <1>2, <1>4 DEF FaultCount, Proper, Orphan
<1>5. CASE ~ok
  <2>1. drive'[f] = Unwritten(o.drive, f)
    BY <1>0, <1>1, <1>5
  <2>2. faults' = IF f \in present THEN faults + 1 ELSE faults
    BY <1>1, <1>5 DEF FaultCount
  <2>3. \A g \in Fans \ {f} : drive'[g] = drive[g]
    BY <1>0, <1>1
  <2> QED
    BY <1>0, <1>2, <1>3, <2>1, <2>2, <2>3 DEF Proper, Orphan
<1> QED
  BY <1>4, <1>5

-----------------------------------------------------------------------------
LEMMA PinDropped ==
  ASSUME PinInv, StoreInv', CurveInv', DropSession \/ Crash PROVE PinInv'
<1>1. /\ \E S \in SUBSET Fans : drive' = Abandoned(S)
      /\ assigned' = Nobody /\ faults' \in {faults, faults + 1} /\ faults \in Nat
  BY DEF DropSession, ClearSession, Crash, Touched, PinInv, StoreInv, TypeInv, TypeOK
<1>2. \A f \in Fans : ~drive'[f].touched /\ drive'[f].ramp = None /\ assigned'[f] = None
  BY <1>1 DEF Abandoned, Nobody
<1>3. (Orphans \ Excused)' = {}
  BY <1>2 DEF Orphans
<1>4. Cardinality((Orphans \ Excused)') <= faults'
  <2>1. faults' \in Nat
    BY <1>1
  <2> QED
    BY <1>3, <2>1, FS_EmptySet
<1> QED
  BY <1>2, <1>4 DEF PinInv, Proper

LEMMA PinDetection ==
  ASSUME PinInv, StoreInv', CurveInv', Detection PROVE PinInv'
<1> USE DEF sessionVars, curveVars
<1>0. TypeInv /\ drive \in [Fans -> Drive] /\ StoresDrive /\ KindInv
  BY DEF PinInv, StoreInv, CurveInv, TypeInv, TypeOK
<1>1. CASE Detect
  <2>1. present = {} /\ pc' = "resume" /\ faults' = faults
    BY <1>0, <1>1 DEF Detect, KindInv, StoresDrive
  <2>2. \A d \in Drive : /\ Reopened(d).touched = d.touched /\ Reopened(d).ramp = d.ramp
                         /\ Reopened(d).requested = d.requested
    BY DEF Reopened, Drive
  <2>3. \A f \in Fans : /\ drive'[f].ramp # None => drive'[f].requested # None
                        /\ ~drive'[f].touched
    <3>1. \A f \in Fans : /\ drive[f] \in Drive /\ ~drive[f].touched
                          /\ drive[f].ramp # None => drive[f].requested # None
      BY <1>0, <2>1 DEF PinInv, Proper
    <3>2. \A f \in Fans : drive'[f] = Reopened(drive[f])
      BY <1>1 DEF Detect
    <3> QED
      BY <2>2, <3>1, <3>2
  <2>4. (Orphans \ Excused)' = {}
    BY <2>3 DEF Orphans
  <2>5. \A f \in Fans : assigned'[f] # None => f \in present'
    BY <1>1 DEF Detect
  <2>6. Cardinality((Orphans \ Excused)') <= faults'
    <3>1. faults \in Nat
      BY <1>0 DEF TypeInv, TypeOK
    <3> QED
      BY <2>1, <2>4, <3>1, FS_EmptySet
  <2> QED
    BY <2>3, <2>5, <2>6 DEF PinInv, Proper
<1>2. CASE EndDetect \/ DetectFails \/ NotDue
  BY <1>2, PinKept DEF EndDetect, DetectFails, NotDue, Excused
<1>3. ASSUME NEW f \in Fans, Resume(f) PROVE PinInv'
  <2>1. RequestTarget(f, manualStore[f], FALSE) /\ manualStore[f] \in Targets
    BY <1>0, <1>3 DEF Resume, TypeInv, TypeOK, TodoOK, Targets
  <2>2. assigned' = assigned /\ present' = present /\ Excused = {}
    BY <1>3 DEF Resume, Excused
  <2> QED
    BY <2>1, <2>2, RequestProper, PinChanged DEF PinInv
<1> QED
  BY <1>1, <1>2, <1>3 DEF Detection

LEMMA PinBatching ==
  ASSUME PinInv, StoreInv', CurveInv', Hearing \/ Batching PROVE PinInv'
<1> USE DEF sessionVars, curveVars
<1>1. ASSUME NEW r \in Requests, Take(r) \/ Pump(r) PROVE PinInv'
  BY <1>1, PinKept DEF Take, Pump, Excused
<1>2. CASE BeginBatch \/ DiscardBatch
  BY <1>2, PinKept DEF BeginBatch, DiscardBatch, Excused
<1>3. CASE Redetect
  BY <1>3, PinDropped DEF Redetect
<1> QED
  BY <1>1, <1>2, <1>3 DEF Hearing, Batching

LEMMA PinApplying ==
  ASSUME PinInv, StoreInv', CurveInv', Applying PROVE PinInv'
<1> USE DEF sessionVars, curveVars
<1>0. TypeInv /\ assigned \in [Fans -> Curves \cup {None}]
  BY DEF PinInv, StoreInv, TypeInv, TypeOK
<1>1. ASSUME NEW f \in Fans, ServeTarget(f) PROVE PinInv'
  <2>1. RequestTarget(f, batch.targets[f], TRUE) /\ batch.targets[f] \in Targets
    BY <1>0, <1>1 DEF ServeTarget, TypeInv, TypeOK, TodoOK, Batch
  <2>2. /\ present' = present /\ Excused = {}
        /\ assigned' = assigned \/ assigned' = [assigned EXCEPT ![f] = None]
    BY <1>1 DEF ServeTarget, Excused
  <2>3. /\ \A g \in Fans \ {f} : assigned'[g] = assigned[g]
        /\ assigned'[f] \in {assigned[f], None}
    BY <1>0, <2>2
  <2> QED
    BY <2>1, <2>2, <2>3, RequestProper, PinChanged DEF PinInv
<1>2. ASSUME NEW f \in Fans, Retarget(f) PROVE PinInv'
  <2>1. /\ RequestTarget(f, drive[f].requested, TRUE)
        /\ drive[f].requested \in Targets
    BY <1>0, <1>2 DEF Retarget, TypeInv, TypeOK, TodoOK, Drive, Targets
  <2>2. assigned' = assigned /\ present' = present /\ Excused = {}
    BY <1>2 DEF Retarget, Excused
  <2> QED
    BY <2>1, <2>2, RequestProper, PinChanged DEF PinInv
<1>3. CASE Assign
  <2>1. /\ batch.assigns \in Seq([fan: Fans, to: Curves \cup {None}])
        /\ batch.next \in Nat \ {0} /\ batch.next <= Len(batch.assigns)
    BY <1>0, <1>3 DEF Assign, TypeInv, TypeOK, Batch
  <2>2. batch.assigns[batch.next] \in [fan: Fans, to: Curves \cup {None}]
    BY <2>1, EntryType
  <2>3. PICK f \in Fans, c \in Curves \cup {None} :
          /\ batch.assigns[batch.next].fan = f
          /\ batch.assigns[batch.next].to = c
    BY <2>2
  <2>4. /\ pc = "assign" /\ present' = present /\ Excused = {}
        /\ assigned' = assigned \/ /\ assigned' = [assigned EXCEPT ![f] = c]
                                   /\ f \in present
        /\ RequestTarget(f, Automatic, TRUE) \/ UNCHANGED <<drive, faults>>
    BY <1>3, <2>3 DEF Assign, NoRequest, Excused
  <2>5. /\ \A g \in Fans \ {f} : assigned'[g] = assigned[g]
        /\ assigned'[f] # None => f \in present
    BY <1>0, <2>4 DEF PinInv
  <2>6. CASE RequestTarget(f, Automatic, TRUE)
    BY <2>4, <2>5, <2>6, RequestProper, PinChanged DEF Targets
  <2>7. CASE UNCHANGED <<drive, faults>>
    <3>1. /\ \A g \in Fans \ {f} : drive'[g] = drive[g]
          /\ Proper(drive'[f], f)
          /\ Orphan(drive'[f]) => f \in Orphans \ Excused
      BY <2>4, <2>7 DEF PinInv, Orphan, Orphans
    <3> QED
      BY <2>4, <2>5, <2>7, <3>1, PinChanged
  <2> QED
    BY <2>4, <2>6, <2>7
<1>4. CASE EndTargets \/ SaveAssigns \/ EndAssigns
  BY <1>4, PinKept DEF EndTargets, SaveAssigns, EndAssigns, Excused
<1>5. CASE Tune \/ SaveSettings \/ EndRetarget
  BY <1>5, PinKept DEF Tune, SaveSettings, EndRetarget, Excused
<1> QED
  BY <1>1, <1>2, <1>3, <1>4, <1>5 DEF Applying

(* During the ladder every fan of the session is excused.                  *)
LEMMA PinLadder ==
  ASSUME PinInv, StoreInv', CurveInv', NEW level \in Ladder,
         LadderWrite(level, present), UNCHANGED <<present, assigned>>,
         pc' = "ladder"
  PROVE  PinInv'
<1>1. PICK W \in SUBSET present :
        /\ faults' = IF W = present THEN faults ELSE faults + 1
        /\ drive' = [f \in Fans |->
             IF f \in W THEN Pinned(Unramped(drive[f]), level)
                        ELSE Unramped(drive[f])]
  BY DEF LadderWrite
<1>2. \A d \in Drive : /\ Unramped(d).touched = d.touched /\ Unramped(d).ramp = None
                       /\ Pinned(Unramped(d), level).ramp = None
  BY DEF Drive, Pinned, Unramped, Ramped
<1>3. /\ drive \in [Fans -> Drive] /\ faults \in Nat
      /\ \A f \in Fans : drive[f].touched => f \in present
  BY DEF PinInv, StoreInv, TypeInv, TypeOK, Proper
<1>4. \A f \in Fans : /\ drive'[f].touched => f \in present
                      /\ drive'[f].ramp = None
  BY <1>1, <1>2, <1>3
<1>5. (Orphans \ Excused)' = {}
  BY <1>4 DEF Orphans, Excused
<1>6. Cardinality((Orphans \ Excused)') <= faults'
  <2>1. faults' \in Nat
    BY <1>1, <1>3
  <2> QED
    BY <1>5, <2>1, FS_EmptySet
<1> QED
  BY <1>4, <1>6 DEF PinInv, Proper

LEMMA PinCalibrating ==
  ASSUME PinInv, StoreInv', CurveInv', Calibrating \/ NextDuty PROVE PinInv'
<1> USE DEF sessionVars, curveVars
<1>0. TypeInv /\ drive \in [Fans -> Drive]
  BY DEF PinInv, StoreInv, TypeInv, TypeOK
<1>1. CASE StartCalibration \/ NextDuty
  BY <1>1, PinLadder DEF StartCalibration, NextDuty
<1>2. CASE SkipCalibration
  <2>1. \A d \in Drive : /\ Unramped(d).touched = d.touched /\ Unramped(d).ramp = None
                         /\ Unramped(d).requested = d.requested
    BY DEF Drive, Unramped, Ramped
  <2> QED
    BY <1>0, <1>2, <2>1, PinKept DEF SkipCalibration, Excused
<1>3. CASE EndLadder
  BY <1>3, PinKept DEF EndLadder, Excused
<1>4. CASE EndCalibration
  BY <1>4, PinKept DEF EndCalibration, Excused
<1>5. ASSUME NEW f \in Fans, Restore(f) PROVE PinInv'
  <2>1. RequestTarget(f, restore[f], FALSE) /\ restore[f] \in Targets
    BY <1>0, <1>5 DEF Restore, TypeInv, TypeOK, TodoOK
  <2>2. /\ assigned' = assigned /\ present' = present
        /\ Excused \ {f} \subseteq Excused'
    BY <1>5 DEF Restore, Excused
  <2> QED
    BY <2>1, <2>2, RequestProper, PinChanged DEF PinInv
<1> QED
  BY <1>1, <1>2, <1>3, <1>4, <1>5 DEF Calibrating

LEMMA PinTick ==
  ASSUME PinInv, StoreInv', CurveInv', NEW f \in Fans, TickRamp(f) PROVE PinInv'
<1>0. /\ drive \in [Fans -> Drive] /\ drive[f].ramp # None
      /\ drive[f].requested # None /\ Proper(drive[f], f) /\ faults \in Nat
  BY DEF TickRamp, PinInv, StoreInv, TypeInv, TypeOK, TodoOK, Proper
<1>1. \A level \in Levels :
        \A d \in {Unramped(drive[f]), Ramped(drive[f], drive[f].ramp, level)} :
          /\ d \in Drive /\ d.touched = drive[f].touched
          /\ d.requested # None /\ Pinned(d, level).requested # None
  BY <1>0 DEF Drive, Unramped, Ramped, Pinned
<1>2. /\ UNCHANGED <<present, assigned>> /\ pc = "ramps" /\ pc' = "ramps"
      /\ faults' \in {faults, faults + 1}
  BY DEF TickRamp, FaultCount, sessionVars, curveVars
<1>3. \/ drive' = drive
      \/ \E level \in Levels :
           \E d \in {Unramped(drive[f]), Ramped(drive[f], drive[f].ramp, level)} :
             \/ drive' = [drive EXCEPT ![f] = d]
             \/ drive' = [drive EXCEPT ![f] = Pinned(d, level)] /\ f \in present
  BY DEF TickRamp
<1>4. /\ \A g \in Fans \ {f} : drive'[g] = drive[g]
      /\ drive'[f].requested # None
      /\ drive'[f].touched => f \in present
  <2>1. drive[f].touched => f \in present
    BY <1>0 DEF Proper
  <2>2. ASSUME NEW d, drive' = [drive EXCEPT ![f] = d], d.requested # None,
               d.touched => f \in present
        PROVE  /\ \A g \in Fans \ {f} : drive'[g] = drive[g]
               /\ drive'[f].requested # None
               /\ drive'[f].touched => f \in present
    BY <1>0, <2>2
  <2>3. CASE drive' = drive
    BY <1>0, <2>1, <2>3
  <2> QED
    BY <1>1, <1>3, <2>1, <2>2, <2>3
<1>5. assigned[f] # None => f \in present
  BY DEF PinInv
<1> QED
  BY <1>2, <1>4, <1>5, PinChanged DEF Proper, Orphan, Excused

LEMMA PinPolling ==
  ASSUME PinInv, StoreInv', CurveInv', Polling PROVE PinInv'
<1> USE DEF sessionVars, curveVars
<1>0. TypeInv /\ drive \in [Fans -> Drive]
  BY DEF PinInv, StoreInv, TypeInv, TypeOK
<1>1. CASE EndRamps \/ Update \/ NoUpdate
  BY <1>1, PinKept DEF EndRamps, Update, NoUpdate, Excused
<1>2. ASSUME NEW f \in Fans, TickRamp(f) PROVE PinInv'
  BY <1>2, PinTick
<1>3. ASSUME NEW f \in Fans, HoldReading(f) PROVE PinInv'
  BY <1>3, PinKept DEF HoldReading, Excused
<1>4. ASSUME NEW f \in Fans, DropVanished(f) PROVE PinInv'
  <2>1. assigned' = assigned /\ present' = present /\ Excused = {}
    BY <1>4 DEF DropVanished, Excused
  <2>2. CASE RequestTarget(f, Automatic, TRUE)
    BY <2>1, <2>2, RequestProper, PinChanged DEF PinInv, Targets
  <2>3. CASE NoRequest
    BY <1>4, <2>1, <2>3, PinKept DEF NoRequest, Excused
  <2> QED
    BY <1>4, <2>2, <2>3 DEF DropVanished
<1>5. ASSUME NEW f \in Fans, NEW r \in Readings, DriveByCurve(f, r) PROVE PinInv'
  <2>1. PICK to \in CurveTargets(f, r) :
          IF written[f] # Command(f, to)
            THEN RequestTarget(f, to, TRUE)
            ELSE /\ drive' = [drive EXCEPT ![f].requested = to]
                 /\ faults' = faults
    BY <1>5 DEF DriveByCurve
  <2>2. to \in Levels /\ assigned[f] # None
    BY <1>0, <1>5, CurveTargetsType DEF DriveByCurve, TypeInv, TodoOK
  <2>3. assigned' = assigned /\ present' = present /\ Excused = {}
    BY <1>5 DEF DriveByCurve, Excused
  <2>4. CASE RequestTarget(f, to, TRUE)
    BY <2>2, <2>3, <2>4, RequestProper, PinChanged DEF PinInv, Targets
  <2>5. CASE drive' = [drive EXCEPT ![f].requested = to] /\ faults' = faults
    <3>1. /\ \A g \in Fans \ {f} : drive'[g] = drive[g]
          /\ drive'[f].requested # None /\ drive'[f].touched = drive[f].touched
      BY <1>0, <2>2, <2>5, MarkersAssumption DEF Drive
    <3> QED
      BY <2>3, <2>5, <3>1, PinChanged DEF PinInv, Proper, Orphan
  <2> QED
    BY <2>1, <2>4, <2>5
<1> QED
  BY <1>1, <1>2, <1>3, <1>4, <1>5 DEF Polling

LEMMA PinEnding ==
  ASSUME PinInv, StoreInv', CurveInv', Ending \/ Crash PROVE PinInv'
<1>1. CASE Boot
  BY <1>1, PinKept DEF Boot, Excused, Running, curveVars
<1>2. CASE Crash
  BY <1>2, PinDropped
<1>3. ASSUME NEW r \in Requests, Stop(r) \/ AbortCalibration(r) PROVE PinInv'
  BY <1>3, PinDropped DEF Stop, AbortCalibration
<1> QED
  BY <1>1, <1>2, <1>3 DEF Ending

LEMMA PinStep == PinInv /\ [Next]_vars => PinInv'
<1> SUFFICES ASSUME PinInv, [Next]_vars PROVE PinInv'
  OBVIOUS
<1>1. StoreInv' /\ CurveInv'
  BY StoreStep, CurveStep DEF PinInv, StoreInv
<1>2. CASE UNCHANGED vars
  BY <1>1, <1>2, PinKept DEF vars, sessionVars, curveVars, Excused
<1> QED
  BY <1>1, <1>2, PinDetection, PinBatching, PinApplying, PinCalibrating,
     PinPolling, PinEnding DEF Next, Orderly, Working

(* Through any batches, calibrations, aborted ones too, vanished curves,   *)
(* re-detections and crashes: between batches each fan the session pinned  *)
(* still has its request, but for at most one fan per failed write.        *)
THEOREM PinsCorrect == Spec => []NoOrphanedPin
<1>1. Init => PinInv
  <2> SUFFICES ASSUME Init PROVE PinInv
    OBVIOUS
  <2>1. \A f \in Fans : ~drive[f].touched /\ drive[f].ramp = None /\ assigned[f] = None
    BY DEF Init, Nobody
  <2>2. Orphans \ Excused = {} /\ faults = 0
    BY <2>1 DEF Init, Orphans
  <2> QED
    BY <2>1, <2>2, InitStores, InitSession, FS_EmptySet DEF PinInv, Proper
<1>2. PinInv => NoOrphanedPin
  <2> SUFFICES ASSUME PinInv, pc = "recv" PROVE Cardinality(Orphans) <= faults
    BY DEF NoOrphanedPin
  <2>1. Orphans \ Excused = Orphans
    BY DEF Excused
  <2> QED
    BY <2>1 DEF PinInv
<1> QED
  BY <1>1, <1>2, PinStep, PTL DEF Spec
-----------------------------------------------------------------------------
(* Where no calibration runs and no fan is both tuned and driven by a      *)
(* curve, a fan stands at the command of its request or ramps to it, and   *)
(* what its curve last wrote is that command.                              *)
Driven(f) == \E c : c # None /\ [op |-> "assign", fan |-> f, to |-> c] \in Requests
Tuned(f) == \E s : [op |-> "settings", fan |-> f, to |-> s] \in Requests
TunedApart == \A f \in Fans : ~(Driven(f) /\ Tuned(f))

DrivenInv ==
  \A f \in Fans : assigned[f] # None \/ curveStore[f] # None \/ disk.curves[f] # None
                    => Driven(f)

(* New tunings are stored and the standing requests not yet made again.    *)
Settling(f) == /\ drive[f].requested # None
               /\ pc = "settings" \/ (pc = "retarget" /\ f \in todo)

(* A drive d stands at command, or its ramp has written all it knows of.   *)
Placed(f, d) ==
  /\ d.requested # None
  /\ IF d.ramp = None THEN d.ctl = Command(f, d.requested) ELSE d.last \in {None, d.ctl}
Follows(f, d) ==
  d.ramp # None => d.requested # None /\ Command(f, d.ramp) = Command(f, d.requested)
Cached(f, w, d) == w # None => d.requested # None /\ w = Command(f, d.requested)
Astray(f) == /\ drive[f].touched \/ written[f] # None
             /\ ~Settling(f) /\ ~Placed(f, drive[f])
Strays == {f \in Fans : Astray(f)}
InStep(f) == /\ Settling(f) \/ Follows(f, drive[f])
             /\ Cached(f, written[f], drive[f])
Fresh == /\ ~Running => \A f \in Fans : drive[f].ramp = None
         /\ pc = "resume" => \A f \in Fans : written[f] = None
PlaceInv ==
  /\ PinInv /\ SentInv /\ Queued /\ DrivenInv /\ TunedApart
  /\ Fresh
  /\ \A f \in Fans : InStep(f)
  /\ Cardinality(Strays) <= faults

LEMMA DrivenStep == TypeInv /\ Queued /\ DrivenInv /\ [Next]_vars => DrivenInv'
<1> SUFFICES ASSUME TypeInv, Queued, DrivenInv, [Next]_vars PROVE DrivenInv'
  OBVIOUS
<1>0. /\ assigned \in [Fans -> Curves \cup {None}]
      /\ curveStore \in [Fans -> Curves \cup {None}]
      /\ disk \in [curves: [Fans -> Curves \cup {None}],
                   manual: [Fans -> Levels \cup {None}],
                   settings: [Fans -> Settings], cals: [Fans -> Cals]]
  BY DEF TypeInv, TypeOK
<1>1. ASSUME \A f \in Fans :
               /\ assigned'[f] \in {assigned[f], curveStore[f], None}
               /\ curveStore'[f] \in {curveStore[f], disk.curves[f], None}
               /\ disk'.curves[f] \in {disk.curves[f], curveStore[f], None}
      PROVE  DrivenInv'
  <2> SUFFICES ASSUME NEW f \in Fans,
                      \/ assigned'[f] # None \/ curveStore'[f] # None
                      \/ disk'.curves[f] # None
               PROVE  Driven(f)
    BY DEF DrivenInv, Driven
  <2> QED
    BY <1>0, <1>1 DEF DrivenInv
<1>2. CASE UNCHANGED <<assigned, curveStore, disk>>
  BY <1>1, <1>2
<1>3. CASE UNCHANGED vars
  BY <1>2, <1>3 DEF vars, curveVars, storeVars
<1>4. CASE Detection
  <2>1. CASE Detect
    <3>1. UNCHANGED <<curveStore, disk>>
      BY <2>1 DEF Detect, storeVars
    <3>2. \A f \in Fans : assigned'[f] \in {curveStore[f], None}
      BY <2>1 DEF Detect
    <3> QED
      BY <1>1, <3>1, <3>2
  <2>2. CASE EndDetect \/ DetectFails \/ NotDue \/ \E f \in Fans : Resume(f)
    BY <1>2, <2>2 DEF EndDetect, DetectFails, NotDue, Resume, curveVars, storeVars
  <2> QED
    BY <1>4, <2>1, <2>2 DEF Detection
<1>5. CASE Hearing
  BY <1>2, <1>5 DEF Hearing, Take, Pump, curveVars, storeVars
<1>6. ASSUME DropSession \/ Crash, UNCHANGED <<curveStore, disk>> PROVE DrivenInv'
  <2>1. \A f \in Fans : assigned'[f] = None
    BY <1>6 DEF DropSession, Crash, ClearSession, Nobody
  <2> QED
    BY <1>1, <1>6, <2>1
<1>7. CASE Batching
  <2>1. CASE BeginBatch \/ DiscardBatch
    BY <1>2, <2>1 DEF BeginBatch, DiscardBatch, curveVars, storeVars
  <2>2. CASE Redetect
    BY <1>6, <2>2 DEF Redetect, storeVars
  <2> QED
    BY <1>7, <2>1, <2>2 DEF Batching
<1>8. CASE Applying
  <2>1. ASSUME NEW f \in Fans, ServeTarget(f) PROVE DrivenInv'
    <3>1. \/ UNCHANGED <<assigned, curveStore, disk>>
          \/ /\ assigned' = [assigned EXCEPT ![f] = None]
             /\ curveStore' = [curveStore EXCEPT ![f] = None]
             /\ disk' = [disk EXCEPT !.curves = curveStore']
      BY <2>1 DEF ServeTarget, curveVars
    <3>2. CASE /\ assigned' = [assigned EXCEPT ![f] = None]
               /\ curveStore' = [curveStore EXCEPT ![f] = None]
               /\ disk' = [disk EXCEPT !.curves = curveStore']
      <4>1. disk'.curves = curveStore'
        BY <1>0, <3>2
      <4> QED
        BY <1>0, <1>1, <3>2, <4>1
    <3> QED
      BY <1>2, <3>1, <3>2
  <2>2. CASE Assign
    <3>1. PICK f \in Fans, c \in Curves \cup {None} :
            /\ batch.assigns[batch.next].fan = f /\ batch.assigns[batch.next].to = c
            /\ [op |-> "assign", fan |-> f, to |-> c] \in Requests
      BY <1>0, <2>2, AssignEntry
    <3>2. /\ disk' = disk
          /\ \/ UNCHANGED <<assigned, curveStore>>
             \/ /\ assigned' = [assigned EXCEPT ![f] = c]
                /\ curveStore' = [curveStore EXCEPT ![f] = c]
      BY <2>2, <3>1 DEF Assign, curveVars
    <3>3. c # None => Driven(f)
      BY <3>1 DEF Driven
    <3>4. CASE /\ assigned' = [assigned EXCEPT ![f] = c]
               /\ curveStore' = [curveStore EXCEPT ![f] = c]
      <4> SUFFICES ASSUME NEW g \in Fans,
                          \/ assigned'[g] # None \/ curveStore'[g] # None
                          \/ disk'.curves[g] # None
                   PROVE  Driven(g)
        BY DEF DrivenInv, Driven
      <4> QED
        BY <1>0, <3>2, <3>3, <3>4 DEF DrivenInv
    <3> QED
      BY <1>2, <3>2, <3>4
  <2>3. CASE SaveAssigns
    <3>1. disk'.curves = curveStore /\ UNCHANGED <<assigned, curveStore>>
      BY <1>0, <2>3 DEF SaveAssigns, curveVars, storeVars
    <3> QED
      BY <1>1, <3>1
  <2>4. CASE EndTargets \/ EndAssigns \/ SaveSettings
    <3>1. disk'.curves = disk.curves /\ UNCHANGED <<assigned, curveStore>>
      BY <1>0, <2>4 DEF EndTargets, EndAssigns, SaveSettings, curveVars, storeVars
    <3> QED
      BY <1>1, <3>1
  <2>5. CASE Tune \/ EndRetarget \/ \E f \in Fans : Retarget(f)
    BY <1>2, <2>5 DEF Tune, EndRetarget, Retarget, curveVars, storeVars
  <2> QED
    BY <1>8, <2>1, <2>2, <2>3, <2>4, <2>5 DEF Applying
<1>9. CASE Calibrating \/ NextDuty
  <2>1. disk'.curves = disk.curves /\ UNCHANGED <<assigned, curveStore>>
    BY <1>0, <1>9 DEF Calibrating, StartCalibration, SkipCalibration, NextDuty, EndLadder,
       Restore, EndCalibration, curveVars, storeVars
  <2> QED
    BY <1>1, <2>1
<1>10. CASE Polling
  BY <1>2, <1>10 DEF Polling, EndRamps, Update, NoUpdate, TickRamp, DropVanished,
     HoldReading, DriveByCurve, curveVars, storeVars
<1>11. CASE Boot
  <2>1. curveStore' = disk.curves /\ UNCHANGED <<assigned, disk>>
    BY <1>11 DEF Boot, curveVars
  <2> QED
    BY <1>1, <2>1
<1>12. CASE Crash
  BY <1>6, <1>12 DEF Crash, storeVars
<1>13. ASSUME NEW r \in Requests, Stop(r) \/ AbortCalibration(r) PROVE DrivenInv'
  BY <1>6, <1>13 DEF Stop, AbortCalibration, storeVars
<1> QED
  BY <1>3, <1>4, <1>5, <1>7, <1>8, <1>9, <1>10, <1>11, <1>12, <1>13
  DEF Next, Orderly, Working, Ending

(* Taking on a level: the drive is placed, and follows its request even if *)
(* the write fails.                                                        *)
LEMMA OutcomesPlaced ==
  ASSUME TypeInv, NEW f \in Fans, NEW to \in Levels
  PROVE  \A o \in Outcomes(f, to) :
           Placed(f, o.drive) /\ Follows(f, o.drive) /\ o.drive.requested = to
<1>1. /\ drive[f] \in Drive /\ Command(f, to) \in Levels
      /\ to # Automatic /\ to # None
  BY MapsAssumption, MarkersAssumption DEF TypeInv, TypeOK, Command
<1> DEFINE asked == [drive[f] EXCEPT !.requested = to]
           start == Start[calStore[f]][settingsStore[f]]
<1>2. asked \in Drive /\ asked.requested = to
  BY <1>1 DEF Drive
<1>3. \A o \in Outcomes(f, to) :
        \/ o.drive = Ramped(asked, to, None)
        \/ o.drive = Pinned(Unramped(asked), Command(f, to))
        \/ o.drive = Pinned(Ramped(asked, to, start), start)
  BY <1>1 DEF Outcomes
<1> HIDE DEF asked, start
<1>4. \A d \in {Ramped(asked, to, None), Pinned(Ramped(asked, to, start), start)} :
        d.requested = to /\ d.ramp = to /\ d.last \in {None, d.ctl}
  BY <1>2 DEF Drive, Ramped, Pinned
<1>5. \A d \in {Pinned(Unramped(asked), Command(f, to))} :
        d.requested = to /\ d.ramp = None /\ d.ctl = Command(f, to)
  BY <1>2 DEF Drive, Ramped, Unramped, Pinned
<1> QED
  BY <1>1, <1>3, <1>4, <1>5 DEF Placed, Follows

LEMMA RequestPlaced ==
  ASSUME PlaceInv, NEW f \in Fans, NEW to \in Targets, NEW counts \in BOOLEAN,
         RequestTarget(f, to, counts)
  PROVE  /\ \A g \in Fans \ {f} : drive'[g] = drive[g]
         /\ Follows(f, drive'[f]) /\ faults' \in {faults, faults + 1}
         /\ drive'[f].requested = StoredTarget(to)
         /\ to \in Levels /\ f \in present
              => Placed(f, drive'[f]) \/ faults' = faults + 1
         /\ to = Automatic /\ drive'[f].touched => faults' = faults + 1
         /\ drive'[f].touched => f \in present
<1>0. /\ TypeInv /\ drive \in [Fans -> Drive] /\ PinInv
      /\ StoredTarget(Automatic) = None
  BY DEF PlaceInv, PinInv, StoreInv, TypeInv, TypeOK, StoredTarget
<1>1. /\ \A g \in Fans \ {f} : drive'[g] = drive[g]
      /\ Proper(drive'[f], f) /\ faults' \in {faults, faults + 1}
      /\ Orphan(drive'[f]) => faults' = faults + 1
      /\ drive'[f].requested = StoredTarget(to)
  BY <1>0, RequestProper, RequestRemembered
<1>2. CASE to = Automatic
  BY <1>0, <1>1, <1>2, MarkersAssumption DEF Proper, Orphan, Follows
<1>3. CASE to \in Levels
  <2>1. PICK o \in Outcomes(f, to), ok \in BOOLEAN :
          /\ drive' = [drive EXCEPT ![f] = IF ok THEN o.drive
                                                ELSE Unwritten(o.drive, f)]
          /\ faults' = FaultCount(f, ok)
    BY DEF RequestTarget
  <2>2. /\ Placed(f, o.drive) /\ Follows(f, o.drive) /\ o.drive.requested = to
        /\ o.drive \in Drive
    BY <1>0, <1>3, OutcomesPlaced, OutcomesProper
  <2>3. /\ Unwritten(o.drive, f).ramp = o.drive.ramp
        /\ Unwritten(o.drive, f).requested = o.drive.requested
    BY <2>2 DEF Unwritten, Drive
  <2>4. Follows(f, drive'[f])
    BY <1>0, <2>1, <2>2, <2>3 DEF Follows
  <2>5. f \in present => Placed(f, drive'[f]) \/ faults' = faults + 1
    BY <1>0, <2>1, <2>2 DEF FaultCount
  <2> QED
    BY <1>1, <1>3, <2>4, <2>5, MarkersAssumption DEF Proper
<1> QED
  BY <1>2, <1>3 DEF Targets

(* What the other proofs carry over a step.                                *)
Grounds == PinInv /\ SentInv /\ Queued /\ DrivenInv /\ TunedApart

LEMMA GroundsStep == PlaceInv /\ [Next]_vars => Grounds'
<1> SUFFICES ASSUME PlaceInv, [Next]_vars PROVE Grounds'
  OBVIOUS
<1>1. PinInv' /\ SentInv' /\ Queued' /\ DrivenInv'
  BY PinStep, SentStep, QueueStep, DrivenStep DEF PlaceInv, SentInv
<1> QED
  BY <1>1 DEF Grounds, PlaceInv, TunedApart, Driven, Tuned

(* At most one fan goes astray, by a failed write.                         *)
LEMMA PlaceChanged ==
  ASSUME PlaceInv, Grounds', NEW f,
         \A g \in Fans : InStep(g)',
         \A g \in Fans \ {f} : Astray(g)' => Astray(g),
         f \in Fans => (Astray(f)' => Astray(f) \/ faults' = faults + 1),
         faults' \in {faults, faults + 1}, Fresh'
  PROVE  PlaceInv'
<1>1. Strays \in SUBSET Fans /\ faults \in Nat
  BY DEF Strays, PlaceInv, PinInv, StoreInv, TypeInv, TypeOK
<1>2. Strays' \subseteq Strays \cup {f}
  BY DEF Strays
<1>3. faults' = faults => Strays' \subseteq Strays
  BY <1>1 DEF Strays
<1>4. Cardinality(Strays') <= faults'
  BY <1>1, <1>2, <1>3, FewerOrphans DEF PlaceInv
<1> QED
  BY <1>4 DEF PlaceInv, Grounds

(* A fan that keeps its drive and its tables, and what its curve wrote or  *)
(* none of it, and is not yet requested anew if it was to be.              *)
LEMMA FanKept ==
  ASSUME PlaceInv, NEW g \in Fans, drive'[g] = drive[g],
         written'[g] \in {written[g], None}, Settling(g) => Settling(g)',
         calStore'[g] = calStore[g], settingsStore'[g] = settingsStore[g]
  PROVE  InStep(g)' /\ (Astray(g)' => Astray(g))
<1>1. InStep(g)
  BY DEF PlaceInv
<1>2. InStep(g)'
  BY <1>1 DEF InStep, Follows, Cached, Command
<1>3. Placed(g, drive[g]) => Placed(g, drive[g])'
  BY DEF Placed, Command
<1> QED
  BY <1>2, <1>3 DEF Astray

LEMMA PlaceKept ==
  ASSUME PlaceInv, Grounds', UNCHANGED <<drive, calStore, settingsStore, faults>>,
         \A g \in Fans : written'[g] \in {written[g], None},
         \A g \in Fans : Settling(g) => Settling(g)', Fresh'
  PROVE  PlaceInv'
<1>1. \A g \in Fans : InStep(g)' /\ (Astray(g)' => Astray(g))
  BY FanKept
<1> QED
  BY <1>1, PlaceChanged

(* A fan is asked for a target, and its curve has written that or nothing. *)
LEMMA PlaceRequested ==
  ASSUME PlaceInv, Grounds', NEW f \in Fans, NEW to \in Targets,
         NEW counts \in BOOLEAN, RequestTarget(f, to, counts),
         UNCHANGED <<calStore, settingsStore, present>>,
         \A g \in Fans \ {f} : written'[g] = written[g],
         \A g \in Fans \ {f} : Settling(g) => Settling(g)',
         Cached(f, written'[f], drive'[f]), written'[f] # None => f \in present,
         Fresh'
  PROVE  PlaceInv'
<1>1. /\ \A g \in Fans \ {f} : drive'[g] = drive[g]
      /\ Follows(f, drive'[f]) /\ faults' \in {faults, faults + 1}
      /\ drive'[f].requested = StoredTarget(to)
      /\ to \in Levels /\ f \in present
           => Placed(f, drive'[f]) \/ faults' = faults + 1
      /\ to = Automatic /\ drive'[f].touched => faults' = faults + 1
      /\ drive'[f].touched => f \in present
  BY RequestPlaced
<1>2. \A g \in Fans \ {f} : InStep(g)' /\ (Astray(g)' => Astray(g))
  BY <1>1, FanKept
<1>3. /\ Follows(f, drive'[f]) => Follows(f, drive[f])'
      /\ Cached(f, written'[f], drive'[f]) => Cached(f, written[f], drive[f])'
      /\ Placed(f, drive'[f]) => Placed(f, drive[f])'
  BY DEF Follows, Cached, Placed, Command
<1>4. InStep(f)'
  BY <1>1, <1>3 DEF InStep
<1>5. Astray(f)' => faults' = faults + 1
  <2>1. CASE to = Automatic
    <3>1. written'[f] = None
      BY <1>1, <2>1 DEF Cached, StoredTarget
    <3> QED
      BY <1>1, <2>1, <3>1 DEF Astray
  <2>2. CASE to \in Levels
    BY <1>1, <1>3, <2>2 DEF Astray
  <2> QED
    BY <2>1, <2>2 DEF Targets
<1> QED
  BY <1>1, <1>2, <1>4, <1>5, PlaceChanged

LEMMA PlaceDropped ==
  ASSUME PlaceInv, Grounds', DropSession \/ Crash PROVE PlaceInv'
<1>1. /\ \E S \in SUBSET Fans : drive' = Abandoned(S)
      /\ written' = Nobody /\ faults' \in {faults, faults + 1} /\ faults \in Nat
  BY DEF DropSession, ClearSession, Crash, Touched, PlaceInv, PinInv, StoreInv, TypeInv,
     TypeOK
<1>2. \A f \in Fans : /\ ~drive'[f].touched /\ drive'[f].ramp = None
                      /\ written'[f] = None
  BY <1>1 DEF Abandoned, Nobody
<1>3. Strays' = {} /\ \A f \in Fans : InStep(f)'
  BY <1>2 DEF Strays, Astray, InStep, Follows, Cached
<1>4. faults' \in Nat
  BY <1>1
<1>5. Cardinality(Strays') <= faults'
  BY <1>3, <1>4, FS_EmptySet
<1> QED
  BY <1>2, <1>3, <1>5 DEF PlaceInv, Grounds, Fresh

LEMMA PlaceDetection ==
  ASSUME PlaceInv, Grounds', Detection PROVE PlaceInv'
<1> USE DEF sessionVars, curveVars, storeVars
<1>0. /\ TypeInv /\ drive \in [Fans -> Drive] /\ PinInv /\ StoresDrive /\ KindInv
      /\ CurveInv
  BY DEF PlaceInv, PinInv, StoreInv, CurveInv, TypeInv, TypeOK
<1>1. CASE Detect
  <2>1. /\ present = {} /\ ~open /\ pc = "top" /\ pc' = "resume" /\ faults' = faults
        /\ UNCHANGED <<written, calStore, settingsStore>>
    BY <1>0, <1>1 DEF Detect, KindInv, StoresDrive
  <2>2. \A d \in Drive : /\ Reopened(d).touched = d.touched /\ Reopened(d).ramp = d.ramp
                         /\ Reopened(d).requested = d.requested
    BY DEF Reopened, Drive
  <2>3. \A f \in Fans : /\ drive[f] \in Drive /\ drive'[f] = Reopened(drive[f])
                        /\ written[f] = None /\ ~drive[f].touched
    BY <1>0, <1>1, <2>1 DEF Detect, PinInv, Proper, CurveInv, Clean
  <2>4. \A f \in Fans : InStep(f)
    BY DEF PlaceInv
  <2>5. ASSUME NEW f \in Fans PROVE InStep(f)' /\ ~Astray(f)'
    <3>1. drive'[f].ramp = drive[f].ramp /\ drive'[f].requested = drive[f].requested
      BY <2>2, <2>3
    <3>2. Follows(f, drive[f])
      BY <2>1, <2>4 DEF InStep, Settling
    <3>3. InStep(f)'
      BY <2>1, <2>3, <3>1, <3>2 DEF InStep, Follows, Cached, Command
    <3> QED
      BY <2>1, <2>2, <2>3, <3>3 DEF Astray
  <2>6. Strays' = {} /\ \A f \in Fans : InStep(f)'
    BY <2>5 DEF Strays
  <2>7. faults' \in Nat
    BY <1>0, <2>1 DEF TypeInv, TypeOK
  <2>8. Cardinality(Strays') <= faults'
    BY <2>6, <2>7, FS_EmptySet
  <2>9. Fresh'
    BY <2>1, <2>3 DEF Fresh, Running
  <2> QED
    BY <2>6, <2>8, <2>9 DEF PlaceInv, Grounds
<1>2. CASE EndDetect \/ DetectFails \/ NotDue
  <2>1. /\ UNCHANGED <<drive, calStore, settingsStore, faults, written>>
        /\ pc \in {"top", "resume"} /\ pc' = "recv"
    BY <1>2 DEF EndDetect, DetectFails, NotDue
  <2> QED
    BY <2>1, PlaceKept DEF Settling, Fresh, Running
<1>3. ASSUME NEW f \in Fans, Resume(f) PROVE PlaceInv'
  <2>1. RequestTarget(f, manualStore[f], FALSE) /\ manualStore[f] \in Levels
    BY <1>0, <1>3 DEF Resume, TypeInv, TypeOK, TodoOK
  <2>2. /\ UNCHANGED <<written, present, calStore, settingsStore, pc>>
        /\ pc = "resume" /\ \A g \in Fans : written[g] = None
    BY <1>3 DEF Resume, PlaceInv, Fresh
  <2> QED
    BY <2>1, <2>2, PlaceRequested DEF Targets, Settling, Cached, Fresh, Running
<1> QED
  BY <1>1, <1>2, <1>3 DEF Detection

LEMMA PlaceBatching ==
  ASSUME PlaceInv, Grounds', Hearing \/ Batching PROVE PlaceInv'
<1> USE DEF sessionVars, curveVars, storeVars
<1>1. ASSUME NEW r \in Requests, Take(r) PROVE PlaceInv'
  BY <1>1, PlaceKept DEF Take, Settling, Fresh, Running
<1>2. ASSUME NEW r \in Requests, Pump(r) PROVE PlaceInv'
  BY <1>2 DEF Pump, PlaceInv, SentInv
<1>3. CASE BeginBatch
  <2>1. \A f \in Fans : written'[f] \in {written[f], None}
    BY <1>3 DEF BeginBatch, NewDefs, Nobody
  <2> QED
    BY <1>3, <2>1, PlaceKept DEF BeginBatch, Settling, Fresh, Running
<1>4. CASE DiscardBatch
  BY <1>4, PlaceKept DEF DiscardBatch, Settling, Fresh, Running
<1>5. CASE Redetect
  BY <1>5, PlaceDropped DEF Redetect
<1> QED
  BY <1>1, <1>2, <1>3, <1>4, <1>5 DEF Hearing, Batching

(* Tunings reach fans that no curve drives, and every fan with a request   *)
(* is settling while they do.                                              *)
LEMMA PlaceTuned == ASSUME PlaceInv, Grounds', Tune PROVE PlaceInv'
<1>0. /\ TypeInv /\ PinInv /\ CurveInv /\ Queued /\ DrivenInv /\ TunedApart
      /\ settingsStore \in [Fans -> Settings] /\ pc = "settings"
  BY DEF PlaceInv, PinInv, StoreInv, TypeInv, TypeOK, Tune
<1>1. /\ batch.settings \in Seq([fan: Fans, to: Settings])
      /\ batch.next \in Nat \ {0} /\ batch.next <= Len(batch.settings)
  BY <1>0 DEF Tune, TypeInv, TypeOK, Batch
<1>2. batch.next \in DOMAIN batch.settings
  BY <1>1
<1>3. batch.settings[batch.next] \in [fan: Fans, to: Settings]
  BY <1>1, EntryType
<1>4. PICK f \in Fans, to \in Settings :
        /\ batch.settings[batch.next].fan = f /\ batch.settings[batch.next].to = to
        /\ [op |-> "settings", fan |-> f, to |-> to] \in Requests
  BY <1>0, <1>2, <1>3 DEF Queued, Listed
<1>5. /\ UNCHANGED <<pc, todo, drive, written, calStore, faults>>
      /\ settingsStore' \in {settingsStore, [settingsStore EXCEPT ![f] = to]}
  BY <1>4 DEF Tune, curveVars
<1>6. written[f] = None
  <2>1. Tuned(f)
    BY <1>4 DEF Tuned
  <2>2. assigned[f] = None
    BY <1>0, <2>1 DEF TunedApart, DrivenInv
  <2> QED
    BY <1>0, <2>2 DEF CurveInv, NoStaleCurveState
<1>7. ASSUME NEW g \in Fans PROVE InStep(g)' /\ (Astray(g)' => Astray(g))
  <2>1. CASE settingsStore'[g] = settingsStore[g]
    BY <1>5, <2>1, FanKept DEF Settling
  <2>2. CASE g = f
    <3>1. Settling(g) => Settling(g)'
      BY <1>5 DEF Settling
    <3>2. /\ written'[g] = None
          /\ drive[g].requested = None => drive[g].ramp = None
      BY <1>0, <1>5, <1>6, <2>2 DEF PinInv, Proper
    <3>3. drive[g].requested # None => Settling(g)'
      BY <1>0, <1>5 DEF Settling
    <3>4. InStep(g)'
      BY <1>5, <3>2, <3>3 DEF InStep, Follows, Cached
    <3>5. Astray(g)' => Astray(g)
      BY <1>5, <1>6, <2>2, <3>1, <3>2, <3>3 DEF Astray, Placed
    <3> QED
      BY <3>4, <3>5
  <2> QED
    BY <1>0, <1>5, <2>1, <2>2
<1> QED
  BY <1>0, <1>5, <1>7, PlaceChanged DEF Fresh, Running

LEMMA PlaceApplying ==
  ASSUME PlaceInv, Grounds', Applying PROVE PlaceInv'
<1> USE DEF sessionVars, curveVars, storeVars
<1>0. /\ TypeInv /\ PinInv /\ CurveInv /\ written \in [Fans -> Levels \cup {None}]
      /\ drive \in [Fans -> Drive] /\ ~batch.calibrate
      /\ \A f \in Fans : /\ assigned[f] = None => written[f] = None
                         /\ assigned[f] # None => f \in present
  BY DEF PlaceInv, SentInv, PinInv, StoreInv, TypeInv, TypeOK, CurveInv,
     NoStaleCurveState
<1>1. ASSUME NEW f \in Fans, ServeTarget(f) PROVE PlaceInv'
  <2>1. RequestTarget(f, batch.targets[f], TRUE) /\ batch.targets[f] \in Targets
    BY <1>0, <1>1 DEF ServeTarget, TypeInv, TypeOK, TodoOK, Batch
  <2>2. /\ UNCHANGED <<present, calStore, settingsStore, pc>> /\ pc = "targets"
        /\ written' = written \/ written' = [written EXCEPT ![f] = None]
    BY <1>1 DEF ServeTarget, ClearCurve
  <2>3. written'[f] = None
    BY <1>0, <1>1, <2>2 DEF ServeTarget, ClearCurve
  <2>4. \A g \in Fans \ {f} : written'[g] = written[g]
    BY <1>0, <2>2
  <2> QED
    BY <2>1, <2>2, <2>3, <2>4, PlaceRequested DEF Settling, Cached, Fresh, Running
<1>2. ASSUME NEW f \in Fans, Retarget(f) PROVE PlaceInv'
  <2>1. /\ RequestTarget(f, drive[f].requested, TRUE)
        /\ drive[f].requested \in Levels
    BY <1>0, <1>2 DEF Retarget, TypeInv, TypeOK, TodoOK, Drive
  <2>2. /\ UNCHANGED <<present, calStore, settingsStore, pc, written>>
        /\ pc = "retarget" /\ todo' = todo \ {f}
    BY <1>2 DEF Retarget
  <2>3. drive'[f].requested = drive[f].requested
    BY <2>1, RequestPlaced, MarkersAssumption DEF Targets, StoredTarget
  <2>4. Cached(f, written'[f], drive'[f])
    BY <2>2, <2>3 DEF PlaceInv, InStep, Cached
  <2>5. \A g \in Fans \ {f} : drive'[g] = drive[g]
    BY <2>1, RequestPlaced DEF Targets
  <2>6. \A g \in Fans \ {f} : Settling(g) => Settling(g)'
    BY <2>2, <2>5 DEF Settling
  <2> QED
    BY <1>0, <2>1, <2>2, <2>4, <2>6, PlaceRequested DEF Targets, Fresh, Running
<1>3. CASE Assign
  <2>1. PICK f \in Fans, c \in Curves \cup {None} :
          /\ batch.assigns[batch.next].fan = f /\ batch.assigns[batch.next].to = c
    BY <1>0, <1>3, AssignEntry DEF PlaceInv
  <2>2. /\ UNCHANGED <<present, calStore, settingsStore, pc>> /\ pc = "assign"
        /\ written' = written \/ written' = [written EXCEPT ![f] = None]
        /\ RequestTarget(f, Automatic, TRUE) => written' = [written EXCEPT ![f] = None]
                                                \/ f \notin present
        /\ RequestTarget(f, Automatic, TRUE) \/ UNCHANGED <<drive, faults>>
    BY <1>3, <2>1 DEF Assign, NoRequest, ClearCurve
  <2>3. \A g \in Fans : written'[g] \in {written[g], None}
    BY <1>0, <2>2
  <2>4. CASE UNCHANGED <<drive, faults>>
    BY <2>2, <2>3, <2>4, PlaceKept DEF Settling, Fresh, Running
  <2>5. CASE RequestTarget(f, Automatic, TRUE)
    <3>1. \A g \in Fans \ {f} : written'[g] = written[g]
      BY <1>0, <2>2
    <3>2. written'[f] = None
      BY <1>0, <2>2, <2>5
    <3> QED
      BY <2>2, <2>5, <3>1, <3>2, PlaceRequested DEF Settling, Cached, Fresh, Running, Targets
  <2> QED
    BY <2>2, <2>4, <2>5
<1>4. CASE EndTargets \/ SaveAssigns \/ EndAssigns
  <2>1. /\ UNCHANGED <<drive, calStore, settingsStore, faults, written>>
        /\ pc \in {"targets", "assign", "assigned"}
        /\ pc' \in {"assign", "assigned", "settings", "calibrate", "ramps"}
    BY <1>4 DEF EndTargets, SaveAssigns, EndAssigns, Proceed, AfterTargets, AfterAssigns
  <2> QED
    BY <2>1, PlaceKept DEF Settling, Fresh, Running
<1>5. CASE Tune
  BY <1>5, PlaceTuned
<1>6. CASE SaveSettings
  <2>1. /\ UNCHANGED <<drive, calStore, settingsStore, faults, written>>
        /\ pc' = "retarget" /\ todo' = {f \in Fans : drive[f].requested # None}
    BY <1>6 DEF SaveSettings
  <2> QED
    BY <2>1, PlaceKept DEF Settling, Fresh, Running
<1>7. CASE EndRetarget
  <2>1. /\ UNCHANGED <<drive, calStore, settingsStore, faults, written>>
        /\ pc = "retarget" /\ todo = {} /\ pc' \in {"calibrate", "ramps"}
    BY <1>7 DEF EndRetarget, Proceed
  <2> QED
    BY <2>1, PlaceKept DEF Settling, Fresh, Running
<1> QED
  BY <1>1, <1>2, <1>3, <1>4, <1>5, <1>6, <1>7 DEF Applying

(* A tick moves the ramp one command on; at its target the fan stands at   *)
(* the command of its request.                                             *)
LEMMA PlaceTick ==
  ASSUME PlaceInv, Grounds', NEW f \in Fans, TickRamp(f) PROVE PlaceInv'
<1>0. /\ TypeInv /\ PinInv /\ drive \in [Fans -> Drive] /\ drive[f] \in Drive
      /\ pc = "ramps" /\ drive[f].ramp # None /\ InStep(f)
  BY DEF TickRamp, PlaceInv, PinInv, StoreInv, TypeInv, TypeOK, TodoOK
<1>1. /\ UNCHANGED <<written, calStore, settingsStore, present>> /\ pc' = "ramps"
  BY <1>0 DEF TickRamp, curveVars, storeVars, sessionVars
<1>2. Fresh' /\ \A g \in Fans : ~Settling(g) /\ ~Settling(g)'
  BY <1>0, <1>1 DEF Fresh, Running, Settling
<1>3. CASE UNCHANGED <<drive, faults>>
  BY <1>1, <1>2, <1>3, PlaceKept
<1>4. ASSUME NEW done \in BOOLEAN, NEW level \in Levels, NEW d, NEW ok \in BOOLEAN,
             d = IF done THEN Unramped(drive[f])
                         ELSE Ramped(drive[f], drive[f].ramp, level),
             done => level = Command(f, drive[f].ramp),
             \/ /\ done /\ level = drive[f].last /\ faults' = faults
                /\ drive' = [drive EXCEPT ![f] = d]
             \/ /\ ok => f \in present
                /\ drive' = [drive EXCEPT ![f] = IF ok THEN Pinned(d, level) ELSE d]
                /\ faults' = FaultCount(f, ok)
      PROVE  PlaceInv'
  <2>1. /\ d \in Drive /\ d.requested = drive[f].requested /\ d.ctl = drive[f].ctl
        /\ d.touched = drive[f].touched
        /\ done => d.ramp = None
        /\ ~done => d.ramp = drive[f].ramp /\ d.last = level
    BY <1>0, <1>4 DEF Drive, Unramped, Ramped
  <2>2. /\ Pinned(d, level).requested = d.requested /\ Pinned(d, level).ctl = level
        /\ Pinned(d, level).ramp = d.ramp /\ Pinned(d, level).last = d.last
    BY <2>1 DEF Pinned, Drive
  <2>3. /\ drive[f].requested # None
        /\ Command(f, drive[f].ramp) = Command(f, drive[f].requested)
        /\ Cached(f, written[f], drive[f])
    BY <1>0, <1>2 DEF InStep, Follows
  <2>4. /\ \A g \in Fans \ {f} : drive'[g] = drive[g]
        /\ drive'[f].requested = drive[f].requested
        /\ drive'[f].ramp # None => drive'[f].ramp = drive[f].ramp
        /\ faults' \in {faults, faults + 1}
    BY <1>0, <1>4, <2>1, <2>2 DEF FaultCount
  <2>5. InStep(f)'
    <3>1. Follows(f, drive[f])'
      BY <1>1, <2>3, <2>4 DEF Follows, Command
    <3>2. Cached(f, written[f], drive[f])'
      BY <1>1, <2>3, <2>4 DEF Cached, Command
    <3> QED
      BY <3>1, <3>2 DEF InStep
  <2>6. Placed(f, Pinned(d, level)) /\ (Placed(f, drive[f]) /\ level = drive[f].last
                                          /\ done => Placed(f, d))
    BY <1>0, <1>4, <2>1, <2>2, <2>3, MarkersAssumption DEF Placed
  <2>7. Astray(f)' => Astray(f) \/ faults' = faults + 1
    <3>1. drive'[f] \in {d, Pinned(d, level)}
      BY <1>0, <1>4
    <3>2. CASE drive'[f] = Pinned(d, level)
      <4>1. Placed(f, drive[f])'
        BY <1>1, <2>6, <3>2 DEF Placed, Command
      <4> QED
        BY <4>1 DEF Astray
    <3>3. CASE drive'[f] = d /\ done /\ level = drive[f].last
      <4>1. Placed(f, drive[f]) => Placed(f, drive[f])'
        BY <1>1, <2>6, <3>3 DEF Placed, Command
      <4> QED
        BY <1>1, <1>2, <2>1, <3>3, <4>1 DEF Astray
    <3>4. CASE drive'[f] = d /\ ~ok /\ faults' = FaultCount(f, ok)
      <4>1. f \notin present => ~drive[f].touched /\ written[f] = None
        BY <1>0 DEF PinInv, Proper, CurveInv, NoStaleCurveState
      <4> QED
        BY <1>1, <2>1, <3>4, <4>1 DEF Astray, FaultCount
    <3> QED
      BY <1>0, <1>4, <3>1, <3>2, <3>3, <3>4
  <2>8. \A g \in Fans \ {f} : InStep(g)' /\ (Astray(g)' => Astray(g))
    BY <1>1, <1>2, <2>4, FanKept
  <2> QED
    BY <1>2, <2>4, <2>5, <2>7, <2>8, PlaceChanged
<1>5. CASE ~UNCHANGED <<drive, faults>>
  <2>1. PICK done \in BOOLEAN, level \in Levels, ok \in BOOLEAN :
          LET d == IF done THEN Unramped(drive[f])
                           ELSE Ramped(drive[f], drive[f].ramp, level)
          IN  /\ done => level = Command(f, drive[f].ramp)
              /\ IF level = drive[f].last
                   THEN /\ ok /\ done /\ drive' = [drive EXCEPT ![f] = d]
                        /\ UNCHANGED <<wrote, faults>>
                   ELSE /\ ok => f \in present
                        /\ ~ok => Fault(f)
                        /\ drive' = [drive EXCEPT
                             ![f] = IF ok THEN Pinned(d, level) ELSE d]
                        /\ wrote' = TRUE
                        /\ faults' = FaultCount(f, ok)
    BY <1>5 DEF TickRamp
  <2> DEFINE d == IF done THEN Unramped(drive[f])
                          ELSE Ramped(drive[f], drive[f].ramp, level)
  <2>2. /\ done => level = Command(f, drive[f].ramp)
        /\ \/ /\ done /\ level = drive[f].last /\ faults' = faults
              /\ drive' = [drive EXCEPT ![f] = d]
           \/ /\ ok => f \in present
              /\ drive' = [drive EXCEPT ![f] = IF ok THEN Pinned(d, level) ELSE d]
              /\ faults' = FaultCount(f, ok)
    BY <2>1
  <2> QED
    BY <2>2, <1>4
<1> QED
  BY <1>3, <1>5

LEMMA PlacePolling ==
  ASSUME PlaceInv, Grounds', Polling PROVE PlaceInv'
<1> USE DEF sessionVars, curveVars, storeVars
<1>0. /\ TypeInv /\ PinInv /\ written \in [Fans -> Levels \cup {None}]
      /\ drive \in [Fans -> Drive]
      /\ \A f \in Fans : assigned[f] # None => f \in present
  BY DEF PlaceInv, PinInv, StoreInv, TypeInv, TypeOK
<1>1. CASE EndRamps
  BY <1>1, PlaceKept DEF EndRamps, Settling, Fresh, Running
<1>2. CASE Update \/ NoUpdate
  <2>1. /\ UNCHANGED <<drive, calStore, settingsStore, faults, written>>
        /\ pc = "curves" /\ pc' = "recv"
    BY <1>2 DEF Update, NoUpdate
  <2> QED
    BY <2>1, PlaceKept DEF Settling, Fresh, Running
<1>3. ASSUME NEW f \in Fans, HoldReading(f) PROVE PlaceInv'
  BY <1>3, PlaceKept DEF HoldReading, Settling, Fresh, Running
<1>4. ASSUME NEW f \in Fans, DropVanished(f) PROVE PlaceInv'
  <2>1. /\ UNCHANGED <<present, calStore, settingsStore, pc>> /\ pc = "curves"
        /\ written' = [written EXCEPT ![f] = None]
        /\ RequestTarget(f, Automatic, TRUE) \/ UNCHANGED <<drive, faults>>
    BY <1>4 DEF DropVanished, ClearCurve, NoRequest
  <2>2. written'[f] = None /\ \A g \in Fans \ {f} : written'[g] = written[g]
    BY <1>0, <2>1
  <2>3. CASE UNCHANGED <<drive, faults>>
    BY <2>1, <2>2, <2>3, PlaceKept DEF Settling, Fresh, Running
  <2>4. CASE RequestTarget(f, Automatic, TRUE)
    BY <2>1, <2>2, <2>4, PlaceRequested DEF Settling, Cached, Fresh, Running, Targets
  <2> QED
    BY <2>1, <2>3, <2>4
<1>5. ASSUME NEW f \in Fans, NEW r \in Readings, DriveByCurve(f, r) PROVE PlaceInv'
  <2>1. PICK to \in CurveTargets(f, r) :
          /\ written' = [written EXCEPT ![f] = Command(f, to)]
          /\ IF written[f] # Command(f, to)
               THEN RequestTarget(f, to, TRUE)
               ELSE /\ drive' = [drive EXCEPT ![f].requested = to]
                    /\ UNCHANGED <<wrote, faults>>
    BY <1>5 DEF DriveByCurve
  <2>2. /\ to \in Levels /\ f \in present /\ pc = "curves"
        /\ UNCHANGED <<present, calStore, settingsStore, pc>>
    BY <1>0, <1>5, CurveTargetsType DEF DriveByCurve, TypeInv, TodoOK
  <2>3. /\ written'[f] = Command(f, to) /\ to # None /\ StoredTarget(to) = to
        /\ \A g \in Fans \ {f} : written'[g] = written[g]
    BY <1>0, <2>1, <2>2, MarkersAssumption DEF StoredTarget
  <2>4. Fresh' /\ \A g \in Fans : ~Settling(g) /\ ~Settling(g)'
    BY <2>2 DEF Settling, Fresh, Running
  <2>5. CASE RequestTarget(f, to, TRUE)
    <3>1. drive'[f].requested = to
      BY <2>2, <2>3, <2>5, RequestPlaced DEF Targets
    <3> QED
      BY <2>2, <2>3, <2>4, <2>5, <3>1, PlaceRequested DEF Cached, Targets
  <2>6. CASE /\ written[f] = Command(f, to) /\ faults' = faults
             /\ drive' = [drive EXCEPT ![f].requested = to]
    <3>1. /\ \A g \in Fans \ {f} : drive'[g] = drive[g]
          /\ drive'[f].requested = to /\ drive'[f].ramp = drive[f].ramp
          /\ drive'[f].ctl = drive[f].ctl /\ drive'[f].last = drive[f].last
          /\ drive'[f].touched = drive[f].touched
      BY <1>0, <2>6 DEF Drive
    <3>2. /\ \A g \in Fans \ {f} : InStep(g)' /\ (Astray(g)' => Astray(g))
      BY <2>2, <2>3, <2>4, <3>1, FanKept
    <3>3. Command(f, to) # None
      BY <2>2, MapsAssumption, MarkersAssumption, <1>0 DEF Command, TypeInv, TypeOK
    <3>4. /\ Follows(f, drive[f]) /\ drive[f].requested # None
          /\ Command(f, to) = Command(f, drive[f].requested)
      BY <2>4, <2>6, <3>3 DEF PlaceInv, InStep, Cached
    <3>5. InStep(f)'
      BY <2>2, <2>3, <3>1, <3>4 DEF InStep, Follows, Cached, Command
    <3>6. Placed(f, drive[f]) => Placed(f, drive[f])'
      BY <2>2, <2>3, <3>1, <3>4 DEF Placed, Command
    <3>7. Astray(f)' => Astray(f)
      BY <2>4, <2>6, <3>1, <3>3, <3>6 DEF Astray
    <3> QED
      BY <2>4, <2>6, <3>2, <3>5, <3>7, PlaceChanged
  <2> QED
    BY <2>1, <2>5, <2>6
<1>6. ASSUME NEW f \in Fans, TickRamp(f) PROVE PlaceInv'
  BY <1>6, PlaceTick
<1> QED
  BY <1>1, <1>2, <1>3, <1>4, <1>5, <1>6 DEF Polling

(* A process that starts has stores that may differ from what it knew, but *)
(* no session and no ramp.                                                 *)
LEMMA PlaceBooting == ASSUME PlaceInv, Grounds', Boot PROVE PlaceInv'
<1>1. /\ ~Running /\ present = {} /\ pc' = "top"
      /\ UNCHANGED <<drive, written, faults>>
  BY DEF Boot, curveVars, PlaceInv, PinInv, StoreInv, StoresDrive
<1>2. \A f \in Fans : /\ ~drive[f].touched /\ drive[f].ramp = None
                      /\ written[f] = None
  BY <1>1 DEF PlaceInv, PinInv, Proper, Fresh, CurveInv, NoStaleCurveState
<1>3. Strays' = {} /\ \A f \in Fans : InStep(f)'
  BY <1>1, <1>2 DEF Strays, Astray, InStep, Follows, Cached
<1>4. faults' \in Nat
  BY <1>1 DEF PlaceInv, PinInv, StoreInv, TypeInv, TypeOK
<1>5. Cardinality(Strays') <= faults'
  BY <1>3, <1>4, FS_EmptySet
<1>6. Fresh'
  BY <1>1 DEF Fresh, Running
<1> QED
  BY <1>3, <1>5, <1>6 DEF PlaceInv, Grounds

LEMMA PlaceStep == PlaceInv /\ [Next]_vars => PlaceInv'
<1> SUFFICES ASSUME PlaceInv, [Next]_vars PROVE PlaceInv'
  OBVIOUS
<1>1. Grounds'
  BY GroundsStep
<1>2. CASE UNCHANGED vars
  <2>1. UNCHANGED <<pc, todo, drive, written, calStore, settingsStore, faults>>
    BY <1>2 DEF vars, curveVars, storeVars
  <2>2. \A g \in Fans : Settling(g) => Settling(g)'
    BY <2>1 DEF Settling
  <2>3. Fresh'
    BY <2>1 DEF PlaceInv, Fresh, Running
  <2> QED
    BY <1>1, <2>1, <2>2, <2>3, PlaceKept
<1>3. ~Calibrating /\ ~NextDuty
  BY DEF PlaceInv, SentInv, Calibrating, NextDuty, StartCalibration, SkipCalibration,
     EndLadder, Restore, EndCalibration
<1>4. ASSUME NEW r \in Requests, Stop(r) \/ AbortCalibration(r) PROVE PlaceInv'
  BY <1>1, <1>4, PlaceDropped DEF Stop, AbortCalibration
<1>5. CASE Ending \/ Crash
  BY <1>1, <1>4, <1>5, PlaceBooting, PlaceDropped DEF Ending
<1> QED
  BY <1>1, <1>2, <1>3, <1>5, PlaceDetection, PlaceBatching, PlaceApplying, PlacePolling
  DEF Next, Orderly, Working

LEMMA InitPlace == Init /\ NoCalibrations /\ TunedApart => PlaceInv
<1> SUFFICES ASSUME Init, NoCalibrations, TunedApart PROVE PlaceInv
  OBVIOUS
<1>1. \A f \in Fans :
        /\ ~drive[f].touched /\ drive[f].ramp = None /\ written[f] = None
        /\ assigned[f] = None /\ curveStore[f] = None /\ disk.curves[f] = None
        /\ batch.targets[f] = None /\ manualStore[f] = None /\ disk.manual[f] = None
  BY DEF Init, Nobody, EmptyBatch
<1>2. TypeInv /\ StoreInv /\ CurveInv /\ pc = "top" /\ faults = 0
  BY InitType, InitStores, InitSession DEF Init
<1>3. PinInv
  <2>1. Orphans \ Excused = {}
    BY <1>1 DEF Orphans
  <2> QED
    BY <1>1, <1>2, <2>1, FS_EmptySet DEF PinInv, Proper
<1>4. SentInv /\ DrivenInv
  BY <1>1, <1>2 DEF SentInv, DrivenInv, Init, EmptyBatch
<1>5. Queued
  BY <1>1 DEF Queued, Listed, Init, EmptyBatch
<1>6. Fresh /\ Strays = {} /\ \A f \in Fans : InStep(f)
  BY <1>1, <1>2 DEF Fresh, Running, Strays, Astray, InStep, Follows, Cached
<1>7. Cardinality(Strays) <= faults
  BY <1>2, <1>6, FS_EmptySet
<1> QED
  BY <1>3, <1>4, <1>5, <1>6, <1>7 DEF PlaceInv

(* What the session pinned stands, between batches, at the command that    *)
(* its request ends at under the tuning and calibration in force, or ramps *)
(* to it, but for at most one fan per failed write.                        *)
THEOREM CommandsCorrect ==
  Spec /\ NoCalibrations /\ TunedApart => []CommandMatchesRequest
<1>1. PlaceInv => CommandMatchesRequest
  <2> SUFFICES ASSUME PlaceInv, pc = "recv"
               PROVE  Cardinality(Orphans \cup
                        {f \in Fans : /\ drive[f].touched
                                      /\ drive[f].requested # None
                                      /\ ~AsRequested(f)}) <= faults
    BY DEF CommandMatchesRequest
  <2> DEFINE Off == Orphans \cup {f \in Fans : /\ drive[f].touched
                                               /\ drive[f].requested # None
                                               /\ ~AsRequested(f)}
  <2>1. Off \subseteq Strays
    BY DEF Strays, Astray, Settling, Placed, Orphans, AsRequested, PlaceInv, InStep,
       Follows
  <2>2. Strays \in SUBSET Fans /\ faults \in Nat /\ Cardinality(Strays) <= faults
    BY DEF Strays, PlaceInv, PinInv, StoreInv, TypeInv, TypeOK
  <2> HIDE DEF Off
  <2>3. Cardinality(Off) <= faults
    BY <2>1, <2>2, FewerOrphans
  <2> QED
    BY <2>3 DEF Off
<1> QED
  BY <1>1, InitPlace, PlaceStep, PTL DEF Spec

(* What the write cache remembers for a fan's curve is what the hardware   *)
(* was last told, or is ramping to, so skipping an unchanged command skips *)
(* nothing; again but for at most one fan per failed write.                *)
THEOREM CachesCorrect ==
  Spec /\ NoCalibrations /\ TunedApart => []WriteCacheTrue
<1>1. PlaceInv => WriteCacheTrue
  <2> SUFFICES ASSUME PlaceInv, pc = "recv"
               PROVE  Cardinality({f \in Fans : ~CacheTrue(f)}) <= faults
    BY DEF WriteCacheTrue
  <2> DEFINE Off == {f \in Fans : ~CacheTrue(f)}
  <2>1. Off \subseteq Strays
    BY DEF Strays, Astray, Settling, Placed, CacheTrue, PlaceInv, InStep, Follows, Cached
  <2>2. Strays \in SUBSET Fans /\ faults \in Nat /\ Cardinality(Strays) <= faults
    BY DEF Strays, PlaceInv, PinInv, StoreInv, TypeInv, TypeOK
  <2> HIDE DEF Off
  <2>3. Cardinality(Off) <= faults
    BY <2>1, <2>2, FewerOrphans
  <2> QED
    BY <2>3 DEF Off
<1> QED
  BY <1>1, InitPlace, PlaceStep, PTL DEF Spec
=============================================================================
