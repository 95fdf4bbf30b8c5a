--------------------------- MODULE FanIntentProofs ---------------------------
(* Where clients leave no doubt what they want of a fan, every fan is,     *)
(* between batches, in the mode last asked of it.                          *)
EXTENDS FanIntent, FanStoreProofs

(* Each fan is commanded by hand or by curve; both only one request at a   *)
(* time and without calibrations.  No client releases a fan by an empty    *)
(* assignment, and none asks for automatic control where clients calibrate *)
(* (the run then restores the duty read back, a request of its own).       *)
Calibrates == \E r \in Requests : r.op = "calibrate"
ByHand(f) == \E to : Sent(f, to)
Unambiguous ==
  /\ NoReleases
  /\ \A f \in Fans : ByHand(f) /\ Driven(f) => MaxBatch <= 1 /\ ~Calibrates
  /\ Calibrates => \A f \in Fans : ~Sent(f, Automatic)

-----------------------------------------------------------------------------
(* No batch both targets and assigns a fan.                                *)
Single == batch.size = 0 => batch.assigns = <<>> /\ \A f \in Fans : batch.targets[f] = None
Unmixed == \A f \in Fans : batch.targets[f] # None =>
             \A i \in DOMAIN batch.assigns : batch.assigns[i].fan # f
BeforeQueues == {"stopped", "crashed", "top", "resume", "recv", "targets"}
OrderInv ==
  /\ StoreInv /\ KindInv /\ Queued /\ DrivenInv /\ Unambiguous
  /\ Single /\ Unmixed
  /\ pc \in BeforeQueues => batch.next = 1
  /\ pc \in {"calibrate", "ladder", "restore"} => Calibrates

LEMMA BatchTaken ==
  ASSUME TypeInv, NEW r \in Requests, Take(r)
  PROVE  /\ batch'.size = batch.size + 1 /\ batch.size < MaxBatch
         /\ batch'.next = batch.next /\ pc = "recv" /\ pc' = pc
         /\ \/ /\ r.op = "target" /\ r \in TargetRequest
               /\ batch'.targets = [batch.targets EXCEPT ![r.fan] = r.to]
               /\ batch'.assigns = batch.assigns
            \/ /\ r.op = "assign" /\ r \in AssignRequest
               /\ batch'.targets = batch.targets
               /\ batch'.assigns = Append(batch.assigns, [fan |-> r.fan, to |-> r.to])
            \/ /\ r.op \notin {"target", "assign"}
               /\ UNCHANGED <<batch.targets, batch.assigns>>
<1>0. /\ batch \in Batch /\ r \in Request /\ r.op # "shutdown"
      /\ batch' = [Added(batch, r) EXCEPT !.size = @ + 1]
      /\ batch.size < MaxBatch /\ pc = "recv" /\ pc' = pc
  BY InputsAssumption DEF TypeInv, TypeOK, Take
<1>1. \/ r.op = "target" /\ r \in TargetRequest
      \/ r.op = "assign" /\ r \in AssignRequest
      \/ r.op \in {"settings", "curves", "calibrate", "redetect"}
  BY <1>0 DEF Request, TargetRequest, AssignRequest, SettingsRequest, CurvesRequest,
     PlainRequest
<1>2. Added(batch, r).size = batch.size
  BY <1>0, <1>1 DEF Added, Batch
<1>3. CASE r.op = "target" /\ r \in TargetRequest
  BY <1>0, <1>3 DEF Added, Batch
<1>4. CASE r.op = "assign" /\ r \in AssignRequest
  BY <1>0, <1>4 DEF Added, Batch
<1>5. CASE r.op = "settings"
  BY <1>0, <1>5 DEF Added, Batch
<1>6. CASE r.op \in {"curves", "calibrate", "redetect"}
  BY <1>0, <1>6 DEF Added, Batch
<1> QED
  BY <1>1, <1>3, <1>4, <1>5, <1>6

(* An entry that is appended comes last.                                   *)
LEMMA Appended ==
  ASSUME NEW T, NEW queue \in Seq(T), NEW entry
  PROVE  /\ Len(queue) \in Nat
         /\ DOMAIN queue = 1..Len(queue)
         /\ DOMAIN Append(queue, entry) = 1..(Len(queue) + 1)
         /\ \A i \in 1..Len(queue) : Append(queue, entry)[i] = queue[i]
         /\ Append(queue, entry)[Len(queue) + 1] = entry
  OBVIOUS

LEMMA UnmixedTaken ==
  ASSUME OrderInv, Queued', NEW r \in Requests, Take(r)
  PROVE  Single' /\ Unmixed'
<1>0. /\ TypeInv /\ batch.size \in Nat /\ MaxBatch \in Nat
      /\ batch.targets \in [Fans -> Targets \cup {None}]
      /\ batch.assigns \in Seq([fan: Fans, to: Curves \cup {None}])
  BY BoundsAssumption DEF OrderInv, StoreInv, TypeInv, TypeOK, Batch
<1>a. batch'.size = batch.size + 1 /\ batch.size < MaxBatch
  BY <1>0, BatchTaken
<1>1. Single'
  <2>1. batch'.size # 0
    BY <1>0, <1>a
  <2> QED
    BY <2>1 DEF Single
<1>2. SUFFICES ASSUME NEW f \in Fans, batch'.targets[f] # None,
                      NEW i \in DOMAIN batch'.assigns, batch'.assigns[i].fan = f
               PROVE  FALSE
  BY <1>1 DEF Unmixed
<1>3. Sent(f, batch'.targets[f]) /\ Driven(f)
  <2>1. [op |-> "assign", fan |-> f, to |-> batch'.assigns[i].to] \in Requests
    BY <1>2 DEF Queued, Listed
  <2>2. batch'.assigns[i].to # None
    BY <2>1 DEF OrderInv, Unambiguous, NoReleases
  <2>3. Sent(f, batch'.targets[f])
    BY <1>2 DEF Queued, Sent
  <2> QED
    BY <2>1, <2>2, <2>3 DEF Driven
<1>4. batch.size = 0
  <2>1. MaxBatch <= 1
    BY <1>3 DEF OrderInv, Unambiguous, ByHand
  <2> QED
    BY <1>0, <1>a, <2>1
<1>5. batch.assigns = <<>> /\ \A g \in Fans : batch.targets[g] = None
  BY <1>4 DEF OrderInv, Single
<1>6. batch'.assigns # <<>>
  BY <1>2
<1>7. r.op = "assign" /\ batch'.targets = batch.targets
  BY <1>0, <1>5, <1>6, BatchTaken
<1> QED
  BY <1>2, <1>5, <1>7

LEMMA OrderStep == OrderInv /\ [Next]_vars => OrderInv'
<1> SUFFICES ASSUME OrderInv, [Next]_vars PROVE OrderInv'
  OBVIOUS
<1> USE DEF sessionVars, curveVars, storeVars, viewVars
<1>0. TypeInv /\ batch \in Batch
  BY DEF OrderInv, StoreInv, TypeInv, TypeOK
<1>1. StoreInv' /\ KindInv' /\ Queued' /\ DrivenInv' /\ Unambiguous'
  BY <1>0, StoreStep, KindStep, QueueStep, DrivenStep
  DEF OrderInv, StoreInv, Unambiguous, NoReleases, Calibrates, ByHand, Driven, Sent
<1>2. CASE \E r \in Requests : Take(r)
  <2>1. PICK r \in Requests : Take(r)
    BY <1>2
  <2>2. batch'.next = batch.next /\ pc' = pc /\ pc = "recv"
    BY <1>0, <2>1, BatchTaken
  <2> QED
    BY <1>1, <2>1, <2>2, UnmixedTaken DEF OrderInv, BeforeQueues
<1>3. CASE \A r \in Requests : ~Take(r)
  <2>1. Single' /\ Unmixed'
    <3>1. CASE batch' = EmptyBatch
      BY <3>1 DEF EmptyBatch, Single, Unmixed
    <3>2. CASE UNCHANGED <<batch.targets, batch.assigns, batch.settings,
                           batch.calibrate, batch.size>>
      BY <3>2 DEF OrderInv, Single, Unmixed
    <3> QED
      BY <1>0, <1>3, <3>1, <3>2, BatchKept
  <2>2. /\ pc' \in BeforeQueues => batch'.next = 1
        /\ pc' \in {"calibrate", "ladder", "restore"} => Calibrates'
    <3> DEFINE Staged == /\ pc' \in BeforeQueues => batch'.next = 1
                         /\ pc' \in {"calibrate", "ladder", "restore"} => Calibrates
    <3> USE DEF BeforeQueues
    <3>0. /\ pc \in BeforeQueues => batch.next = 1
          /\ pc \in {"calibrate", "ladder", "restore"} => Calibrates
          /\ batch.calibrate => Calibrates
      BY DEF OrderInv, Queued, Calibrates
    <3>1. ASSUME batch' = EmptyBatch, pc' \notin {"calibrate", "ladder", "restore"}
          PROVE  Staged
      BY <3>1 DEF EmptyBatch
    <3>2. CASE batch' = batch /\ pc' = pc
      BY <3>0, <3>2
    <3>3. CASE UNCHANGED vars \/ Detection \/ Boot
      BY <3>0, <3>3 DEF vars, Detection, Detect, EndDetect, DetectFails, NotDue, Resume,
         Boot, Running
    <3>4. ASSUME NEW r \in Requests, Pump(r) \/ Stop(r) \/ AbortCalibration(r) PROVE Staged
      BY <3>1, <3>2, <3>4 DEF Pump, Stop, AbortCalibration, DropSession, ClearSession
    <3>5. CASE Batching \/ Crash
      <4>1. CASE BeginBatch
        BY <1>0, <3>0, <4>1 DEF BeginBatch, NewDefs, Batch
      <4>2. CASE DiscardBatch \/ Redetect \/ Crash
        BY <3>1, <4>2 DEF DiscardBatch, Redetect, Crash, DropSession, ClearSession
      <4> QED
        BY <3>5, <4>1, <4>2 DEF Batching
    <3>6. CASE Applying
      <4>1. ASSUME NEW f \in Fans, ServeTarget(f) \/ Retarget(f) PROVE Staged
        BY <3>2, <4>1 DEF ServeTarget, Retarget
      <4>2. CASE EndTargets \/ EndAssigns \/ EndRetarget
        BY <3>0, <4>2 DEF EndTargets, EndAssigns, EndRetarget, Proceed, AfterTargets,
           AfterAssigns
      <4>3. CASE Assign \/ SaveAssigns \/ Tune \/ SaveSettings
        BY <4>3 DEF Assign, SaveAssigns, Tune, SaveSettings
      <4> QED
        BY <3>6, <4>1, <4>2, <4>3 DEF Applying
    <3>7. CASE Calibrating \/ NextDuty
      BY <3>0, <3>7 DEF Calibrating, StartCalibration, SkipCalibration, NextDuty,
         EndLadder, Restore, EndCalibration, Proceed
    <3>8. CASE Polling
      <4>1. CASE EndRamps
        BY <4>1 DEF EndRamps
      <4>2. CASE Update \/ NoUpdate
        BY <3>1, <4>2 DEF Update, NoUpdate
      <4>3. ASSUME NEW f \in Fans, TickRamp(f) \/ DropVanished(f) \/ HoldReading(f)
            PROVE  Staged
        BY <3>2, <4>3 DEF TickRamp, DropVanished, HoldReading
      <4>4. ASSUME NEW f \in Fans, NEW r \in Readings, DriveByCurve(f, r) PROVE Staged
        BY <3>2, <4>4 DEF DriveByCurve
      <4> QED
        BY <3>8, <4>1, <4>2, <4>3, <4>4 DEF Polling
    <3> QED
      BY <1>3, <3>3, <3>4, <3>5, <3>6, <3>7, <3>8 DEF Next, Orderly, Working, Hearing,
         Ending, Calibrates
  <2> QED
    BY <1>1, <2>1, <2>2 DEF OrderInv
<1> QED
  BY <1>2, <1>3
-----------------------------------------------------------------------------
(* What a fan is headed for: the target the batch still has to serve, the  *)
(* last assignment it still has to make, what a calibration will restore,  *)
(* or else the mode it is in.                                              *)
Due(f) == batch.targets[f] # None /\ (pc = "recv" \/ (pc = "targets" /\ f \in todo))
Pending(f) == {i \in DOMAIN batch.assigns : /\ pc \in {"recv", "targets", "assign"}
                                            /\ i >= batch.next
                                            /\ batch.assigns[i].fan = f}
Restoring(f) == assigned[f] = None /\ (pc = "ladder" \/ (pc = "restore" /\ f \in todo))
Prepared == {"recv", "targets", "assign", "assigned", "settings", "retarget", "calibrate"}
Headed(f) ==
  /\ batch.targets[f] # None /\ pc \in Prepared => last[f] = ModeOf(None, batch.targets[f])
  /\ \A i \in Pending(f) : (\A j \in Pending(f) : j <= i) =>
                             last[f] = ModeOf(batch.assigns[i].to, None)
  /\ Restoring(f) => last[f] = ModeOf(None, restore[f])
  /\ ~Due(f) /\ Pending(f) = {} /\ ~Restoring(f) => last[f] = Mode(f)
Led(f) == last[f] # None => /\ f \in present /\ pc # "resume" /\ Headed(f)
                            /\ Calibrates => last[f] # <<"auto">>
IntentInv == /\ OrderInv /\ last = [f \in Fans |-> last[f]]
             /\ \A f \in Fans : Led(f)

LEMMA HeadKept ==
  ASSUME IntentInv, NEW f \in Fans, last'[f] = last[f], last[f] # None,
         f \in present', pc' # "resume", Mode(f)' = Mode(f),
         batch'.targets[f] # None /\ pc' \in Prepared
           => batch.targets[f] = batch'.targets[f] /\ pc \in Prepared,
         Pending(f)' = Pending(f),
         \A i \in Pending(f) : batch'.assigns[i] = batch.assigns[i],
         Due(f) => Due(f)', Restoring(f)' <=> Restoring(f),
         Restoring(f) => restore'[f] = restore[f]
  PROVE  Led(f)'
<1>1. Headed(f) /\ (Calibrates => last[f] # <<"auto">>)
  BY DEF IntentInv, Led
<1>2. Headed(f)'
  BY <1>1 DEF Headed
<1> QED
  BY <1>1, <1>2 DEF Led, Calibrates

(* Between the queues and the calibration only the mode matters.           *)
Calm == pc \notin {"recv", "targets", "assign", "ladder", "restore", "resume"}
LEMMA HeadCalm ==
  ASSUME IntentInv, NEW f \in Fans, last'[f] = last[f],
         UNCHANGED present, Calm, Calm', Mode(f)' = Mode(f),
         pc' \in Prepared => pc \in Prepared /\ batch'.targets = batch.targets
  PROVE  Led(f)'
<1> SUFFICES ASSUME last'[f] # None PROVE Led(f)'
  BY DEF Led
<1>1. /\ ~Due(f) /\ Pending(f) = {} /\ ~Restoring(f)
      /\ ~Due(f)' /\ Pending(f)' = {} /\ ~Restoring(f)'
  BY DEF Calm, Due, Pending, Restoring
<1>2. f \in present' /\ pc' # "resume"
  BY DEF IntentInv, Led, Calm
<1> QED
  BY <1>1, <1>2, HeadKept

(* The mode a fan is in is that of its curve, or of its request.           *)
LEMMA ModeKept ==
  ASSUME NEW f \in Fans, UNCHANGED present, assigned'[f] = assigned[f],
         assigned[f] # None \/ drive'[f].requested = drive[f].requested
  PROVE  Mode(f)' = Mode(f)
  BY DEF Mode, ModeOf

LEMMA LedTaken ==
  ASSUME IntentInv, OrderInv', NEW r \in Requests, Take(r), last' = Wanted(r),
         NEW f \in Fans
  PROVE  Led(f)'
<1>0. /\ TypeInv /\ batch.next = 1 /\ OrderInv /\ last = [g \in Fans |-> last[g]]
      /\ batch.targets \in [Fans -> Targets \cup {None}]
      /\ batch.assigns \in Seq([fan: Fans, to: Curves \cup {None}]) /\ Led(f)
  BY DEF IntentInv, OrderInv, BeforeQueues, StoreInv, TypeInv, TypeOK, Take, Batch
<1>1. /\ pc = "recv" /\ pc' = "recv" /\ batch'.next = 1
      /\ UNCHANGED <<present, assigned, drive, todo, restore>>
  BY <1>0, BatchTaken DEF Take, sessionVars, curveVars
<1>2. Mode(f)' = Mode(f) /\ ~Restoring(f) /\ ~Restoring(f)'
  BY <1>1, ModeKept DEF Restoring
<1>3. SUFFICES ASSUME last'[f] # None PROVE Led(f)'
  BY DEF Led
<1>4. /\ batch'.targets[f] # None => Sent(f, batch'.targets[f])
      /\ r.op = "assign" => r.to # None
      /\ Calibrates => \A g \in Fans : ~Sent(g, Automatic)
  BY DEF OrderInv, Queued, Sent, Unambiguous, NoReleases
<1> DEFINE n == Len(batch.assigns)
           entry == [fan |-> r.fan, to |-> r.to]
<1>5. CASE ~(r.op \in {"target", "assign"} /\ r.fan = f)
  <2>1. last'[f] = last[f]
    BY <1>0, <1>5 DEF Wanted
  <2>2. batch'.targets[f] = batch.targets[f]
    BY <1>0, <1>5, BatchTaken
  <2>3. Pending(f)' = Pending(f) /\ \A i \in Pending(f) : batch'.assigns[i] = batch.assigns[i]
    <3>1. CASE batch'.assigns = batch.assigns
      BY <1>0, <1>1, <3>1 DEF Pending
    <3>2. CASE r.op = "assign" /\ batch'.assigns = Append(batch.assigns, entry)
      <4>1. /\ n \in Nat /\ DOMAIN batch.assigns = 1..n /\ DOMAIN batch'.assigns = 1..(n + 1)
            /\ \A i \in 1..n : batch'.assigns[i] = batch.assigns[i]
            /\ batch'.assigns[n + 1].fan # f
        BY <1>0, <1>5, <3>2, Appended
      <4> HIDE DEF n, entry
      <4>2. \A i \in 1..(n + 1) : i \in 1..n \/ i = n + 1
        BY <4>1
      <4>3. 1..n \subseteq 1..(n + 1)
        BY <4>1
      <4> QED
        BY <1>0, <1>1, <4>1, <4>2, <4>3 DEF Pending
    <3> QED
      BY <1>0, <3>1, <3>2, BatchTaken
  <2> QED
    BY <1>0, <1>1, <1>2, <1>3, <2>1, <2>2, <2>3, HeadKept DEF Due, Led
<1>6. CASE r.op = "target" /\ r.fan = f
  <2>1. /\ r \in TargetRequest /\ batch'.targets = [batch.targets EXCEPT ![f] = r.to]
        /\ batch'.assigns = batch.assigns
    BY <1>0, <1>6, BatchTaken
  <2>2. batch'.targets[f] = r.to /\ r.to # None /\ r.to \in Targets
    BY <1>0, <2>1, MarkersAssumption DEF TargetRequest, Targets
  <2>3. f \in present /\ last'[f] = ModeOf(None, r.to)
    BY <1>0, <1>3, <1>6 DEF Wanted, Led
  <2>4. Due(f)' /\ Pending(f)' = {}
    BY <1>1, <2>2 DEF Due, Pending, OrderInv, Unmixed
  <2>5. Headed(f)'
    BY <1>2, <2>2, <2>3, <2>4 DEF Headed
  <2>6. Calibrates => last'[f] # <<"auto">>
    BY <1>4, <2>2, <2>3, MarkersAssumption DEF ModeOf, Targets
  <2> QED
    BY <1>1, <2>3, <2>5, <2>6 DEF Led, Calibrates
<1>7. CASE r.op = "assign" /\ r.fan = f
  <2>1. /\ r \in AssignRequest /\ batch'.targets = batch.targets
        /\ batch'.assigns = Append(batch.assigns, entry)
    BY <1>0, <1>7, BatchTaken
  <2>2. f \in present /\ last'[f] = ModeOf(r.to, None) /\ r.to # None
    BY <1>0, <1>1, <1>3, <1>4, <1>7 DEF Wanted, Led
  <2>3. /\ n \in Nat /\ DOMAIN batch'.assigns = 1..(n + 1)
        /\ batch'.assigns[n + 1] = entry
    BY <1>0, <2>1, Appended
  <2>4. entry.fan = f /\ entry.to = r.to
    BY <1>7
  <2> HIDE DEF n, entry
  <2>5. n + 1 \in Pending(f)' /\ \A i \in Pending(f)' : i <= n + 1
    BY <1>1, <2>3, <2>4 DEF Pending
  <2>6. \A i \in Pending(f)' : (\A j \in Pending(f)' : j <= i) => i = n + 1
    BY <1>1, <2>3, <2>5 DEF Pending
  <2>7. batch'.targets[f] = None
    BY <2>3, <2>4 DEF OrderInv, Unmixed
  <2>8. Headed(f)'
    BY <1>2, <2>2, <2>3, <2>4, <2>5, <2>6, <2>7 DEF Headed
  <2>9. Calibrates => last'[f] # <<"auto">>
    BY <2>2 DEF ModeOf
  <2> QED
    BY <1>1, <2>2, <2>8, <2>9 DEF Led, Calibrates
<1> QED
  BY <1>5, <1>6, <1>7
(* During a calibration a target goes into the plan of a fan that no curve *)
(* drives.                                                                 *)
LEMMA LedPumped ==
  ASSUME IntentInv, OrderInv', NEW r \in Requests, Pump(r), last' = Wanted(r),
         NEW f \in Fans
  PROVE  Led(f)'
<1>0. /\ TypeInv /\ OrderInv /\ last = [g \in Fans |-> last[g]] /\ Led(f)
      /\ restore \in [Fans -> Targets \cup {None}] /\ r \in Request
  BY InputsAssumption DEF IntentInv, OrderInv, StoreInv, TypeInv, TypeOK
<1>1. /\ pc = "ladder" /\ pc' = "ladder"
      /\ UNCHANGED <<batch, todo, present, assigned, drive>>
  BY DEF Pump, sessionVars, curveVars
<1>2. Mode(f)' = Mode(f)
  BY <1>1, ModeKept
<1>3. SUFFICES ASSUME last'[f] # None PROVE Led(f)'
  BY DEF Led
<1>4. CASE ~(r.op = "target" /\ r.fan = f)
  <2>1. last'[f] = last[f] /\ restore'[f] = restore[f]
    BY <1>0, <1>1, <1>4 DEF Wanted, Pump
  <2>2. Pending(f)' = Pending(f) /\ Pending(f) = {} /\ ~Due(f)
    BY <1>1 DEF Pending, Due
  <2>3. Restoring(f)' <=> Restoring(f)
    BY <1>1 DEF Restoring
  <2> QED
    BY <1>0, <1>1, <1>2, <1>3, <2>1, <2>2, <2>3, HeadKept DEF Led, Prepared
<1>5. CASE r.op = "target" /\ r.fan = f
  <2>1. r \in TargetRequest
    BY <1>0, <1>5 DEF Request, TargetRequest, AssignRequest, SettingsRequest,
       CurvesRequest, PlainRequest
  <2>2. Sent(f, r.to) /\ r.to \in Targets
    <3>1. r = [op |-> "target", fan |-> f, to |-> r.to]
      BY <1>5, <2>1 DEF TargetRequest
    <3> QED
      BY <2>1, <3>1 DEF Sent, TargetRequest
  <2>3. f \in present /\ last'[f] = ModeOf(None, r.to) /\ restore'[f] = r.to
    BY <1>0, <1>1, <1>3, <1>5 DEF Wanted, Pump, Led
  <2>4. Calibrates /\ assigned[f] = None
    <3>1. Calibrates
      BY <1>0, <1>1 DEF OrderInv
    <3>2. ~Driven(f)
      BY <1>0, <2>2, <3>1 DEF OrderInv, Unambiguous, ByHand
    <3> QED
      BY <1>0, <3>1, <3>2 DEF OrderInv, DrivenInv
  <2>5. Restoring(f)' /\ Pending(f)' = {} /\ ~Due(f)'
    BY <1>1, <2>4 DEF Restoring, Pending, Due
  <2>6. Headed(f)'
    BY <1>1, <2>3, <2>5 DEF Headed, Prepared
  <2>7. last'[f] # <<"auto">>
    <3>1. r.to # Automatic
      BY <1>0, <2>2, <2>4 DEF OrderInv, Unambiguous
    <3> QED
      BY <2>2, <2>3, <3>1 DEF ModeOf, Targets
  <2> QED
    BY <1>1, <2>3, <2>6, <2>7 DEF Led, Calibrates
<1> QED
  BY <1>4, <1>5

LEMMA LedDetection ==
  ASSUME IntentInv, OrderInv', Detection \/ Boot, last' \in {last, Nobody}, NEW f \in Fans
  PROVE  Led(f)'
<1>1. pc \notin {"top", "stopped", "crashed"} \/ present = {}
  BY DEF IntentInv, OrderInv, StoreInv, StoresDrive, KindInv
<1>2. pc \in {"top", "resume", "stopped", "crashed"}
  BY DEF Detection, Detect, EndDetect, DetectFails, NotDue, Resume, Boot, Running
<1>3. last[f] = None
  BY <1>1, <1>2 DEF IntentInv, Led
<1>4. last'[f] = None
  BY <1>3 DEF Nobody
<1> QED
  BY <1>4 DEF Led

LEMMA LedBegun ==
  ASSUME IntentInv, OrderInv', BeginBatch, last' = last, NEW f \in Fans
  PROVE  Led(f)'
<1>0. /\ TypeInv /\ batch \in Batch /\ Led(f)
  BY DEF IntentInv, OrderInv, StoreInv, TypeInv, TypeOK
<1>1. /\ UNCHANGED <<batch.targets, batch.assigns, batch.next, present, assigned, drive>>
      /\ pc = "recv" /\ pc' = "targets" /\ todo' = {g \in Fans : batch.targets[g] # None}
  BY <1>0 DEF BeginBatch, NewDefs, Batch, sessionVars
<1>2. /\ Mode(f)' = Mode(f) /\ ~Restoring(f) /\ ~Restoring(f)'
      /\ Due(f) => Due(f)'
      /\ Pending(f)' = Pending(f)
      /\ \A i \in Pending(f) : batch'.assigns[i] = batch.assigns[i]
  BY <1>1, ModeKept DEF Restoring, Due, Pending
<1> QED
  BY <1>0, <1>1, <1>2, HeadKept DEF Led, Prepared

(* A target that is served is in force; the fan has no assignment waiting. *)
LEMMA LedServed ==
  ASSUME IntentInv, OrderInv', NEW g \in Fans, ServeTarget(g), last' = last, NEW f \in Fans
  PROVE  Led(f)'
<1>0. /\ TypeInv /\ OrderInv /\ Led(f) /\ batch \in Batch
      /\ batch.targets \in [Fans -> Targets \cup {None}]
      /\ assigned \in [Fans -> Curves \cup {None}]
  BY DEF IntentInv, OrderInv, StoreInv, TypeInv, TypeOK, Batch
<1>1. /\ UNCHANGED <<batch, present, restore>> /\ pc = "targets" /\ pc' = "targets"
      /\ todo' = todo \ {g} /\ g \in todo
      /\ RequestTarget(g, batch.targets[g], TRUE) /\ batch.targets[g] \in Targets
  BY <1>0 DEF ServeTarget, sessionVars, TypeInv, TodoOK
<1>2. /\ ~Restoring(f) /\ ~Restoring(f)' /\ Pending(f)' = Pending(f)
  BY <1>1 DEF Restoring, Pending
<1>3. CASE f # g
  <2>1. assigned'[f] = assigned[f] /\ drive'[f].requested = drive[f].requested
    BY <1>0, <1>1, <1>3, RequestRemembered DEF ServeTarget, curveVars
  <2>2. Mode(f)' = Mode(f) /\ (Due(f) => Due(f)')
    BY <1>1, <1>3, <2>1, ModeKept DEF Due
  <2> QED
    BY <1>0, <1>1, <1>2, <2>2, HeadKept DEF Led
<1>4. CASE f = g
  <2>1. SUFFICES ASSUME last[f] # None PROVE Led(f)'
    BY DEF Led
  <2>2. /\ f \in present /\ last[f] = ModeOf(None, batch.targets[f])
        /\ Calibrates => last[f] # <<"auto">>
    BY <1>0, <1>1, <1>4, <2>1, MarkersAssumption DEF Led, Headed, Prepared, Targets
  <2>3. assigned'[f] = None
    BY <1>0, <1>4, <2>2 DEF ServeTarget, curveVars
  <2>4. drive'[f].requested = StoredTarget(batch.targets[f])
    BY <1>0, <1>1, <1>4, RequestRemembered
  <2>5. Mode(f)' = last[f]
    BY <1>1, <2>2, <2>3, <2>4, MarkersAssumption DEF Mode, ModeOf, StoredTarget, Targets
  <2>6. Pending(f)' = {}
    BY <1>0, <1>1, <1>4, MarkersAssumption DEF OrderInv, Unmixed, Pending, Targets
  <2>7. Headed(f)'
    BY <1>1, <1>2, <2>2, <2>5, <2>6 DEF Headed
  <2> QED
    BY <1>1, <2>2, <2>7 DEF Led, Calibrates
<1> QED
  BY <1>3, <1>4

(* The last assignment of a fan in the batch is the one it ends with.      *)
LEMMA LedAssigned ==
  ASSUME IntentInv, OrderInv', Assign, last' = last, NEW f \in Fans
  PROVE  Led(f)'
<1>0. /\ TypeInv /\ OrderInv /\ Led(f) /\ batch \in Batch /\ batch.next \in Nat
      /\ assigned \in [Fans -> Curves \cup {None}] /\ Queued
      /\ DOMAIN batch.assigns \subseteq Nat
  <2>1. batch.assigns \in Seq([fan: Fans, to: Curves \cup {None}])
    BY DEF IntentInv, OrderInv, StoreInv, TypeInv, TypeOK, Batch
  <2>2. DOMAIN batch.assigns \subseteq Nat
    BY <2>1
  <2> QED
    BY <2>2 DEF IntentInv, OrderInv, StoreInv, TypeInv, TypeOK, Batch
<1>1. PICK g \in Fans, c \in Curves \cup {None} :
        /\ batch.assigns[batch.next].fan = g /\ batch.assigns[batch.next].to = c
        /\ batch.next \in DOMAIN batch.assigns
        /\ [op |-> "assign", fan |-> g, to |-> c] \in Requests
  BY <1>0, AssignEntry
<1>2. c # None
  BY <1>0, <1>1 DEF OrderInv, Unambiguous, NoReleases
<1>3. /\ UNCHANGED <<present, restore, drive, todo, batch.assigns, batch.targets>>
      /\ pc = "assign" /\ pc' = "assign" /\ batch'.next = batch.next + 1
      /\ assigned' = IF g \in present THEN [assigned EXCEPT ![g] = c] ELSE assigned
  BY <1>0, <1>1, <1>2 DEF Assign, NoRequest, curveVars, sessionVars, Batch
<1>4. SUFFICES ASSUME last[f] # None PROVE Led(f)'
  BY DEF Led
<1>5. f \in present /\ ~Restoring(f) /\ ~Restoring(f)' /\ ~Due(f) /\ ~Due(f)'
  BY <1>0, <1>3, <1>4 DEF Led, Restoring, Due
<1>6. CASE f # g
  <2>1. Mode(f)' = Mode(f)
    BY <1>0, <1>3, <1>6, ModeKept
  <2>2. Pending(f)' = Pending(f)
    BY <1>0, <1>1, <1>3, <1>6 DEF Pending
  <2> QED
    BY <1>3, <1>4, <1>5, <2>1, <2>2, HeadKept DEF Pending
<1>7. CASE f = g
  <2>1. /\ Pending(f)' = Pending(f) \ {batch.next} /\ batch.next \in Pending(f)
        /\ \A i \in Pending(f) : i >= batch.next /\ i \in Nat
    BY <1>0, <1>1, <1>3, <1>7 DEF Pending
  <2>2. Mode(f)' = ModeOf(c, None)
    BY <1>0, <1>2, <1>3, <1>5, <1>7 DEF Mode, ModeOf
  <2>3. Headed(f)
    BY <1>0, <1>4 DEF Led
  <2>4. ASSUME NEW i \in Pending(f)', \A j \in Pending(f)' : j <= i
        PROVE  last'[f] = ModeOf(batch'.assigns[i].to, None)
    <3>1. i \in Pending(f) /\ \A j \in Pending(f) : j <= i
      BY <2>1, <2>4, <1>0
    <3> QED
      BY <1>3, <2>3, <3>1 DEF Headed
  <2>5. Pending(f)' = {} => last'[f] = Mode(f)'
    <3>1. SUFFICES ASSUME Pending(f)' = {} PROVE last[f] = ModeOf(c, None)
      BY <2>2
    <3>2. \A j \in Pending(f) : j <= batch.next
      BY <1>0, <2>1, <3>1
    <3> QED
      BY <1>1, <2>1, <2>3, <3>2 DEF Headed
  <2>6. Headed(f)'
    BY <1>3, <1>5, <2>3, <2>4, <2>5 DEF Headed, Prepared
  <2> QED
    BY <1>0, <1>3, <1>4, <1>5, <2>6 DEF Led, Calibrates
<1> QED
  BY <1>6, <1>7
LEMMA LedApplying ==
  ASSUME IntentInv, OrderInv', Applying, last' = last, NEW f \in Fans
  PROVE  Led(f)'
<1> USE DEF sessionVars, curveVars
<1>0. /\ TypeInv /\ OrderInv /\ Led(f) /\ batch \in Batch
      /\ drive \in [Fans -> Drive] /\ batch.next \in Nat
      /\ batch.assigns \in Seq([fan: Fans, to: Curves \cup {None}])
  BY DEF IntentInv, OrderInv, StoreInv, TypeInv, TypeOK, Batch
<1>1. CASE EndTargets
  <2>1. /\ UNCHANGED <<batch, present, restore, assigned, drive>>
        /\ pc = "targets" /\ todo = {} /\ pc' \in {"assign", "settings", "calibrate", "ramps"}
        /\ pc' # "assign" => batch.assigns = <<>>
    BY <1>1 DEF EndTargets, Proceed, AfterTargets, AfterAssigns
  <2>2. /\ ~Due(f) /\ Pending(f)' = Pending(f) /\ ~Restoring(f) /\ ~Restoring(f)'
        /\ Mode(f)' = Mode(f)
    BY <2>1, ModeKept DEF Due, Pending, Restoring
  <2> QED
    BY <1>0, <2>1, <2>2, HeadKept DEF Led, Prepared
<1>2. CASE SaveAssigns
  <2>1. /\ UNCHANGED <<batch.targets, present, restore, assigned, drive>>
        /\ pc = "assign" /\ pc' = "assigned" /\ batch.next > Len(batch.assigns)
    BY <1>0, <1>2 DEF SaveAssigns, Batch
  <2>2. Pending(f) = {}
    BY <1>0, <2>1 DEF Pending
  <2>3. /\ ~Due(f) /\ Pending(f)' = {} /\ ~Restoring(f) /\ ~Restoring(f)'
        /\ Mode(f)' = Mode(f)
    BY <2>1, ModeKept DEF Due, Pending, Restoring
  <2> QED
    BY <1>0, <2>1, <2>2, <2>3, HeadKept DEF Led, Prepared
<1>3. CASE EndAssigns \/ Tune \/ SaveSettings \/ EndRetarget
  <2>1. /\ UNCHANGED <<batch.targets, present, assigned, drive>>
        /\ pc \in {"assigned", "settings", "retarget"}
        /\ pc' \in {"settings", "retarget", "calibrate", "ramps"}
    BY <1>0, <1>3 DEF EndAssigns, Tune, SaveSettings, EndRetarget, Proceed, AfterAssigns,
       Batch
  <2>2. Mode(f)' = Mode(f)
    BY <2>1, ModeKept
  <2> QED
    BY <2>1, <2>2, HeadCalm DEF Calm, Prepared
<1>4. ASSUME NEW g \in Fans, Retarget(g) PROVE Led(f)'
  <2>1. /\ UNCHANGED <<batch, present, assigned, pc>> /\ pc = "retarget"
        /\ RequestTarget(g, drive[g].requested, TRUE)
        /\ drive[g].requested \in Targets /\ drive[g].requested # Automatic
    BY <1>0, <1>4, MarkersAssumption DEF Retarget, TypeInv, TodoOK, Drive, Targets
  <2>2. drive'[f].requested = drive[f].requested
    BY <1>0, <2>1, RequestRemembered DEF StoredTarget
  <2>3. Mode(f)' = Mode(f)
    BY <2>1, <2>2, ModeKept
  <2> QED
    BY <2>1, <2>3, HeadCalm DEF Calm, Prepared
<1> QED
  BY <1>1, <1>2, <1>3, <1>4, LedServed, LedAssigned DEF Applying

(* A calibration starts with a plan that restores what each fan is wanted  *)
(* at: the batch's target, or the standing request.                        *)
LEMMA LedLadder ==
  ASSUME IntentInv, OrderInv', StartCalibration \/ NextDuty, last' = last, NEW f \in Fans
  PROVE  Led(f)'
<1>0. /\ TypeInv /\ OrderInv /\ Led(f)
      /\ assigned \in [Fans -> Curves \cup {None}]
      /\ drive \in [Fans -> Drive] /\ drive[f] \in Drive
      /\ batch.targets \in [Fans -> Targets \cup {None}]
  BY DEF IntentInv, OrderInv, StoreInv, TypeInv, TypeOK, Batch
<1>1. /\ UNCHANGED <<batch, present, assigned>> /\ pc' = "ladder"
      /\ \E level \in Ladder : LadderWrite(level, present)
  BY DEF StartCalibration, NextDuty, sessionVars, curveVars
<1>2. Mode(f)' = Mode(f)
  BY <1>0, <1>1, LadderRemembered, ModeKept
<1>3. SUFFICES ASSUME last[f] # None PROVE Led(f)'
  BY DEF Led
<1>4. f \in present /\ Headed(f) /\ Pending(f)' = {} /\ ~Due(f)'
  BY <1>0, <1>1, <1>3 DEF Led, Pending, Due
<1>5. CASE NextDuty
  <2>1. /\ ~Due(f) /\ Pending(f) = {} /\ restore' = restore
        /\ Restoring(f) <=> Restoring(f)'
    BY <1>1, <1>5 DEF NextDuty, Due, Pending, Restoring
  <2> QED
    BY <1>1, <1>2, <1>3, <1>4, <2>1, HeadKept DEF Prepared
<1>6. CASE StartCalibration
  <2>1. /\ pc = "calibrate" /\ restore'[f] = PlanFor(f)
        /\ ~Due(f) /\ Pending(f) = {} /\ ~Restoring(f)
    BY <1>4, <1>6 DEF StartCalibration, Due, Pending, Restoring
  <2>2. /\ last[f] = Mode(f)
        /\ batch.targets[f] # None => last[f] = ModeOf(None, batch.targets[f])
        /\ last[f] # <<"auto">>
    BY <1>0, <1>3, <1>4, <2>1 DEF Headed, Prepared, OrderInv, Led
  <2>3. assigned[f] = None => last[f] = ModeOf(None, restore'[f])
    <3>1. CASE batch.targets[f] # None
      BY <2>1, <2>2, <3>1 DEF PlanFor
    <3>2. CASE batch.targets[f] = None /\ drive[f].requested # None
      BY <1>4, <2>1, <2>2, <3>2 DEF PlanFor, Mode
    <3>3. CASE drive[f].requested = None
      BY <1>4, <2>2, <3>3, MarkersAssumption DEF Mode, ModeOf
    <3> QED
      BY <3>1, <3>2, <3>3
  <2>4. Headed(f)'
    BY <1>1, <1>2, <1>4, <2>2, <2>3 DEF Headed, Prepared, Restoring
  <2> QED
    BY <1>1, <1>4, <2>2, <2>4 DEF Led
<1> QED
  BY <1>5, <1>6

LEMMA LedCalibrating ==
  ASSUME IntentInv, OrderInv', Calibrating \/ NextDuty, last' = last, NEW f \in Fans
  PROVE  Led(f)'
<1> USE DEF sessionVars, curveVars
<1>0. /\ TypeInv /\ OrderInv /\ Led(f) /\ present \subseteq Fans
      /\ drive \in [Fans -> Drive]
      /\ restore \in [Fans -> Targets \cup {None}]
  BY DEF IntentInv, OrderInv, StoreInv, TypeInv, TypeOK
<1>1. SUFFICES ASSUME last[f] # None PROVE Led(f)'
  BY DEF Led
<1>2. f \in present /\ Headed(f) /\ (Calibrates => last[f] # <<"auto">>)
  BY <1>0, <1>1 DEF Led
<1>3. CASE SkipCalibration
  BY <1>2, <1>3 DEF SkipCalibration
<1>4. CASE EndLadder
  <2>1. /\ UNCHANGED <<batch, present, assigned, drive, restore>>
        /\ pc = "ladder" /\ pc' = "restore" /\ f \in todo'
    BY <1>2, <1>4 DEF EndLadder
  <2>2. /\ Mode(f)' = Mode(f) /\ ~Due(f) /\ Pending(f)' = Pending(f) /\ Pending(f) = {}
        /\ Restoring(f)' <=> Restoring(f)
    BY <2>1, ModeKept DEF Due, Pending, Restoring
  <2> QED
    BY <1>1, <1>2, <2>1, <2>2, HeadKept DEF Prepared
<1>5. ASSUME NEW g \in Fans, Restore(g) PROVE Led(f)'
  <2>1. /\ UNCHANGED <<batch, present, assigned, restore>> /\ g \in todo
        /\ pc = "restore" /\ pc' = "restore" /\ todo' = todo \ {g}
        /\ RequestTarget(g, restore[g], FALSE) /\ restore[g] \in Targets
    BY <1>0, <1>5 DEF Restore, TypeInv, TodoOK
  <2>2. /\ drive'[g].requested = StoredTarget(restore[g])
        /\ g # f => drive'[f].requested = drive[f].requested
    BY <1>0, <2>1, RequestRemembered
  <2>3. ~Due(f) /\ Pending(f)' = {} /\ Pending(f) = {} /\ ~Due(f)'
    BY <2>1 DEF Due, Pending
  <2>4. CASE g = f /\ assigned[f] = None
    <3>1. last[f] = ModeOf(None, restore[f]) /\ ~Restoring(f)'
      BY <1>2, <2>1, <2>4 DEF Headed, Restoring
    <3>2. Mode(f)' = ModeOf(None, restore[f])
      BY <1>2, <2>1, <2>2, <2>4, MarkersAssumption DEF Mode, ModeOf, StoredTarget, Targets
    <3>3. Headed(f)'
      BY <2>1, <2>3, <3>1, <3>2 DEF Headed, Prepared
    <3> QED
      BY <1>2, <2>1, <3>3 DEF Led, Calibrates
  <2>5. CASE g # f \/ assigned[f] # None
    <3>1. Mode(f)' = Mode(f) /\ (Restoring(f)' <=> Restoring(f))
      BY <2>1, <2>2, <2>5, ModeKept DEF Restoring
    <3> QED
      BY <1>1, <1>2, <2>1, <2>3, <3>1, HeadKept DEF Prepared
  <2> QED
    BY <2>4, <2>5
<1>6. CASE EndCalibration
  <2>1. /\ UNCHANGED <<batch, present, assigned, drive>>
        /\ pc = "restore" /\ pc' = "ramps" /\ todo = {}
    BY <1>6 DEF EndCalibration, Proceed
  <2>2. /\ Mode(f)' = Mode(f) /\ ~Due(f) /\ Pending(f)' = Pending(f) /\ Pending(f) = {}
        /\ ~Restoring(f)' /\ ~Restoring(f)
    BY <2>1, ModeKept DEF Due, Pending, Restoring
  <2> QED
    BY <1>1, <1>2, <2>1, <2>2, HeadKept DEF Prepared
<1> QED
  BY <1>3, <1>4, <1>5, <1>6, LedLadder DEF Calibrating

LEMMA LedPolling ==
  ASSUME IntentInv, OrderInv', Polling, last' = last, NEW f \in Fans
  PROVE  Led(f)'
<1> USE DEF sessionVars, curveVars
<1>0. TypeInv /\ OrderInv /\ Led(f) /\ drive \in [Fans -> Drive]
  BY DEF IntentInv, OrderInv, StoreInv, TypeInv, TypeOK
<1>1. CASE EndRamps
  BY <1>1, ModeKept, HeadCalm DEF EndRamps, Calm, Prepared
<1>2. CASE Update \/ NoUpdate
  <2>1. /\ UNCHANGED <<present, assigned, drive>> /\ batch' = EmptyBatch
        /\ pc = "curves" /\ pc' = "recv"
    BY <1>2 DEF Update, NoUpdate
  <2>2. /\ batch'.targets[f] = None /\ batch'.assigns = <<>>
    BY <2>1 DEF EmptyBatch
  <2>3. /\ Mode(f)' = Mode(f) /\ ~Due(f) /\ Pending(f) = {} /\ Pending(f)' = {}
        /\ ~Restoring(f) /\ ~Restoring(f)'
    BY <2>1, <2>2, ModeKept DEF Due, Pending, Restoring
  <2> QED
    BY <1>0, <2>1, <2>2, <2>3, HeadKept DEF Led
<1>3. ASSUME NEW g \in Fans, TickRamp(g) PROVE Led(f)'
  <2>1. UNCHANGED <<present, assigned, batch, pc>> /\ pc = "ramps"
    BY <1>3 DEF TickRamp
  <2>2. drive'[f].requested = drive[f].requested
    BY <1>0, <1>3, TickRemembered
  <2> QED
    BY <2>1, <2>2, ModeKept, HeadCalm DEF Calm, Prepared
<1>4. ASSUME NEW g \in Fans, HoldReading(g) \/ DropVanished(g) PROVE Led(f)'
  <2>1. /\ UNCHANGED <<present, assigned, batch, pc>> /\ pc = "curves"
        /\ assigned[g] # None
        /\ UNCHANGED drive \/ RequestTarget(g, Automatic, TRUE)
    BY <1>0, <1>4 DEF HoldReading, DropVanished, NoRequest, TypeInv, TodoOK
  <2>2. f # g => drive'[f].requested = drive[f].requested
    BY <1>0, <2>1, RequestRemembered DEF Targets
  <2> QED
    BY <2>1, <2>2, ModeKept, HeadCalm DEF Calm, Prepared
<1>5. ASSUME NEW g \in Fans, NEW r \in Readings, DriveByCurve(g, r) PROVE Led(f)'
  <2>1. /\ UNCHANGED <<present, assigned, batch, pc>> /\ pc = "curves"
        /\ assigned[g] # None
    BY <1>0, <1>5 DEF DriveByCurve, TypeInv, TodoOK
  <2>2. PICK to \in Targets : \/ RequestTarget(g, to, TRUE)
                              \/ drive' = [drive EXCEPT ![g].requested = to]
    <3>1. PICK to \in CurveTargets(g, r) :
            IF written[g] # Command(g, to)
              THEN RequestTarget(g, to, TRUE)
              ELSE drive' = [drive EXCEPT ![g].requested = to]
      BY <1>5 DEF DriveByCurve
    <3>2. to \in Levels
      BY <1>0, <1>5, <2>1, <3>1, CurveTargetsType DEF DriveByCurve, TypeInv
    <3> QED
      BY <3>1, <3>2 DEF Targets
  <2>3. f # g => drive'[f].requested = drive[f].requested
    BY <1>0, <2>2, RequestRemembered
  <2> QED
    BY <2>1, <2>3, ModeKept, HeadCalm DEF Calm, Prepared
<1> QED
  BY <1>1, <1>2, <1>3, <1>4, <1>5 DEF Polling

LEMMA IntentStep == IntentInv /\ [IntentNext]_<<vars, last>> => IntentInv'
<1> SUFFICES ASSUME IntentInv, [IntentNext]_<<vars, last>> PROVE IntentInv'
  OBVIOUS
<1>1. [Next]_vars
  BY DEF IntentNext, IntentOrderly, IntentHear, IntentWork, IntentCrash, Next, Orderly,
     Hearing
<1>2. OrderInv' /\ last = [f \in Fans |-> last[f]]
  BY <1>1, OrderStep DEF IntentInv
<1>3. CASE last' = Nobody
  <2>1. \A f \in Fans : last'[f] = None
    BY <1>3 DEF Nobody
  <2> QED
    BY <1>2, <1>3, <2>1 DEF IntentInv, Led, Nobody
<1>4. CASE UNCHANGED <<vars, last>>
  <2>1. UNCHANGED <<pc, batch, todo, present, drive, assigned, restore, last>>
    BY <1>4 DEF vars, sessionVars, curveVars
  <2>2. ASSUME NEW f \in Fans PROVE Led(f)'
    <3>1. Due(f)' = Due(f) /\ Pending(f)' = Pending(f) /\ Restoring(f)' = Restoring(f)
      BY <2>1 DEF Due, Pending, Restoring
    <3>2. Mode(f)' = Mode(f)
      BY <2>1, ModeKept
    <3>3. Headed(f)' <=> Headed(f)
      BY <2>1, <3>1, <3>2 DEF Headed
    <3> QED
      BY <2>1, <3>3 DEF IntentInv, Led, Calibrates
  <2> QED
    BY <1>2, <2>1, <2>2 DEF IntentInv
<1>5. ASSUME NEW r \in Requests, Take(r) \/ Pump(r), last' = Wanted(r) PROVE IntentInv'
  <2>1. \A f \in Fans : Led(f)'
    BY <1>2, <1>5, LedTaken, LedPumped
  <2>2. last' = [f \in Fans |-> last'[f]]
    BY <1>2, <1>5 DEF Wanted
  <2> QED
    BY <1>2, <2>1, <2>2 DEF IntentInv
<1>6. CASE Working /\ last' = last /\ open'
  <2>1. ~DiscardBatch /\ ~Redetect
    BY <1>6 DEF DiscardBatch, Redetect, DropSession, ClearSession, sessionVars
  <2>2. \A r \in Requests : ~Stop(r) /\ ~AbortCalibration(r)
    BY <1>6 DEF Stop, AbortCalibration, DropSession, ClearSession
  <2>3. \A f \in Fans : Led(f)'
    BY <1>2, <1>6, <2>1, <2>2, LedDetection, LedBegun, LedApplying, LedCalibrating,
       LedPolling DEF Working, Batching, Ending
  <2> QED
    BY <1>2, <1>6, <2>3 DEF IntentInv
<1> QED
  BY <1>3, <1>4, <1>5, <1>6 DEF IntentNext, IntentOrderly, IntentHear, IntentWork,
     IntentCrash

(* Where clients leave no doubt what they want, the last request for a fan *)
(* is what the fan ends up with, whatever came between: other batches,     *)
(* tunings, calibrations, curves that come and go.                         *)
THEOREM IntentCorrect == IntentSpec /\ Unambiguous => []LastRequestWins
<1>1. IntentInit /\ Unambiguous => IntentInv
  <2> SUFFICES ASSUME IntentInit, Unambiguous PROVE IntentInv
    OBVIOUS
  <2>1. Init /\ last = Nobody
    BY DEF IntentInit
  <2>2. /\ StoreInv /\ KindInv
    BY <2>1, InitStores, InitSession DEF CurveInv
  <2>3. /\ batch = EmptyBatch /\ pc = "top"
        /\ \A f \in Fans : /\ assigned[f] = None /\ curveStore[f] = None
                           /\ disk.curves[f] = None
    BY <2>1 DEF Init, Nobody
  <2>4. Queued /\ DrivenInv /\ Single /\ Unmixed
    BY <2>3 DEF Queued, DrivenInv, Single, Unmixed, EmptyBatch, Listed
  <2>5. OrderInv
    BY <2>2, <2>3, <2>4 DEF OrderInv, EmptyBatch
  <2> QED
    BY <2>1, <2>5 DEF IntentInv, Led, Nobody
<1>2. IntentInv => LastRequestWins
  <2> SUFFICES ASSUME IntentInv, pc = "recv", batch = EmptyBatch, NEW f \in present,
                      last[f] # None
               PROVE  Mode(f) = last[f]
    BY DEF LastRequestWins
  <2>1. f \in Fans /\ Headed(f)
    BY DEF IntentInv, OrderInv, StoreInv, TypeInv, TypeOK, Led
  <2>2. ~Due(f) /\ Pending(f) = {} /\ ~Restoring(f)
    BY <2>1 DEF EmptyBatch, Due, Pending, Restoring
  <2> QED
    BY <2>1, <2>2 DEF Headed
<1> QED
  BY <1>1, <1>2, IntentStep, PTL DEF IntentSpec
=============================================================================
