----------------------------- MODULE FanIntent -----------------------------
(***************************************************************************)
(* The worker together with what its clients last wanted: for each fan the *)
(* mode named by the last request for it that reached the worker while the *)
(* fan was there.  A restart or a re-detection starts from a clean slate.  *)
(***************************************************************************)
EXTENDS FanWorker

VARIABLE last     \* the mode last asked of each fan, None if nothing was

(* During a calibration an assignment is refused: the client is to send it *)
(* again afterwards.                                                       *)
Wanted(r) ==
  IF r.op \notin {"target", "assign"} THEN last
  ELSE IF r.fan \notin present \/ (pc = "ladder" /\ r.op = "assign") THEN last
  ELSE [last EXCEPT ![r.fan] =
         IF r.op = "target" THEN ModeOf(None, r.to) ELSE ModeOf(r.to, None)]

IntentInit == Init /\ last = Nobody
IntentHear == \E r \in Requests : (Take(r) \/ Pump(r)) /\ last' = Wanted(r)
IntentWork == Working /\ last' = IF open' THEN last ELSE Nobody
IntentCrash == Crash /\ last' = Nobody
IntentOrderly == IntentHear \/ IntentWork
IntentNext == IntentOrderly \/ IntentCrash

IntentSpec == IntentInit /\ [][IntentNext]_<<vars, last>>
IntentOrderlySpec == IntentInit /\ [][IntentOrderly]_<<vars, last>>

(* Between batches every fan is in the mode last asked of it: the last     *)
(* request for a fan wins, whatever else came between.                     *)
LastRequestWins ==
  pc = "recv" /\ open /\ batch = EmptyBatch =>
    \A f \in present : last[f] # None => Mode(f) = last[f]
=============================================================================
