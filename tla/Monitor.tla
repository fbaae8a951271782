------------------------------ MODULE Monitor ------------------------------
(***************************************************************************)
(* What the service asks of AWS, together: threads that each collect       *)
(* metrics (MetricCache) or answer a request about instances               *)
(* (Ec2Inventory), while volumes, metrics and instances change (AwsCloud). *)
(***************************************************************************)
EXTENDS MetricCache, Ec2Inventory

ASSUME OneThreadPool == Listers = Threads

vars == <<cloud, collection, listing>>

Init == CloudInit /\ CacheInit /\ InventoryInit

Collection(t) ==
  /\ UNCHANGED <<cloud, listing>>
  /\ \/ Free(t) /\ Collect(t)
     \/ CollectionStep(t)

\* For the bound a listing counts as many requests as it may read pages.
Inventory(t) ==
  \/ /\ requests + Len(Pages) <= MaxRequests /\ At(t, "idle")
     /\ requests' = requests + Len(Pages)
     /\ InventoryRequest(t)
     /\ UNCHANGED <<caches, call, marks>>
  \/ InventoryStep(t) /\ UNCHANGED collection

\* Time passes, but no collection takes longer than LONGEST_CALL.
Tick ==
  /\ now < MaxTime
  /\ \A t \in Threads : Collecting(t) => now < call[t].began + LONGEST_CALL
  /\ now' = now + 1
  /\ UNCHANGED <<there, ec2, changes, since, changed, collection, listing>>

\* Nothing is asked of the service any more.
Quiet == (\A t \in Threads : At(t, "idle") /\ Free(t)) /\ UNCHANGED vars

Next ==
  \/ \E t \in Threads : Collection(t) \/ Inventory(t)
  \/ CloudChange /\ UNCHANGED <<collection, listing>>
  \/ Tick \/ Quiet

Spec == Init /\ [][Next]_vars
-----------------------------------------------------------------------------
TypeOK ==
  /\ CloudTypeOK
  /\ cwagent_cache \in Entry /\ volume_cache \in Entry
  /\ last_refresh \in Nat /\ requests \in Nat
  /\ call \in [Threads -> Call]
  /\ overlapped \in BOOLEAN /\ raised \in BOOLEAN /\ faults \subseteq Nat
  /\ listing \in [Threads -> Listing]

\* No feature is reported as over its threshold because of a volume that was
\* detached, or a metric no longer reported, for as long as a cache entry may
\* be used, nor because of a datapoint that is not the latest: an alarm has
\* its cause in what CloudWatch holds of the instance as it recently was
\* (_refresh_caches_if_needed, _parse_results, detect_anomaly_rule_based).
NoFalseAlarm ==
  \A t \in Threads : call[t].triggered \subseteq call[t].possible

\* And the other way round.  A volume or metric that has been there as long as
\* a cache entry may be used is in every collection, unless the very call that
\* should find it failed lately: if it takes a feature over its threshold, the
\* feature is reported.  Discoveries of other threads that are stored after
\* the caches were cleared only make "as long" longer.
OverloadIsReported ==
  \A t \in Threads : call[t].certain \subseteq call[t].triggered

\* A collection ends in a KeyError only if another was in progress at the same
\* time: alone, an entry that was found is still there when it is read
\* (_resolve_volume_ids, _discover_cwagent_metrics).
KeyErrorNeedsOverlap == raised => overlapped
=============================================================================
