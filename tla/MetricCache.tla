---------------------------- MODULE MetricCache ----------------------------
(***************************************************************************)
(* fetch_all_metrics_batch of backend/aws/cloudwatch_collector.py with its *)
(* two discovery caches, and what is made of its answer.  The caches are   *)
(* dictionaries that all threads share without a lock; every call of a     *)
(* deployment is for the one INSTANCE_ID, so each has one entry at most.   *)
(* An action is one operation on a cache or one call of AWS, which may     *)
(* fail: an exception is logged and the collection goes on without.        *)
(***************************************************************************)
EXTENDS AwsCloud, AnomalyRules

CONSTANTS
  Threads,
  CWAGENT,                  \* CWAGENT_METRICS, then OPTIONAL_CWAGENT_METRICS
  CACHE_TTL,
  LONGEST_CALL,             \* a collection takes no longer: boto3 times out
  Readings,                 \* answers CloudWatch may give to a query
  MaxRequests               \* bound of the model

ASSUME CacheAssumption ==
  /\ IsFiniteSet(Threads)
  /\ CWAGENT \in Seq(AgentMetrics) /\ CWAGENT # <<>>
  /\ \A metric \in AgentMetrics : \E j \in DOMAIN CWAGENT : CWAGENT[j] = metric
  /\ CACHE_TTL \in Nat \ {0} /\ LONGEST_CALL \in Nat /\ MaxRequests \in Nat
  /\ Readings \subseteq [values : Seq(Nat), timestamps : Seq(Nat)]
  /\ \A r \in Readings :
       /\ Len(r.values) = Len(r.timestamps)
       /\ \A j, k \in DOMAIN r.timestamps :
            r.timestamps[j] = r.timestamps[k] => j = k

VARIABLES
  cwagent_cache, volume_cache,    \* CWAGENT_DIMENSIONS_CACHE, VOLUME_IDS_CACHE
  last_refresh,                   \* CACHE_LAST_REFRESH
  call,                           \* where each thread is in a collection
  requests,                       \* requests so far (bounded by MaxRequests)
  \* history:
  overlapped,                     \* two collections were in progress at once
  raised,                         \* a collection ended in a KeyError
  faults                          \* when list_metrics failed last, if it did

caches == <<cwagent_cache, volume_cache, last_refresh>>
marks == <<overlapped, raised, faults>>
collection == <<caches, call, requests, marks>>

Stage == {"idle", "refresh", "clear_cwagent", "clear_volumes", "stamp",
          "volumes", "get_volumes", "describe", "store_volumes", "cwagent",
          "get_cwagent", "list_metrics", "store_cwagent", "query", "answered"}

Entry == [cached : BOOLEAN, ids : SUBSET Resources]
NoEntry == [cached |-> FALSE, ids |-> {}]
Cached(ids) == [cached |-> TRUE, ids |-> ids]

\* began is the time the call compares with the TTL.  The last three fields
\* are history: whether its own describe_instances failed, which features may
\* be over their threshold, and which are and cannot be overlooked.
Call == [stage : Stage, began : Nat, volumes : SUBSET Volumes,
         discovered : SUBSET AgentMetrics, next : Nat,
         triggered : SUBSET DOMAIN FEATURE_THRESHOLDS, unresolved : BOOLEAN,
         possible : SUBSET DOMAIN FEATURE_THRESHOLDS,
         certain : SUBSET DOMAIN FEATURE_THRESHOLDS]
NoCall == [stage |-> "idle", began |-> 0, volumes |-> {}, discovered |-> {},
           next |-> 1, triggered |-> {}, unresolved |-> FALSE, possible |-> {},
           certain |-> {}]

CacheInit ==
  /\ cwagent_cache = NoEntry /\ volume_cache = NoEntry /\ last_refresh = 0
  /\ call = [t \in Threads |-> NoCall] /\ requests = 0
  /\ overlapped = FALSE /\ raised = FALSE /\ faults = {}

-----------------------------------------------------------------------------
At(t, stage) == call[t].stage = stage
Collecting(t) == call[t].stage \notin {"idle", "answered"}
Goto(t, stage) == call' = [call EXCEPT ![t].stage = stage]
Proceed(t, stage) == Goto(t, stage) /\ UNCHANGED <<caches, requests, marks>>

Collect(t) ==
  /\ At(t, "idle") /\ requests < MaxRequests
  /\ requests' = requests + 1
  /\ call' = [call EXCEPT ![t] = [NoCall EXCEPT !.stage = "refresh",
                                                !.began = now]]
  /\ overlapped' = (overlapped \/ \E o \in Threads \ {t} : Collecting(o))
  /\ UNCHANGED <<caches, raised, faults>>

\* _refresh_caches_if_needed and clear_metric_caches.
\* Mutant: an entry is used for one tick more.
ExpiredLate(t) == call[t].began > last_refresh + CACHE_TTL

Expired(t) == call[t].began >= last_refresh + CACHE_TTL

RefreshCaches(t) ==
  /\ At(t, "refresh")
  /\ \/ Expired(t) /\ Proceed(t, "clear_cwagent")
     \/ ~Expired(t) /\ Proceed(t, "volumes")

ClearCwagent(t) ==
  /\ At(t, "clear_cwagent") /\ cwagent_cache' = NoEntry
  /\ Goto(t, "clear_volumes")
  /\ UNCHANGED <<volume_cache, last_refresh, requests, marks>>

\* Mutant: the clear forgets the volumes.
ClearNoVolumes(t) == At(t, "clear_volumes") /\ Proceed(t, "stamp")

ClearVolumes(t) ==
  /\ At(t, "clear_volumes") /\ volume_cache' = NoEntry
  /\ Goto(t, "stamp")
  /\ UNCHANGED <<cwagent_cache, last_refresh, requests, marks>>

StampRefresh(t) ==
  /\ At(t, "stamp") /\ last_refresh' = now
  /\ Goto(t, "volumes")
  /\ UNCHANGED <<cwagent_cache, volume_cache, requests, marks>>

\* The entry was there when it was looked for and is gone when it is read.
KeyError(t) ==
  /\ call' = [call EXCEPT ![t] = NoCall]
  /\ raised' = TRUE
  /\ UNCHANGED <<caches, requests, overlapped, faults>>

-----------------------------------------------------------------------------
(* _resolve_volume_ids                                                     *)

\* Mutant: the entry is read though it was not found.
FindVolumesUntested(t) == At(t, "volumes") /\ Proceed(t, "get_volumes")

FindVolumes(t) ==
  /\ At(t, "volumes")
  /\ \/ volume_cache.cached /\ Proceed(t, "get_volumes")
     \/ ~volume_cache.cached /\ Proceed(t, "describe")

GetVolumes(t) ==
  /\ At(t, "get_volumes")
  /\ \/ /\ volume_cache.cached
        /\ call' = [call EXCEPT ![t].stage = "cwagent",
                                ![t].volumes = volume_cache.ids]
        /\ UNCHANGED <<caches, requests, marks>>
     \/ ~volume_cache.cached /\ KeyError(t)

DescribeInstance(t) ==
  /\ At(t, "describe")
  /\ \/ call' = [call EXCEPT ![t].stage = "store_volumes",
                             ![t].volumes = there \cap Volumes]
     \/ call' = [call EXCEPT ![t].stage = "cwagent", ![t].unresolved = TRUE]
  /\ UNCHANGED <<caches, requests, marks>>

StoreVolumes(t) ==
  /\ At(t, "store_volumes") /\ volume_cache' = Cached(call[t].volumes)
  /\ Goto(t, "cwagent")
  /\ UNCHANGED <<cwagent_cache, last_refresh, requests, marks>>

-----------------------------------------------------------------------------
(* _discover_cwagent_metrics                                               *)

FindCwagent(t) ==
  /\ At(t, "cwagent")
  /\ \/ cwagent_cache.cached /\ Proceed(t, "get_cwagent")
     \/ ~cwagent_cache.cached /\ Proceed(t, "list_metrics")

GetCwagent(t) ==
  /\ At(t, "get_cwagent")
  /\ \/ /\ cwagent_cache.cached
        /\ call' = [call EXCEPT ![t].stage = "query",
                                ![t].discovered = cwagent_cache.ids]
        /\ UNCHANGED <<caches, requests, marks>>
     \/ ~cwagent_cache.cached /\ KeyError(t)

\* One list_metrics per metric; what a failed one would have found is missing
\* from the entry that is stored at the end.
ListMetrics(t) ==
  LET metric == CWAGENT[call[t].next]
      After(found) ==
        [call EXCEPT
          ![t].stage = IF call[t].next < Len(CWAGENT) THEN "list_metrics"
                       ELSE "store_cwagent",
          ![t].next = @ + 1, ![t].discovered = @ \cup found]
  IN
  /\ At(t, "list_metrics")
  /\ \/ call' = After({metric} \cap there) /\ UNCHANGED faults
     \/ call' = After({}) /\ faults' = {now}
  /\ UNCHANGED <<caches, requests, overlapped, raised>>

StoreCwagent(t) ==
  /\ At(t, "store_cwagent") /\ cwagent_cache' = Cached(call[t].discovered)
  /\ Goto(t, "query")
  /\ UNCHANGED <<volume_cache, last_refresh, requests, marks>>

-----------------------------------------------------------------------------
(* get_metric_data, collect_metrics and the judgement                      *)

NoData == [values |-> <<>>, timestamps |-> <<>>]

\* Everything CloudWatch could be asked about, and what it might answer.
Sources == Queries(Volumes, AgentMetrics)
Measurements == [Sources -> Readings \cup {NoData}]
Restricted(m, queries) == [q \in queries |-> m[q]]

\* How long a change of the instance may go unnoticed.  A discovery is used
\* until the first call that begins CACHE_TTL after the clear before it; where
\* collections overlap, one that began before a clear may be stored after it,
\* and the clear may be stamped later than it was made.
Horizon == IF overlapped THEN CACHE_TTL + 2 * LONGEST_CALL ELSE CACHE_TTL

Settled(t) == {r \in Resources : since[r] + Horizon <= call[t].began}
FaultsForgotten(t) == \A f \in faults : f + Horizon <= call[t].began

\* History: the features that are over their threshold, told from the
\* measurements alone, if only the given volumes and metrics count.
Freshest(m) ==
  {m.values[i] : i \in {j \in DOMAIN m.values :
                          \A k \in DOMAIN m.values :
                            m.timestamps[k] <= m.timestamps[j]}}

MetricOf ==
  [cpu |-> "cpuutilization", memory |-> "mem_used_percent",
   network_in |-> "networkin", network_out |-> "networkout",
   volume_write_bytes |-> "volumewritebytes"]

Over(m, volumes, metrics) ==
  LET latest == [q \in DOMAIN m |-> Max(Freshest(m[q]) \cup {0})] IN
  {f \in DOMAIN FEATURE_THRESHOLDS :
     SumFunctionOnSet(latest,
                      {q \in Queries(volumes, metrics) : q[1] = MetricOf[f]})
       > FEATURE_THRESHOLDS[f]}

\* What no cache may be late for: neither what has long been gone ...
Possible(t, m) ==
  LET gone == Settled(t) \ there IN Over(m, Volumes \ gone, AgentMetrics \ gone)

\* ... nor what has long been there, unless the call that asked for it failed.
Certain(t, m) ==
  LET found == Settled(t) \cap there IN
  Over(m, IF call[t].unresolved THEN {} ELSE found \cap Volumes,
       IF FaultsForgotten(t) THEN found \cap AgentMetrics ELSE {})

GetMetricData(t) ==
  LET queries == Queries(call[t].volumes, call[t].discovered)
      answer == [NoCall EXCEPT !.stage = "answered"]
  IN
  /\ At(t, "query")
  /\ \/ \E m \in Measurements :
          call' = [call EXCEPT ![t] =
                    [answer EXCEPT !.triggered = Judge(Restricted(m, queries)),
                                   !.possible = Possible(t, m),
                                   !.certain = Certain(t, m)]]
     \/ call' = [call EXCEPT ![t] = [answer EXCEPT !.triggered = Judge(<<>>)]]
  /\ UNCHANGED <<caches, requests, marks>>

Respond(t) ==
  /\ At(t, "answered")
  /\ call' = [call EXCEPT ![t] = NoCall]
  /\ UNCHANGED <<caches, requests, marks>>

CollectionStep(t) ==
  \/ RefreshCaches(t) \/ ClearCwagent(t) \/ ClearVolumes(t) \/ StampRefresh(t)
  \/ FindVolumes(t) \/ GetVolumes(t) \/ DescribeInstance(t) \/ StoreVolumes(t)
  \/ FindCwagent(t) \/ GetCwagent(t) \/ ListMetrics(t) \/ StoreCwagent(t)
  \/ GetMetricData(t) \/ Respond(t)
=============================================================================
