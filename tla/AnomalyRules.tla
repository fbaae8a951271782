---------------------------- MODULE AnomalyRules ----------------------------
(***************************************************************************)
(* From the answer of CloudWatch to the features that are over their       *)
(* threshold: _parse_results of backend/aws/cloudwatch_collector.py,       *)
(* collect_metrics of backend/aws/collector_service.py and                 *)
(* detect_anomaly_rule_based of backend/pipelines/inference_pipeline.py.   *)
(*                                                                         *)
(* A query is a pair <<metric, volume>>, where the metrics of an instance  *)
(* have NoVolume; its answer holds the values and the timestamps of the    *)
(* datapoints of the last minutes, in any order.  Metrics are measured in  *)
(* small integers; those no threshold is about are left out.               *)
(***************************************************************************)
EXTENDS Integers, Sequences, FiniteSets, FiniteSetsExt

CONSTANTS
  EC2_METRICS,              \* metrics of namespace AWS/EC2 that are queried
  FEATURE_THRESHOLDS,
  NoVolume, NoValue

EBS_METRICS == {"volumewritebytes"}

ASSUME RulesAssumption ==
  /\ DOMAIN FEATURE_THRESHOLDS \subseteq
       {"cpu", "memory", "network_in", "network_out", "volume_write_bytes"}
  /\ FEATURE_THRESHOLDS \in [DOMAIN FEATURE_THRESHOLDS -> Nat]
  /\ NoValue \notin Nat

\* The queries of fetch_all_metrics_batch: the discovered agent metrics and
\* the volumes it resolved decide what is asked for.
Queries(volumes, discovered) ==
  ((EC2_METRICS \cup discovered) \X {NoVolume}) \cup (EBS_METRICS \X volumes)

\* Mutant: the last datapoint of the list, whatever its time.
LastValue(result) ==
  LET n == Len(result.values) IN
  IF n = 0 THEN NoValue ELSE result.values[n]

\* The datapoint with the latest timestamp.
LatestValue(result) ==
  LET points == DOMAIN result.values IN
  IF points = {} THEN NoValue
  ELSE IF Len(result.values) = Len(result.timestamps)
       THEN result.values[CHOOSE i \in points : \A j \in points :
                            result.timestamps[j] <= result.timestamps[i]]
       ELSE result.values[Len(result.values)]

ParseResults(response) ==
  [q \in DOMAIN response |-> LatestValue(response[q])]

Value(raw, metric) ==
  LET q == <<metric, NoVolume>> IN
  IF q \in DOMAIN raw /\ raw[q] # NoValue THEN raw[q] ELSE 0

SumEbs(raw, metric) ==
  SumFunctionOnSet(raw, {q \in DOMAIN raw : q[1] = metric /\ raw[q] # NoValue})

CollectedMetrics(raw) ==
  [cpu |-> Value(raw, "cpuutilization"),
   memory |-> Value(raw, "mem_used_percent"),
   network_in |-> Value(raw, "networkin"),
   network_out |-> Value(raw, "networkout"),
   volume_write_bytes |-> SumEbs(raw, "volumewritebytes")]

\* The metrics part of detect_anomaly_rule_based.  Its log part finds nothing
\* to add: no observation with a log event is ever made (see Ingestion).
Triggered(metrics) ==
  {f \in DOMAIN FEATURE_THRESHOLDS : metrics[f] > FEATURE_THRESHOLDS[f]}

Judge(response) == Triggered(CollectedMetrics(ParseResults(response)))
=============================================================================
