----------------------------- MODULE Ingestion -----------------------------
(***************************************************************************)
(* The monitoring requests of backend/api/routes.py: an ingestion collects *)
(* metrics and logs of the one instance INSTANCE_ID, keeps them in local   *)
(* files and in S3 and combines them in an observation; an inference makes *)
(* an anomaly result of the latest observation; readers return the latest  *)
(* file of either kind.  Each request runs on a thread of its own.         *)
(*                                                                         *)
(* A file of a folder is named after a timestamp, and the latest file is   *)
(* the greatest name.  With one instance that is the order of the          *)
(* timestamps, which are ticks of one clock here, no two alike (the code's *)
(* have microseconds).  A file is "open" between its creation, which       *)
(* truncates it, and the write of its content; a crash leaves it so.       *)
(* What metrics and logs say is left out, but whether there are any logs.  *)
(***************************************************************************)
EXTENDS Naturals, FiniteSets, FiniteSetsExt

CONSTANTS
  Threads,
  Ops,                      \* the requests clients send
  FirstEvents, NoEvent,     \* the first event of a batch of logs; no logs
  MaxRequests, MaxCrashes   \* bounds of the model

IngestOps == {"run_ingestion", "run_full_cycle"}
ReadOps == {"run_inference", "latest_observation", "latest_anomaly"}
Stamps == 1 .. 2 * MaxRequests        \* a request takes two at most
Folders == {"metrics", "observations", "predictions"}

ASSUME IngestionAssumption ==
  /\ IsFiniteSet(Threads) /\ NoEvent \notin FirstEvents
  /\ Ops \subseteq IngestOps \cup ReadOps
  /\ MaxRequests \in Nat /\ MaxCrashes \in Nat

VARIABLES
  clock,        \* the last timestamp taken
  files,        \* ./data: the state of the file of each name
  log_files,    \* ./data/logs: whose batch the file of each name
                \* has; 0: none, or it is unfinished
  s3_metrics,   \* names of the metrics objects in S3
  s3_logs,      \* whose batch the log object of each name has
  run,          \* the request of each thread
  requests, crashes,
  \* history:
  subject,      \* the observation each prediction was made from
  begun         \* the time the request of each prediction began

disk == <<files, log_files>>
s3 == <<s3_metrics, s3_logs>>
counters == <<requests, crashes>>
history == <<subject, begun>>
vars == <<clock, disk, s3, run, counters, history>>

FileState == {"absent", "open", "whole"}
Stage == {"idle", "collect", "open_metrics", "write_metrics",
          "upload_metrics", "fetch_logs", "save_logs", "write_logs",
          "upload_logs", "summarize", "open_observation", "write_observation",
          "list", "read", "detect", "open_prediction", "write_prediction"}

Run ==
  [op : Ops \cup {"none"}, stage : Stage,
   stamp : Stamps \cup {0},             \* timestamp of the metrics or result
   logs : FirstEvents \cup {NoEvent},
   file : Stamps \cup {0},              \* the observation or result in hand
   began : Stamps \cup {0}, newest : Stamps \cup {0}]         \* history

Idle == [op |-> "none", stage |-> "idle", stamp |-> 0, logs |-> NoEvent,
         file |-> 0, began |-> 0, newest |-> 0]

Init ==
  /\ clock = 0 /\ requests = 0 /\ crashes = 0
  /\ files = [d \in Folders |-> [s \in Stamps |-> "absent"]]
  /\ log_files = [e \in FirstEvents |-> 0]
  /\ s3_metrics = {} /\ s3_logs = [e \in FirstEvents |-> 0]
  /\ run = [t \in Threads |-> Idle]
  /\ subject = [s \in Stamps |-> 0] /\ begun = [s \in Stamps |-> 0]

-----------------------------------------------------------------------------
At(t, stage) == run[t].stage = stage
Goto(t, stage) == run' = [run EXCEPT ![t].stage = stage]
End(t) == run' = [run EXCEPT ![t] = Idle]

\* The request ends, with its answer or an exception: nothing is undone.
Leave(t) == End(t) /\ UNCHANGED <<clock, disk, s3, counters, history>>

Set(d, s, state) == files' = [files EXCEPT ![d][s] = state]

Folder(op) == IF op = "latest_anomaly" THEN "predictions" ELSE "observations"

Whole(d) == {s \in Stamps : files[d][s] = "whole"}
Listed(d) == {s \in Stamps : files[d][s] # "absent"}

Receive(t, op) ==
  /\ At(t, "idle") /\ requests < MaxRequests /\ op \in Ops
  /\ requests' = requests + 1
  /\ run' = [run EXCEPT ![t] =
       [Idle EXCEPT !.op = op, !.began = clock,
                    !.stage = IF op \in IngestOps THEN "collect" ELSE "list",
                    !.newest = Max(Whole(Folder(op)) \cup {0})]]
  /\ UNCHANGED <<clock, disk, s3, crashes, history>>

-----------------------------------------------------------------------------
(* run_ingestion_pipeline                                                  *)

\* Mutant: the clock is read twice, and a request takes more timestamps than
\* the two that name its files.
CollectTwice(t) ==
  /\ At(t, "collect")
  /\ clock' = clock + 2
  /\ run' = [run EXCEPT ![t].stage = "open_metrics", ![t].stamp = clock']
  /\ UNCHANGED <<disk, s3, counters, history>>

\* collect_metrics answers with what CloudWatch gave, zeros for the rest; it
\* raises only if another thread clears the discovery caches under it.
Collect(t) ==
  /\ At(t, "collect")
  /\ \/ /\ clock' = clock + 1
        /\ run' = [run EXCEPT ![t].stage = "open_metrics", ![t].stamp = clock']
        /\ UNCHANGED <<disk, s3, counters, history>>
     \/ Leave(t)

\* mkdir and open(file, "w"), which may raise before there is a file, and the
\* write of the content, which may raise and leave it unfinished.
Open(t, from, d, to) ==
  /\ At(t, from)
  /\ \/ /\ Set(d, run[t].stamp, "open")
        /\ Goto(t, to)
        /\ UNCHANGED <<clock, log_files, s3, counters, history>>
     \/ Leave(t)

Finish(t, from, d, next) ==
  /\ At(t, from)
  /\ \/ /\ Set(d, run[t].stamp, "whole")
        /\ run' = [run EXCEPT ![t] = next]
        /\ UNCHANGED <<clock, log_files, s3, counters, history>>
     \/ Leave(t)

SaveMetrics(t) ==
  \/ Open(t, "open_metrics", "metrics", "write_metrics")
  \/ Finish(t, "write_metrics", "metrics",
            [run[t] EXCEPT !.stage = "upload_metrics"])

\* Mutant: a failed upload is logged and forgotten.
UploadMetricsQuietly(t) ==
  /\ At(t, "upload_metrics")
  /\ s3_metrics' \in {s3_metrics, s3_metrics \cup {run[t].stamp}}
  /\ Goto(t, "fetch_logs")
  /\ UNCHANGED <<clock, disk, s3_logs, counters, history>>

\* put_object may store the object and still raise, its answer lost.
UploadMetrics(t) ==
  /\ At(t, "upload_metrics")
  /\ \/ s3_metrics' = s3_metrics \cup {run[t].stamp} /\ Goto(t, "fetch_logs")
     \/ s3_metrics' = s3_metrics \cup {run[t].stamp} /\ End(t)
     \/ UNCHANGED s3_metrics /\ End(t)
  /\ UNCHANGED <<clock, disk, s3_logs, counters, history>>

\* fetch_logs answers with an empty list when the call fails.  Without logs
\* save_logs and upload_logs_to_s3 return at once.
FetchLogs(t) ==
  /\ At(t, "fetch_logs")
  /\ \E e \in FirstEvents \cup {NoEvent} :
       run' = [run EXCEPT ![t].logs = e,
                 ![t].stage = IF e = NoEvent THEN "summarize" ELSE "save_logs"]
  /\ UNCHANGED <<clock, disk, s3, counters, history>>

\* Whoever opens the file truncates it, another run's batch included.
SaveLogs(t) ==
  \/ /\ At(t, "save_logs")
     /\ \/ /\ log_files' = [log_files EXCEPT ![run[t].logs] = 0]
           /\ Goto(t, "write_logs")
           /\ UNCHANGED <<clock, files, s3, counters, history>>
        \/ Leave(t)
  \/ /\ At(t, "write_logs")
     /\ \/ /\ log_files' = [log_files EXCEPT ![run[t].logs] = run[t].stamp]
           /\ Goto(t, "upload_logs")
           /\ UNCHANGED <<clock, files, s3, counters, history>>
        \/ Leave(t)

UploadLogs(t) ==
  /\ At(t, "upload_logs")
  /\ \/ /\ s3_logs' = [s3_logs EXCEPT ![run[t].logs] = run[t].stamp]
        /\ Goto(t, "summarize") \/ End(t)
        /\ UNCHANGED <<clock, disk, s3_metrics, counters, history>>
     \/ Leave(t)

\* summarize_logs reads log.get("message"), and a LogEvent has no get.
SummarizeLogs(t) ==
  /\ At(t, "summarize")
  /\ \/ /\ run[t].logs = NoEvent
        /\ Goto(t, "open_observation")
        /\ UNCHANGED <<clock, disk, s3, counters, history>>
     \/ run[t].logs # NoEvent /\ Leave(t)

\* run_full_cycle hands its own observation to the inference.
SaveObservation(t) ==
  \/ Open(t, "open_observation", "observations", "write_observation")
  \/ Finish(t, "write_observation", "observations",
            IF run[t].op = "run_ingestion" THEN Idle
            ELSE [run[t] EXCEPT !.stage = "detect", !.file = run[t].stamp])

-----------------------------------------------------------------------------
(* load_latest_observation, _read_latest_json, run_inference_pipeline      *)

\* Mutant: files[0].
LatestFirst(d) == Min(Listed(d))

Latest(d) == Max(Listed(d))

List(t) ==
  LET d == Folder(run[t].op) IN
  /\ At(t, "list")
  /\ \/ Listed(d) = {} /\ Leave(t)
     \/ /\ Listed(d) # {}
        /\ run' = [run EXCEPT ![t].stage = "read", ![t].file = Latest(d)]
        /\ UNCHANGED <<clock, disk, s3, counters, history>>

\* A file that is not whole is no JSON: the request raises.
Read(t) ==
  LET whole == files[Folder(run[t].op)][run[t].file] = "whole" IN
  /\ At(t, "read")
  /\ \/ /\ whole /\ run[t].op = "run_inference"
        /\ Goto(t, "detect")
        /\ UNCHANGED <<clock, disk, s3, counters, history>>
     \/ (~whole \/ run[t].op # "run_inference") /\ Leave(t)

DetectAnomaly(t) ==
  /\ At(t, "detect")
  /\ clock' = clock + 1
  /\ run' = [run EXCEPT ![t].stage = "open_prediction", ![t].stamp = clock']
  /\ subject' = [subject EXCEPT ![clock'] = run[t].file]
  /\ begun' = [begun EXCEPT ![clock'] = run[t].began]
  /\ UNCHANGED <<disk, s3, counters>>

SaveAnomalyResult(t) ==
  \/ Open(t, "open_prediction", "predictions", "write_prediction")
  \/ Finish(t, "write_prediction", "predictions", Idle)

-----------------------------------------------------------------------------
\* The process ends and is started again: files and objects stay.
Crash ==
  /\ crashes < MaxCrashes
  /\ crashes' = crashes + 1
  /\ run' = [t \in Threads |-> Idle]
  /\ UNCHANGED <<clock, disk, s3, requests, history>>

Step(t) ==
  \/ Collect(t) \/ SaveMetrics(t) \/ UploadMetrics(t) \/ FetchLogs(t)
  \/ SaveLogs(t) \/ UploadLogs(t) \/ SummarizeLogs(t) \/ SaveObservation(t)
  \/ List(t) \/ Read(t) \/ DetectAnomaly(t) \/ SaveAnomalyResult(t)

\* Nothing is asked of the service any more.
Quiet == (\A t \in Threads : At(t, "idle")) /\ UNCHANGED vars

Next ==
  \/ \E t \in Threads : Step(t) \/ \E op \in Ops : Receive(t, op)
  \/ Crash \/ Quiet

Spec == Init /\ [][Next]_vars

-----------------------------------------------------------------------------
TypeOK ==
  /\ clock \in Stamps \cup {0}
  /\ requests \in 0 .. MaxRequests /\ crashes \in 0 .. MaxCrashes
  /\ files \in [Folders -> [Stamps -> FileState]]
  /\ log_files \in [FirstEvents -> Stamps \cup {0}]
  /\ s3_metrics \subseteq Stamps
  /\ s3_logs \in [FirstEvents -> Stamps \cup {0}]
  /\ run \in [Threads -> Run]
  /\ subject \in [Stamps -> Stamps \cup {0}]
  /\ begun \in [Stamps -> Stamps \cup {0}]

\* An observation stands for a run that kept everything it is made of: from
\* the moment its file exists the metrics are whole on disk and in S3, and a
\* result exists only for an observation that is whole.  Failed uploads,
\* failed writes and crashes at any step leave less, never something else
\* (run_ingestion_pipeline, run_full_cycle).
ObservationIsBacked ==
  /\ \A s \in Listed("observations") :
       s \in Whole("metrics") /\ s \in s3_metrics
  /\ \A s \in Listed("predictions") : subject[s] \in Whole("observations")

\* A reader is never handed a file older than one that was whole before its
\* request began, while other requests create files
\* (load_latest_observation, _read_latest_json).
LatestIsFresh ==
  \A t \in Threads : At(t, "read") => run[t].file >= run[t].newest

\* Results follow the observations: a request that began after a result was
\* stamped makes its own result from an observation as recent or more.
\* (Two that overlap may leave the older observation's result the latest.)
ResultsFollowObservations ==
  \A p, q \in Listed("predictions") :
    begun[q] >= p => subject[q] >= subject[p]

\* /api/run-inference answers "Run /api/run-ingestion first": a run whose
\* metrics and logs were fetched, saved and uploaded has its observation
\* saved next (run_ingestion_pipeline).
IngestionYieldsObservation ==
  [][\A t \in Threads : At(t, "summarize") /\ run'[t] # run[t]
       => run'[t].stage = "open_observation"]_vars
=============================================================================
