-------------------------- MODULE IngestionProofs --------------------------
(***************************************************************************)
(* What local files and S3 hold after any number of requests and crashes:  *)
(* an observation is backed by its metrics, a reader is handed the latest  *)
(* file, and results follow the observations.                              *)
(*                                                                         *)
(* Promised(r) relates a request to what exists by the time it reaches a   *)
(* stage; it survives the steps of other requests because stamps are their *)
(* own (OwnStamps) and files never disappear.  Left says the same of what  *)
(* ended requests have left behind.                                        *)
(***************************************************************************)
EXTENDS Ingestion, SetLemmas

\* The requests that have yet to take a timestamp for metrics, for a result.
ToStamp == {t \in Threads : At(t, "collect")}
ToJudge == {t \in Threads :
              run[t].stage \notin {"idle", "open_prediction", "write_prediction"}}

StampsSuffice == clock + Cardinality(ToStamp) + Cardinality(ToJudge)
                   <= 2 * requests

TypeInv == TypeOK /\ StampsSuffice

AfterMetrics == {"upload_metrics", "fetch_logs", "save_logs", "write_logs",
                 "upload_logs", "summarize", "open_observation",
                 "write_observation"}
AfterCollect == {"open_metrics", "write_metrics"} \cup AfterMetrics

Promised(r) ==
  /\ r.stamp <= clock /\ r.began <= clock
  /\ r.stage \in AfterCollect => r.began < r.stamp
  /\ r.stage \in AfterCollect \ {"write_observation"} =>
       r.stamp \notin Listed("observations")
  /\ r.stage \in AfterMetrics => r.stamp \in Whole("metrics")
  /\ r.stage \in AfterMetrics \ {"upload_metrics"} => r.stamp \in s3_metrics
  /\ r.newest = 0 \/ r.newest \in Listed(Folder(r.op))
  /\ r.stage = "read" =>
       r.file \in Listed(Folder(r.op)) /\ r.file >= r.newest
  /\ r.op = "run_inference" =>
       \A p \in Stamps : p <= r.began => subject[p] <= r.newest
  /\ r.stage = "detect" =>
       /\ r.file \in Whole("observations")
       /\ \A p \in Stamps : p <= r.began => subject[p] <= r.file
  /\ r.stage \in {"open_prediction", "write_prediction"} =>
       r.stamp # 0 /\ subject[r.stamp] # 0

OwnStamps ==
  \A t, o \in Threads : run[t].stamp = run[o].stamp /\ run[t].stamp # 0
                          => t = o

Left ==
  /\ \A d \in Folders : \A s \in Listed(d) : s <= clock
  /\ \A s \in Listed("observations") : s \in Whole("metrics") /\ s \in s3_metrics
  /\ \A s \in Listed("predictions") : subject[s] # 0
  /\ \A p \in Stamps :
       /\ subject[p] # 0 =>
            p <= clock /\ subject[p] < p /\ subject[p] \in Whole("observations")
       /\ begun[p] <= clock
  /\ \A p, q \in Stamps :
       subject[q] # 0 /\ p <= begun[q] => subject[p] <= subject[q]

Inv ==
  /\ TypeInv /\ OwnStamps /\ Left
  /\ \A t \in Threads : Promised(run[t])

-----------------------------------------------------------------------------
(* Names of files, and the greatest of them                                *)

LEMMA StampsType ==
  /\ 2 * MaxRequests \in Nat /\ Stamps \subseteq 1 .. 2 * MaxRequests
  /\ \A n \in Nat : n <= 2 * MaxRequests => n \in Stamps \cup {0}
  /\ IsFiniteSet(Threads)
  BY IngestionAssumption DEF IngestionAssumption, Stamps

LEMMA StampsNat == \A s \in Stamps \cup {0} : s \in Nat
  BY StampsType

LEMMA LatestType ==
  ASSUME NEW d, Listed(d) # {}
  PROVE  /\ Latest(d) \in Listed(d) /\ Latest(d) \in Stamps
         /\ \A s \in Listed(d) : s <= Latest(d)
  <1> PICK n \in Nat : Stamps \subseteq 0 .. n
    BY StampsType
  <1>1. Listed(d) \subseteq Stamps /\ Listed(d) \subseteq 0 .. n
    BY DEF Listed
  <1>2. Max(Listed(d)) \in Listed(d) /\ \A s \in Listed(d) : s <= Max(Listed(d))
    BY <1>1, MaxIsGreatest
  <1> QED BY <1>1, <1>2 DEF Latest

LEMMA NewestType ==
  ASSUME NEW d
  PROVE  LET m == Max(Whole(d) \cup {0}) IN
         /\ m = 0 \/ m \in Listed(d)
         /\ m \in Stamps \cup {0}
         /\ \A s \in Whole(d) : s <= m
  <1> PICK n \in Nat : Stamps \subseteq 0 .. n
    BY StampsType
  <1> DEFINE S == Whole(d) \cup {0}
  <1>0. \A s \in Whole(d) : s \in Listed(d) /\ s \in Stamps
    BY DEF Listed, Whole
  <1>1. S \subseteq 0 .. n /\ S # {}
    <2>1. \A s \in S : s \in 0 .. n
      <3>1. 0 \in 0 .. n
        OBVIOUS
      <3>2. \A s \in Whole(d) : s \in 0 .. n
        BY <1>0
      <3> QED BY <3>1, <3>2
    <2>2. 0 \in S
      OBVIOUS
    <2> HIDE DEF S
    <2> QED BY <2>1, <2>2
  <1>2. Max(S) \in S /\ \A s \in S : s <= Max(S)
    <2> HIDE DEF S
    <2> QED BY <1>1, MaxIsGreatest
  <1> PICK m : m = Max(S)
    OBVIOUS
  <1>3. m \in S /\ \A s \in S : s <= m
    BY <1>2
  <1>4. /\ m = 0 \/ m \in Listed(d)
        /\ m \in Stamps \cup {0}
        /\ \A s \in Whole(d) : s <= m
    BY <1>0, <1>3
  <1> QED BY <1>4

-----------------------------------------------------------------------------
(* One request moves on                                                    *)

LEMMA RunType ==
  ASSUME TypeOK, NEW t \in Threads
  PROVE  /\ run[t] \in Run /\ Idle \in Run
         /\ \A s \in Stage : [run[t] EXCEPT !.stage = s] \in Run
         /\ \A r : run' = [run EXCEPT ![t] = r] =>
              run'[t] = r /\ \A o \in Threads \ {t} : run'[o] = run[o]
         /\ \A s \in Stage : Goto(t, s) =>
              run' = [run EXCEPT ![t] = [run[t] EXCEPT !.stage = s]]
  <1>1. run \in [Threads -> Run] /\ run[t] \in Run
    BY DEF TypeOK
  <1>2. Idle \in Run
    BY DEF Run, Idle, Stage
  <1>3. \A s \in Stage : [run[t] EXCEPT !.stage = s] \in Run
    BY <1>1 DEF Run
  <1>4. \A r : run' = [run EXCEPT ![t] = r] =>
          run'[t] = r /\ \A o \in Threads \ {t} : run'[o] = run[o]
    BY <1>1
  <1>5. \A s \in Stage : Goto(t, s) =>
          run' = [run EXCEPT ![t] = [run[t] EXCEPT !.stage = s]]
    BY DEF Goto
  <1> QED BY <1>1, <1>2, <1>3, <1>4, <1>5, Zenon

LEMMA StampsLeft ==
  ASSUME TypeInv, UNCHANGED <<clock, requests>>,
         ToStamp' \subseteq ToStamp, ToJudge' \subseteq ToJudge
  PROVE  StampsSuffice'
  <1>1. IsFiniteSet(ToStamp) /\ IsFiniteSet(ToJudge)
    BY StampsType, FS_Subset DEF ToStamp, ToJudge
  <1>2. /\ Cardinality(ToStamp') <= Cardinality(ToStamp)
        /\ Cardinality(ToJudge') <= Cardinality(ToJudge)
        /\ Cardinality(ToStamp') \in Nat /\ Cardinality(ToJudge') \in Nat
        /\ Cardinality(ToStamp) \in Nat /\ Cardinality(ToJudge) \in Nat
    BY <1>1, FS_Subset, FS_CardinalityType
  <1>3. clock \in Nat /\ requests \in Nat
    BY StampsType, IngestionAssumption DEF TypeInv, TypeOK, IngestionAssumption
  <1>4. clock' = clock /\ requests' = requests
    OBVIOUS
  <1>5. clock + Cardinality(ToStamp') + Cardinality(ToJudge') <= 2 * requests
    BY <1>2, <1>3 DEF TypeInv, StampsSuffice
  <1> QED BY <1>4, <1>5 DEF StampsSuffice

LEMMA FolderType == \A op : Folder(op) \in Folders
  BY DEF Folder, Folders

\* A step of thread t that touches no file but those of its own stamp, takes
\* none away, and leaves a file of an observation or result only if what it is
\* made of is there.
LEMMA RequestStep ==
  ASSUME Inv, TypeOK', NEW t \in Threads, NEW r \in Run,
         run' = [run EXCEPT ![t] = r], UNCHANGED <<clock, requests, history>>,
         r.stamp \in {0, run[t].stamp}, r.stage # "collect",
         run[t].stage \notin {"idle", "open_prediction", "write_prediction"}
           \/ r.stage \in {"idle", "open_prediction", "write_prediction"},
         s3_metrics \subseteq s3_metrics',
         \A d \in Folders : \A s \in Stamps :
           s # run[t].stamp => files'[d][s] = files[d][s],
         \A d \in Folders : Listed(d) \subseteq Listed(d)',
         Whole("observations") \subseteq Whole("observations")',
         run[t].stamp \in Listed("observations")' =>
           run[t].stamp \in Whole("metrics")' /\ run[t].stamp \in s3_metrics',
         run[t].stamp \in Listed("predictions")' => subject[run[t].stamp] # 0,
         Promised(r)'
  PROVE  Inv'
  <1>0. TypeOK /\ OwnStamps /\ Left /\ \A o \in Threads : Promised(run[o])
    BY DEF Inv, TypeInv
  <1>1. run'[t] = r /\ \A o \in Threads \ {t} : run'[o] = run[o]
    BY <1>0, RunType
  <1>2. StampsSuffice'
    <2>1. ToStamp' \subseteq ToStamp /\ ToJudge' \subseteq ToJudge
      BY <1>1 DEF ToStamp, ToJudge, At
    <2> QED BY <2>1, StampsLeft DEF Inv
  <1>3. OwnStamps'
    BY <1>0, <1>1 DEF OwnStamps
  <1>4. /\ "observations" \in Folders /\ "predictions" \in Folders
        /\ "metrics" \in Folders
    BY DEF Folders
  <1>5. \A d \in Folders : \A s \in Stamps : s # run[t].stamp =>
          /\ s \in Listed(d)' <=> s \in Listed(d)
          /\ s \in Whole(d)' <=> s \in Whole(d)
    BY DEF Listed, Whole
  <1>6. \A d \in Folders : /\ Listed(d)' \subseteq Stamps
                           /\ Listed(d) \subseteq Stamps
                           /\ Whole(d)' \subseteq Stamps
                           /\ Whole(d) \subseteq Stamps
    BY DEF Listed, Whole
  <1>7. Left'
    <2>1. \A d \in Folders : \A s \in Listed(d)' : s <= clock
      BY <1>0, <1>5, <1>6 DEF Left, Promised
    <2>2. \A s \in Listed("observations")' :
            s \in Whole("metrics")' /\ s \in s3_metrics'
      BY <1>0, <1>4, <1>5, <1>6 DEF Left
    <2>3. \A s \in Listed("predictions")' : subject[s] # 0
      BY <1>0, <1>4, <1>5, <1>6 DEF Left
    <2> QED BY <1>0, <2>1, <2>2, <2>3 DEF Left, history
  <1>8. ASSUME NEW o \in Threads PROVE Promised(run[o])'
    <2>1. CASE o = t
      BY <1>1, <2>1
    <2>2. CASE o # t
      <3> PICK x : x = run[o]
        OBVIOUS
      <3>1. x \in Run /\ Promised(x) /\ run'[o] = x
        BY <1>0, <1>1, <2>2, RunType
      <3>2. x.stamp # 0 => x.stamp # run[t].stamp
        BY <1>0, <2>2 DEF OwnStamps
      <3>3. /\ x.stamp \in Whole("metrics") => x.stamp \in Whole("metrics")'
            /\ x.stamp \notin Listed("observations") =>
                 x.stamp \notin Listed("observations")'
        <4>1. 0 \notin Stamps
          BY StampsType
        <4> QED BY <1>4, <1>5, <1>6, <3>2, <4>1
      <3>4. Promised(x)'
        BY <3>1, <3>3, FolderType DEF Promised, history
      <3> QED BY <3>1, <3>4
    <2> QED BY <2>1, <2>2
  <1> QED BY <1>2, <1>3, <1>7, <1>8 DEF Inv, TypeInv

LEMMA TypeKept ==
  ASSUME TypeOK, NEW t \in Threads, NEW r \in Run, run' = [run EXCEPT ![t] = r],
         UNCHANGED <<clock, counters, history>>,
         files' \in [Folders -> [Stamps -> FileState]],
         log_files' \in [FirstEvents -> Stamps \cup {0}],
         s3_metrics' \subseteq Stamps,
         s3_logs' \in [FirstEvents -> Stamps \cup {0}]
  PROVE  TypeOK'
  BY DEF TypeOK, counters, history

\* A step that writes no metrics, observation or result.
LEMMA OtherStep ==
  ASSUME Inv, TypeOK', NEW t \in Threads, NEW r \in Run,
         run' = [run EXCEPT ![t] = r],
         UNCHANGED <<clock, requests, history, files>>,
         r.stamp \in {0, run[t].stamp}, r.stage # "collect",
         run[t].stage \notin {"idle", "open_prediction", "write_prediction"}
           \/ r.stage \in {"idle", "open_prediction", "write_prediction"},
         s3_metrics \subseteq s3_metrics',
         Promised(r)'
  PROVE  Inv'
  <1>1. \A d : Listed(d)' = Listed(d) /\ Whole(d)' = Whole(d)
    BY DEF Listed, Whole
  <1>2. /\ run[t].stamp \in Listed("observations") =>
             run[t].stamp \in Whole("metrics") /\ run[t].stamp \in s3_metrics'
        /\ run[t].stamp \in Listed("predictions") => subject[run[t].stamp] # 0
    BY DEF Inv, Left
  <1> QED BY <1>1, <1>2, RequestStep

LEMMA IdlePromised == TypeOK => Promised(Idle)
  BY StampsType DEF TypeOK, Promised, Idle, AfterCollect, AfterMetrics

LEMMA LeaveStep ==
  ASSUME Inv, NEW t \in Threads, Leave(t)
  PROVE  Inv'
  <1>1. TypeOK /\ Idle \in Run /\ run' = [run EXCEPT ![t] = Idle]
    BY RunType DEF Inv, TypeInv, Leave, End
  <1>2. UNCHANGED <<clock, files, log_files, s3_metrics, s3_logs, counters,
                    requests, history>>
    BY DEF Leave, disk, s3, counters
  <1>3. TypeOK'
    BY <1>1, <1>2, TypeKept DEF TypeOK
  <1>4. Promised(Idle)'
    BY <1>3, IdlePromised, PTL
  <1>5. Idle.stamp = 0 /\ Idle.stage = "idle"
    BY DEF Idle
  <1> QED BY <1>1, <1>2, <1>3, <1>4, <1>5, OtherStep

LEMMA SetType ==
  ASSUME TypeOK, NEW d \in Folders, NEW s \in Stamps,
         NEW state \in {"open", "whole"}, Set(d, s, state)
  PROVE  /\ files' \in [Folders -> [Stamps -> FileState]]
         /\ \A x \in Folders : \A y \in Stamps :
              y # s => files'[x][y] = files[x][y]
         /\ \A x \in Folders \ {d} :
              Listed(x)' = Listed(x) /\ Whole(x)' = Whole(x)
         /\ Listed(d)' = Listed(d) \cup {s}
         /\ Whole(d)' = IF state = "whole" THEN Whole(d) \cup {s}
                        ELSE Whole(d) \ {s}
  BY DEF TypeOK, Set, FileState, Listed, Whole

LEMMA StageOnly ==
  ASSUME NEW r \in Run, NEW s \in Stage
  PROVE  LET n == [r EXCEPT !.stage = s] IN
         /\ n \in Run /\ n.stage = s /\ n.op = r.op /\ n.stamp = r.stamp
         /\ n.file = r.file /\ n.began = r.began /\ n.newest = r.newest
  BY DEF Run

\* What a request goes on with that writes no metrics, observation or result.
LEMMA GotoStep ==
  ASSUME Inv, NEW t \in Threads, NEW s \in Stage, Goto(t, s),
         NEW r, r = [run[t] EXCEPT !.stage = s],
         UNCHANGED <<clock, files, counters, history>>,
         log_files' \in [FirstEvents -> Stamps \cup {0}],
         s3_metrics \subseteq s3_metrics', s3_metrics' \subseteq Stamps,
         s3_logs' \in [FirstEvents -> Stamps \cup {0}],
         s # "collect",
         run[t].stage \notin {"idle", "open_prediction", "write_prediction"},
         Promised(r)'
  PROVE  Inv'
  <1>1. TypeOK /\ r \in Run /\ run' = [run EXCEPT ![t] = r]
    BY RunType DEF Inv, TypeInv
  <1>2. TypeOK'
    BY <1>1, TypeKept DEF TypeOK
  <1>3. r.stage = s /\ r.stamp = run[t].stamp
    BY <1>1, RunType, StageOnly
  <1> QED BY <1>1, <1>2, <1>3, OtherStep DEF counters

LEMMA UploadMetricsStep ==
  ASSUME Inv, NEW t \in Threads, UploadMetrics(t)
  PROVE  Inv'
  <1> PICK o \in Run : o = run[t]
    BY RunType DEF Inv, TypeInv
  <1>0. /\ TypeOK /\ Promised(o) /\ o.stage = "upload_metrics"
        /\ o.stamp \in Stamps /\ o.stamp \in Whole("metrics")
        /\ s3_metrics' \in {s3_metrics, s3_metrics \cup {o.stamp}}
        /\ UNCHANGED <<clock, files, log_files, s3_logs, counters, history>>
    BY DEF Inv, TypeInv, UploadMetrics, At, disk, Promised, AfterMetrics, Whole
  <1>1. s3_metrics \subseteq s3_metrics' /\ s3_metrics' \subseteq Stamps
    BY <1>0 DEF TypeOK
  <1>2. CASE Goto(t, "fetch_logs") /\ s3_metrics' = s3_metrics \cup {o.stamp}
    <2> PICK r : r = [o EXCEPT !.stage = "fetch_logs"]
      OBVIOUS
    <2>1. /\ r.stage = "fetch_logs" /\ r.op = o.op /\ r.stamp = o.stamp
          /\ r.file = o.file /\ r.began = o.began /\ r.newest = o.newest
      BY StageOnly DEF Stage
    <2>2. Promised(r)'
      BY <1>0, <1>2, <2>1
      DEF Promised, AfterCollect, AfterMetrics, Listed, Whole, history
    <2>3. "fetch_logs" \in Stage
      BY DEF Stage
    <2> QED BY <1>0, <1>1, <1>2, <2>2, <2>3, GotoStep DEF TypeOK
  <1>3. CASE End(t)
    <2>1. Idle \in Run /\ run' = [run EXCEPT ![t] = Idle]
      BY <1>0, <1>3, RunType DEF End
    <2>2. TypeOK'
      BY <1>0, <1>1, <2>1, TypeKept DEF TypeOK
    <2>3. Promised(Idle)'
      BY <2>2, IdlePromised, PTL
    <2>4. Idle.stamp = 0 /\ Idle.stage = "idle"
      BY DEF Idle
    <2> QED BY <1>0, <1>1, <2>1, <2>2, <2>3, <2>4, OtherStep DEF counters
  <1> QED BY <1>2, <1>3 DEF UploadMetrics

\* The stages between the upload of the metrics and the observation.
LogStages == AfterMetrics \ {"upload_metrics", "write_observation"}

LEMMA LogsPromised ==
  ASSUME NEW o, NEW r, Promised(o), o.stage \in LogStages,
         r.stage \in LogStages, r.op = o.op, r.stamp = o.stamp,
         r.file = o.file, r.began = o.began, r.newest = o.newest,
         UNCHANGED <<clock, files, history>>,
         s3_metrics' = s3_metrics
  PROVE  Promised(r)'
  BY DEF Promised, LogStages, AfterCollect, AfterMetrics, Listed, Whole, history

LEMMA LogsGoto ==
  ASSUME Inv, NEW t \in Threads, NEW s \in LogStages, Goto(t, s),
         run[t].stage \in LogStages,
         UNCHANGED <<clock, files, s3_metrics, counters, history>>,
         log_files' \in [FirstEvents -> Stamps \cup {0}],
         s3_logs' \in [FirstEvents -> Stamps \cup {0}]
  PROVE  Inv'
  <1> PICK o \in Run : o = run[t]
    BY RunType DEF Inv, TypeInv
  <1> PICK r : r = [o EXCEPT !.stage = s]
    OBVIOUS
  <1>1. s \in Stage /\ s # "collect"
        /\ o.stage \notin {"idle", "open_prediction", "write_prediction"}
    BY DEF LogStages, AfterMetrics, Stage
  <1>2. /\ r.stage = s /\ r.op = o.op /\ r.stamp = o.stamp
        /\ r.file = o.file /\ r.began = o.began /\ r.newest = o.newest
    BY <1>1, StageOnly
  <1>3. Promised(r)'
    BY <1>2, LogsPromised DEF Inv
  <1>4. s3_metrics' \subseteq Stamps
    BY DEF Inv, TypeInv, TypeOK
  <1> QED BY <1>1, <1>3, <1>4, GotoStep

LEMMA LogsStep ==
  ASSUME Inv, NEW t \in Threads,
         FetchLogs(t) \/ SaveLogs(t) \/ UploadLogs(t) \/ SummarizeLogs(t)
  PROVE  Inv'
  <1> PICK o \in Run : o = run[t]
    BY RunType DEF Inv, TypeInv
  <1>0. /\ TypeOK /\ Promised(o) /\ o.stamp \in Stamps \cup {0}
        /\ \A s \in {"summarize", "save_logs", "write_logs", "upload_logs",
                     "open_observation", "fetch_logs"} : s \in LogStages
    BY DEF Inv, TypeInv, Run, LogStages, AfterMetrics
  <1>1. CASE FetchLogs(t)
    <2> PICK e \in FirstEvents \cup {NoEvent}, s \in {"summarize", "save_logs"} :
          run' = [run EXCEPT ![t].logs = e, ![t].stage = s]
      BY <1>1 DEF FetchLogs
    <2> PICK r : r = [o EXCEPT !.logs = e, !.stage = s]
      OBVIOUS
    <2>1. /\ r \in Run /\ r.stage = s
          /\ r.op = o.op /\ r.stamp = o.stamp
          /\ r.file = o.file /\ r.began = o.began /\ r.newest = o.newest
      BY DEF Run, Stage
    <2>2. run' = [run EXCEPT ![t] = r]
      BY <1>0 DEF TypeOK
    <2>5. /\ o.stage = "fetch_logs"
          /\ UNCHANGED <<clock, files, log_files, s3_metrics, s3_logs, counters,
                         requests, history>>
      BY <1>1 DEF FetchLogs, At, disk, s3, counters
    <2>3. TypeOK'
      BY <1>0, <2>1, <2>2, <2>5, TypeKept DEF TypeOK
    <2>4. Promised(r)'
      BY <1>0, <2>1, <2>5, LogsPromised
    <2> QED BY <1>0, <2>1, <2>2, <2>3, <2>4, <2>5, OtherStep
  <1>2. CASE SaveLogs(t)
    <2>1. CASE Leave(t)
      BY <2>1, LeaveStep
    <2>2. CASE /\ At(t, "save_logs") /\ Goto(t, "write_logs")
               /\ log_files' = [log_files EXCEPT ![run[t].logs] = 0]
               /\ UNCHANGED <<clock, files, s3, counters, history>>
      <3>1. log_files' \in [FirstEvents -> Stamps \cup {0}]
        BY <1>0, <2>2 DEF TypeOK
      <3> QED BY <1>0, <2>2, <3>1, LogsGoto DEF At, s3, TypeOK
    <2>3. CASE /\ At(t, "write_logs") /\ Goto(t, "upload_logs")
               /\ log_files' = [log_files EXCEPT ![run[t].logs] = run[t].stamp]
               /\ UNCHANGED <<clock, files, s3, counters, history>>
      <3>1. log_files' \in [FirstEvents -> Stamps \cup {0}]
        BY <1>0, <2>3 DEF TypeOK
      <3> QED BY <1>0, <2>3, <3>1, LogsGoto DEF At, s3, TypeOK
    <2> QED BY <1>2, <2>1, <2>2, <2>3 DEF SaveLogs
  <1>3. CASE UploadLogs(t)
    <2>1. CASE Leave(t)
      BY <2>1, LeaveStep
    <2>2. CASE /\ At(t, "upload_logs")
               /\ s3_logs' = [s3_logs EXCEPT ![run[t].logs] = run[t].stamp]
               /\ Goto(t, "summarize") \/ End(t)
               /\ UNCHANGED <<clock, disk, s3_metrics, counters, history>>
      <3>1. s3_logs' \in [FirstEvents -> Stamps \cup {0}]
        BY <1>0, <2>2 DEF TypeOK
      <3>2. CASE Goto(t, "summarize")
        BY <1>0, <2>2, <3>1, <3>2, LogsGoto DEF At, disk, TypeOK
      <3>3. CASE End(t)
        <4>1. Idle \in Run /\ run' = [run EXCEPT ![t] = Idle]
          BY <1>0, <3>3, RunType DEF End
        <4>2. TypeOK'
          BY <1>0, <2>2, <3>1, <4>1, TypeKept DEF TypeOK, disk
        <4>3. Promised(Idle)'
          BY <4>2, IdlePromised, PTL
        <4>4. Idle.stamp = 0 /\ Idle.stage = "idle"
          BY DEF Idle
        <4> QED BY <2>2, <4>1, <4>2, <4>3, <4>4, OtherStep DEF counters, disk
      <3> QED BY <2>2, <3>2, <3>3
    <2> QED BY <1>3, <2>1, <2>2 DEF UploadLogs
  <1>4. CASE SummarizeLogs(t)
    <2>1. CASE Leave(t)
      BY <2>1, LeaveStep
    <2>2. CASE /\ At(t, "summarize") /\ Goto(t, "open_observation")
               /\ UNCHANGED <<clock, disk, s3, counters, history>>
      BY <1>0, <2>2, LogsGoto DEF At, s3, disk, TypeOK
    <2> QED BY <1>4, <2>1, <2>2 DEF SummarizeLogs
  <1> QED BY <1>1, <1>2, <1>3, <1>4

-----------------------------------------------------------------------------
(* The files of metrics, observations and results                          *)

LEMMA OwnFile ==
  ASSUME Inv, NEW t \in Threads, NEW d \in Folders,
         NEW state \in {"open", "whole"}, Set(d, run[t].stamp, state),
         NEW r \in Run, run' = [run EXCEPT ![t] = r],
         UNCHANGED <<clock, log_files, s3, counters, history>>,
         r.stamp \in {0, run[t].stamp}, r.stage # "collect",
         run[t].stage \notin {"idle", "open_prediction", "write_prediction"}
           \/ r.stage \in {"idle", "open_prediction", "write_prediction"},
         run[t].stamp # 0,
         \/ d = "metrics" /\ run[t].stamp \notin Listed("observations")
         \/ /\ d = "observations" /\ run[t].stamp \in Whole("metrics")
            /\ run[t].stamp \in s3_metrics
            /\ state = "whole" \/ run[t].stamp \notin Listed("observations")
         \/ d = "predictions" /\ subject[run[t].stamp] # 0,
         Promised(r)'
  PROVE  Inv'
  <1> PICK s \in Stamps : s = run[t].stamp
    BY RunType DEF Inv, TypeInv, Run
  <1>0. TypeOK /\ Left
    BY DEF Inv, TypeInv
  <1>1. /\ files' \in [Folders -> [Stamps -> FileState]]
        /\ \A x \in Folders : \A y \in Stamps :
             y # s => files'[x][y] = files[x][y]
        /\ \A x \in Folders \ {d} :
             Listed(x)' = Listed(x) /\ Whole(x)' = Whole(x)
        /\ Listed(d)' = Listed(d) \cup {s}
        /\ Whole(d)' = IF state = "whole" THEN Whole(d) \cup {s}
                       ELSE Whole(d) \ {s}
    BY <1>0, SetType
  <1>2. /\ "observations" \in Folders /\ "predictions" \in Folders
        /\ "metrics" \in Folders
        /\ UNCHANGED <<clock, requests, log_files, s3_metrics, s3_logs, history>>
    BY DEF Folders, s3, counters
  <1>3. TypeOK'
    BY <1>0, <1>1, <1>2, TypeKept DEF TypeOK
  <1>4. \A x \in Folders : Listed(x) \subseteq Listed(x)'
    BY <1>1
  <1>5. Whole("observations") \subseteq Whole("observations")'
    <2>1. Whole("observations") \subseteq Listed("observations")
      BY DEF Whole, Listed
    <2> QED BY <1>1, <1>2, <2>1
  <1>6. s \in Listed("observations")' =>
          s \in Whole("metrics")' /\ s \in s3_metrics'
    BY <1>0, <1>1, <1>2 DEF Left
  <1>7. s \in Listed("predictions")' => subject[s] # 0
    BY <1>0, <1>1, <1>2 DEF Left
  <1> QED BY <1>1, <1>2, <1>3, <1>4, <1>5, <1>6, <1>7, RequestStep

LEMMA SaveMetricsStep ==
  ASSUME Inv, NEW t \in Threads, SaveMetrics(t)
  PROVE  Inv'
  <1> PICK o \in Run : o = run[t]
    BY RunType DEF Inv, TypeInv
  <1>0. TypeOK /\ Promised(o) /\ o.stamp \in Stamps \cup {0}
        /\ o.began \in Stamps \cup {0} /\ "metrics" \in Folders
    BY DEF Inv, TypeInv, Run, Folders
  <1> DEFINE Onward(from, state, to) ==
        /\ o.stage = from /\ Set("metrics", o.stamp, state)
        /\ run' = [run EXCEPT ![t] = [o EXCEPT !.stage = to]]
        /\ UNCHANGED <<clock, log_files, s3, counters, history>>
  <1>1. \/ Onward("open_metrics", "open", "write_metrics")
        \/ Onward("write_metrics", "whole", "upload_metrics")
        \/ Leave(t)
    <2>1. "write_metrics" \in Stage
      BY DEF Stage
    <2> QED BY <1>0, <2>1, RunType DEF SaveMetrics, Open, Finish, At
  <1>2. ASSUME NEW from, NEW state, NEW to, Onward(from, state, to),
               \/ /\ from = "open_metrics" /\ state = "open"
                  /\ to = "write_metrics"
               \/ /\ from = "write_metrics" /\ state = "whole"
                  /\ to = "upload_metrics"
        PROVE  Inv'
    <2> PICK r : r = [o EXCEPT !.stage = to]
      OBVIOUS
    <2>1. /\ r \in Run /\ r.stage = to /\ r.op = o.op /\ r.stamp = o.stamp
          /\ r.file = o.file /\ r.began = o.began /\ r.newest = o.newest
      <3>1. to \in Stage
        BY <1>2 DEF Stage
      <3> QED BY <3>1, StageOnly
    <2>2. /\ o.began < o.stamp /\ o.stamp \in Stamps
          /\ o.stamp \notin Listed("observations")
      BY <1>0, <1>2, StampsType DEF Promised, AfterCollect
    <2>3. /\ \A x \in Folders \ {"metrics"} :
               Listed(x)' = Listed(x) /\ Whole(x)' = Whole(x)
          /\ Listed("metrics")' = Listed("metrics") \cup {o.stamp}
          /\ state = "whole" => o.stamp \in Whole("metrics")'
      BY <1>0, <1>2, <2>2, SetType
    <2>4. "observations" \in Folders \ {"metrics"}
          /\ "predictions" \in Folders \ {"metrics"}
      BY DEF Folders
    <2>5. Promised(r)'
      <3>1. /\ UNCHANGED <<clock, s3_metrics, subject, begun>>
            /\ r.stage \in {"write_metrics", "upload_metrics"}
            /\ r.stage = "upload_metrics" => o.stamp \in Whole("metrics")'
        BY <1>2, <2>1, <2>3 DEF s3, history
      <3>2. Folder(r.op) \in Folders \ {"metrics"}
        BY <2>4 DEF Folder
      <3>3. Listed(Folder(r.op))' = Listed(Folder(r.op))
        BY <2>3, <3>2
      <3>4. Listed("observations")' = Listed("observations")
        BY <2>3, <2>4
      <3> QED BY <1>0, <2>1, <2>2, <3>1, <3>3, <3>4
              DEF Promised, AfterCollect, AfterMetrics
    <2>6. /\ run' = [run EXCEPT ![t] = r]
          /\ o.stage \in {"open_metrics", "write_metrics"}
          /\ r.stage \in {"write_metrics", "upload_metrics"}
          /\ state \in {"open", "whole"}
          /\ Set("metrics", o.stamp, state)
          /\ UNCHANGED <<clock, log_files, s3, counters, history>>
      BY <1>2, <2>1
    <2>7. o.stamp # 0
      BY <2>2, StampsType
    <2> QED BY <1>0, <2>1, <2>2, <2>5, <2>6, <2>7, OwnFile
  <1> QED BY <1>1, <1>2, LeaveStep

LEMMA SaveResultStep ==
  ASSUME Inv, NEW t \in Threads, SaveAnomalyResult(t)
  PROVE  Inv'
  <1> PICK o \in Run : o = run[t]
    BY RunType DEF Inv, TypeInv
  <1>0. TypeOK /\ Promised(o) /\ "predictions" \in Folders
        /\ o.stamp \in Stamps \cup {0}
    BY DEF Inv, TypeInv, Folders, Run
  <1>1. CASE Leave(t)
    BY <1>1, LeaveStep
  <1>2. CASE Open(t, "open_prediction", "predictions", "write_prediction")
             /\ ~Leave(t)
    <2> PICK r : r = [o EXCEPT !.stage = "write_prediction"]
      OBVIOUS
    <2>0. "write_prediction" \in Stage
      BY DEF Stage
    <2>1. /\ r \in Run /\ r.stage = "write_prediction"
          /\ r.op = o.op /\ r.stamp = o.stamp
          /\ r.file = o.file /\ r.began = o.began /\ r.newest = o.newest
      BY <2>0, StageOnly
    <2>2. /\ run' = [run EXCEPT ![t] = r] /\ o.stage = "open_prediction"
          /\ Set("predictions", o.stamp, "open")
          /\ UNCHANGED <<clock, log_files, s3, counters, history>>
      BY <1>0, <1>2, <2>0, RunType DEF Open, At
    <2>3. o.stamp # 0 /\ subject[o.stamp] # 0
      BY <1>0, <2>2 DEF Promised
    <2>4. /\ \A x \in Folders \ {"predictions"} :
               Listed(x)' = Listed(x) /\ Whole(x)' = Whole(x)
          /\ Listed("predictions")' = Listed("predictions") \cup {o.stamp}
      BY <1>0, <2>2, <2>3, SetType
    <2>5. "observations" \in Folders \ {"predictions"}
      BY DEF Folders
    <2>6. Promised(r)'
      BY <1>0, <2>1, <2>2, <2>3, <2>4, <2>5
      DEF Promised, AfterCollect, AfterMetrics, Folder, history
    <2> QED BY <1>0, <2>1, <2>2, <2>3, <2>6, OwnFile
  <1>3. CASE /\ Set("predictions", run[t].stamp, "whole")
             /\ At(t, "write_prediction") /\ run' = [run EXCEPT ![t] = Idle]
             /\ UNCHANGED <<clock, log_files, s3, counters, history>>
    <2>1. o.stage = "write_prediction" /\ o.stamp # 0 /\ subject[o.stamp] # 0
      BY <1>0, <1>3 DEF Promised, At
    <2>2. Idle \in Run /\ Idle.stamp = 0 /\ Idle.stage = "idle"
      BY <1>0, RunType DEF Idle
    <2>3. files' \in [Folders -> [Stamps -> FileState]]
      BY <1>0, <1>3, <2>1, SetType
    <2>4. TypeOK'
      BY <1>0, <1>3, <2>2, <2>3, TypeKept DEF TypeOK, s3
    <2>5. Promised(Idle)'
      BY <2>4, IdlePromised, PTL
    <2> QED BY <1>0, <1>3, <2>1, <2>2, <2>5, OwnFile
  <1> QED BY <1>1, <1>2, <1>3 DEF SaveAnomalyResult, Finish

\* The observation has its own folder: whatever the others hold stays.
LEMMA ObservationSet ==
  ASSUME TypeOK, NEW s \in Stamps, NEW state \in {"open", "whole"},
         Set("observations", s, state)
  PROVE  /\ Listed("metrics")' = Listed("metrics")
         /\ Whole("metrics")' = Whole("metrics")
         /\ Listed("predictions")' = Listed("predictions")
         /\ Listed("observations")' = Listed("observations") \cup {s}
         /\ state = "whole" =>
              Whole("observations")' = Whole("observations") \cup {s}
  <1>1. /\ "observations" \in Folders
        /\ "metrics" \in Folders \ {"observations"}
        /\ "predictions" \in Folders \ {"observations"}
    BY DEF Folders
  <1> QED BY <1>1, SetType

LEMMA SaveObservationStep ==
  ASSUME Inv, NEW t \in Threads, SaveObservation(t)
  PROVE  Inv'
  <1> PICK o \in Run : o = run[t]
    BY RunType DEF Inv, TypeInv
  <1>0. /\ TypeOK /\ Promised(o) /\ "observations" \in Folders
        /\ o.stamp \in Stamps \cup {0} /\ o.began \in Stamps \cup {0}
        /\ Left
    BY DEF Inv, TypeInv, Folders, Run
  <1>1. CASE Leave(t)
    BY <1>1, LeaveStep
  <1>2. CASE Open(t, "open_observation", "observations", "write_observation")
             /\ ~Leave(t)
    <2> PICK r : r = [o EXCEPT !.stage = "write_observation"]
      OBVIOUS
    <2>0. "write_observation" \in Stage
      BY DEF Stage
    <2>1. /\ r \in Run /\ r.stage = "write_observation"
          /\ r.op = o.op /\ r.stamp = o.stamp
          /\ r.file = o.file /\ r.began = o.began /\ r.newest = o.newest
      BY <2>0, StageOnly
    <2>2. /\ run' = [run EXCEPT ![t] = r] /\ o.stage = "open_observation"
          /\ Set("observations", o.stamp, "open")
          /\ UNCHANGED <<clock, log_files, s3, counters, history>>
      BY <1>0, <1>2, <2>0, RunType DEF Open, At
    <2>3. /\ o.began < o.stamp /\ o.stamp \in Stamps /\ o.stamp # 0
          /\ o.stamp \notin Listed("observations")
          /\ o.stamp \in Whole("metrics") /\ o.stamp \in s3_metrics
      BY <1>0, <2>2, StampsType DEF Promised, AfterCollect, AfterMetrics
    <2>4. /\ Whole("metrics")' = Whole("metrics")
          /\ Listed("predictions")' = Listed("predictions")
          /\ Listed("observations")' = Listed("observations") \cup {o.stamp}
      BY <1>0, <2>2, <2>3, ObservationSet
    <2>5. Promised(r)'
      BY <1>0, <2>1, <2>2, <2>3, <2>4
      DEF Promised, AfterCollect, AfterMetrics, Folder, history, s3
    <2> QED BY <1>0, <2>1, <2>2, <2>3, <2>5, OwnFile
  <1>3. ASSUME NEW r \in Run, run' = [run EXCEPT ![t] = r],
               Set("observations", o.stamp, "whole"),
               o.stage = "write_observation",
               UNCHANGED <<clock, log_files, s3, counters, history>>,
               r.stamp \in {0, o.stamp}, r.stage \in {"idle", "detect"},
               Promised(r)'
        PROVE  Inv'
    <2>1. /\ o.stamp \in Stamps /\ o.stamp # 0
          /\ o.stamp \in Whole("metrics") /\ o.stamp \in s3_metrics
      BY <1>0, <1>3, StampsType DEF Promised, AfterCollect, AfterMetrics
    <2> QED BY <1>0, <1>3, <2>1, OwnFile
  <1>4. CASE /\ At(t, "write_observation")
             /\ Set("observations", run[t].stamp, "whole")
             /\ run' = [run EXCEPT ![t] =
                  IF run[t].op = "run_ingestion" THEN Idle
                  ELSE [run[t] EXCEPT !.stage = "detect", !.file = run[t].stamp]]
             /\ UNCHANGED <<clock, log_files, s3, counters, history>>
    <2>0. /\ o.stage = "write_observation" /\ o.began < o.stamp
          /\ o.stamp \in Stamps /\ o.stamp # 0
      BY <1>0, <1>4, StampsType DEF Promised, AfterCollect, AfterMetrics, At
    <2>1. CASE run[t].op = "run_ingestion"
      <3>1. Idle \in Run /\ Idle.stamp = 0 /\ Idle.stage = "idle"
        BY <1>0, RunType DEF Idle
      <3>2. run' = [run EXCEPT ![t] = Idle]
        BY <1>4, <2>1
      <3>3. files' \in [Folders -> [Stamps -> FileState]]
        BY <1>0, <1>4, <2>0, SetType
      <3>4. TypeOK'
        BY <1>0, <1>4, <3>1, <3>2, <3>3, TypeKept DEF TypeOK, s3
      <3>5. Promised(Idle)'
        BY <3>4, IdlePromised, PTL
      <3> QED BY <1>3, <1>4, <2>0, <3>1, <3>2, <3>5
    <2>2. CASE run[t].op # "run_ingestion"
      <3> PICK r : r = [o EXCEPT !.stage = "detect", !.file = o.stamp]
        OBVIOUS
      <3>1. /\ r \in Run /\ r.stage = "detect" /\ r.file = o.stamp
            /\ r.op = o.op /\ r.stamp = o.stamp
            /\ r.began = o.began /\ r.newest = o.newest
        BY DEF Run, Stage
      <3>2. run' = [run EXCEPT ![t] = r]
        BY <1>4, <2>2
      <3>3. /\ Whole("metrics")' = Whole("metrics")
            /\ Listed("predictions")' = Listed("predictions")
            /\ Listed("observations")' = Listed("observations") \cup {o.stamp}
            /\ Whole("observations")' = Whole("observations") \cup {o.stamp}
        BY <1>0, <1>4, <2>0, ObservationSet
      \* What was judged before this request began was observed before it.
      <3>4. \A p \in Stamps : p <= o.began => subject[p] <= o.stamp
        <4> SUFFICES ASSUME NEW p \in Stamps, p <= o.began
                     PROVE  subject[p] <= o.stamp
          OBVIOUS
        <4>1. /\ subject[p] \in Nat /\ p \in Nat /\ o.began \in Nat
              /\ o.stamp \in Nat
          BY <1>0, <2>0, StampsType DEF TypeOK
        <4>2. subject[p] = 0 \/ subject[p] < p
          BY <1>0 DEF Left
        <4> QED BY <2>0, <4>1, <4>2
      <3>5. Promised(r)'
        BY <1>0, <1>4, <3>1, <3>3, <3>4
        DEF Promised, AfterCollect, AfterMetrics, Folder, history
      <3> QED BY <1>3, <1>4, <2>0, <3>1, <3>2, <3>5
    <2> QED BY <2>1, <2>2
  <1> QED BY <1>1, <1>2, <1>4 DEF SaveObservation, Finish

-----------------------------------------------------------------------------
(* Readers                                                                 *)

LEMMA ListStep ==
  ASSUME Inv, NEW t \in Threads, List(t)
  PROVE  Inv'
  <1> PICK o \in Run : o = run[t]
    BY RunType DEF Inv, TypeInv
  <1> PICK d \in Folders : d = Folder(o.op)
    BY FolderType
  <1>0. /\ TypeOK /\ Promised(o) /\ o.stage = "list"
        /\ o.newest \in Nat
    BY StampsType DEF Inv, TypeInv, List, At, Run
  <1>1. CASE Leave(t)
    BY <1>1, LeaveStep
  <1>2. CASE /\ Listed(d) # {}
             /\ run' = [run EXCEPT ![t].stage = "read", ![t].file = Latest(d)]
             /\ UNCHANGED <<clock, disk, s3, counters, history>>
    <2> PICK f \in Stamps : /\ f = Latest(d) /\ f \in Listed(d)
                            /\ \A s \in Listed(d) : s <= f
      BY <1>2, LatestType
    <2> PICK r : r = [o EXCEPT !.stage = "read", !.file = f]
      OBVIOUS
    <2>1. /\ r \in Run /\ r.stage = "read" /\ r.file = f
          /\ r.op = o.op /\ r.stamp = o.stamp
          /\ r.began = o.began /\ r.newest = o.newest
      BY DEF Run, Stage
    <2>2. run' = [run EXCEPT ![t] = r]
      BY <1>0, <1>2 DEF TypeOK
    <2>3. UNCHANGED <<clock, files, log_files, s3_metrics, s3_logs, counters,
                      requests, history>>
      BY <1>2 DEF disk, s3, counters
    <2>4. TypeOK'
      BY <1>0, <2>1, <2>2, <2>3, TypeKept DEF TypeOK
    <2>5. f >= o.newest
      BY <1>0, StampsType DEF Promised
    <2>6. \A x : Listed(x)' = Listed(x) /\ Whole(x)' = Whole(x)
      BY <2>3 DEF Listed, Whole
    <2>7. Promised(r)'
      BY <1>0, <2>1, <2>3, <2>5, <2>6
      DEF Promised, AfterCollect, AfterMetrics, history
    <2> QED BY <1>0, <2>1, <2>2, <2>3, <2>4, <2>7, OtherStep
  <1> QED BY <1>1, <1>2 DEF List

LEMMA ReadStep ==
  ASSUME Inv, NEW t \in Threads, Read(t)
  PROVE  Inv'
  <1> PICK o \in Run : o = run[t]
    BY RunType DEF Inv, TypeInv
  <1>1. CASE Leave(t)
    BY <1>1, LeaveStep
  <1>2. CASE /\ files[Folder(o.op)][o.file] = "whole"
             /\ o.op = "run_inference" /\ Goto(t, "detect")
             /\ UNCHANGED <<clock, disk, s3, counters, history>>
    <2>0. /\ TypeOK /\ Promised(o) /\ o.stage = "read"
          /\ o.newest \in Nat /\ o.file \in Nat /\ o.began \in Nat
      <3>1. TypeOK /\ Promised(o) /\ o.stage = "read"
        BY DEF Inv, TypeInv, Read, At
      <3>2. /\ o.newest \in Stamps \cup {0} /\ o.file \in Stamps \cup {0}
            /\ o.began \in Stamps \cup {0}
        BY DEF Run
      <3> QED BY <3>1, <3>2, StampsNat
    <2>1. /\ Folder(o.op) = "observations"
          /\ o.file \in Stamps /\ o.file \in Whole("observations")
          /\ o.file >= o.newest
      BY <1>2, <2>0 DEF Promised, Folder, Listed, Whole
    <2>2. \A p \in Stamps : p <= o.began => subject[p] <= o.file
      <3> SUFFICES ASSUME NEW p \in Stamps, p <= o.began
                   PROVE  subject[p] <= o.file
        OBVIOUS
      <3>1. subject[p] \in Nat
        BY <2>0, StampsNat DEF TypeOK
      <3>2. subject[p] <= o.newest
        BY <1>2, <2>0 DEF Promised
      <3> QED BY <2>0, <2>1, <3>1, <3>2
    <2> PICK r : r = [o EXCEPT !.stage = "detect"]
      OBVIOUS
    <2>3. "detect" \in Stage
      BY DEF Stage
    <2>4. /\ r.stage = "detect" /\ r.op = o.op /\ r.stamp = o.stamp
          /\ r.file = o.file /\ r.began = o.began /\ r.newest = o.newest
      BY <2>3, StageOnly
    <2>5. UNCHANGED <<clock, files, log_files, s3_metrics, s3_logs, counters,
                      history>>
      BY <1>2 DEF disk, s3
    <2>6. \A x : Listed(x)' = Listed(x) /\ Whole(x)' = Whole(x)
      BY <2>5 DEF Listed, Whole
    <2>7. Promised(r)'
      BY <2>0, <2>1, <2>2, <2>4, <2>5, <2>6
      DEF Promised, AfterCollect, AfterMetrics, history
    <2> QED BY <1>2, <2>0, <2>3, <2>5, <2>7, GotoStep DEF TypeOK
  <1> QED BY <1>1, <1>2 DEF Read

-----------------------------------------------------------------------------
(* Timestamps                                                              *)

LEMMA Unstamped ==
  ASSUME TypeInv, NEW t \in Threads, t \in ToJudge
  PROVE  /\ clock + 1 \in Stamps /\ clock \in Nat /\ requests \in Nat
         /\ IsFiniteSet(ToStamp) /\ IsFiniteSet(ToJudge)
         /\ Cardinality(ToStamp) \in Nat /\ Cardinality(ToJudge) \in Nat
         /\ Cardinality(ToJudge \ {t}) = Cardinality(ToJudge) - 1
         /\ t \in ToStamp =>
              Cardinality(ToStamp \ {t}) = Cardinality(ToStamp) - 1
  <1>1. IsFiniteSet(ToStamp) /\ IsFiniteSet(ToJudge)
    BY StampsType, FS_Subset DEF ToStamp, ToJudge
  <1>2. Cardinality(ToStamp) \in Nat /\ Cardinality(ToJudge) \in Nat
    BY <1>1, FS_CardinalityType
  <1>3. /\ Cardinality(ToJudge \ {t}) = Cardinality(ToJudge) - 1
        /\ Cardinality(ToJudge \ {t}) \in Nat
        /\ t \in ToStamp =>
              Cardinality(ToStamp \ {t}) = Cardinality(ToStamp) - 1
    BY <1>1, FS_RemoveElement, FS_CardinalityType
  <1>4. clock \in Nat /\ requests \in Nat /\ requests <= MaxRequests
        /\ MaxRequests \in Nat
    BY StampsNat, IngestionAssumption
    DEF TypeInv, TypeOK, IngestionAssumption
  <1>5. clock + 1 <= 2 * requests
    BY <1>2, <1>3, <1>4 DEF TypeInv, StampsSuffice
  <1>6. clock + 1 \in 1 .. 2 * MaxRequests
    BY <1>4, <1>5
  <1> QED BY <1>1, <1>2, <1>3, <1>4, <1>6 DEF Stamps

LEMMA CollectStep ==
  ASSUME Inv, NEW t \in Threads, Collect(t)
  PROVE  Inv'
  <1>1. CASE Leave(t)
    BY <1>1, LeaveStep
  <1>2. CASE /\ At(t, "collect") /\ clock' = clock + 1
             /\ run' = [run EXCEPT ![t].stage = "open_metrics",
                                   ![t].stamp = clock']
             /\ UNCHANGED <<disk, s3, counters, history>>
    <2> PICK o \in Run : o = run[t]
      BY RunType DEF Inv, TypeInv
    <2>0. /\ TypeOK /\ Promised(o) /\ Left /\ o.stage = "collect"
          /\ o.began \in Stamps \cup {0}
          /\ t \in ToStamp /\ t \in ToJudge
      BY <1>2 DEF Inv, TypeInv, At, ToStamp, ToJudge, Run
    <2>1. /\ clock + 1 \in Stamps /\ clock \in Nat /\ requests \in Nat
          /\ Cardinality(ToStamp) \in Nat /\ Cardinality(ToJudge) \in Nat
          /\ Cardinality(ToStamp \ {t}) = Cardinality(ToStamp) - 1
      BY <2>0, Unstamped DEF Inv
    <2> PICK c \in Stamps : c = clock + 1
      BY <2>1
    <2> PICK r : r = [o EXCEPT !.stage = "open_metrics", !.stamp = c]
      OBVIOUS
    <2>2. /\ r \in Run /\ r.stage = "open_metrics" /\ r.stamp = c
          /\ r.op = o.op /\ r.file = o.file
          /\ r.began = o.began /\ r.newest = o.newest
      BY DEF Run, Stage
    <2>3. run' = [run EXCEPT ![t] = r]
      BY <1>2, <2>0 DEF TypeOK
    <2>4. /\ clock' = c
          /\ UNCHANGED <<files, log_files, s3_metrics, s3_logs, requests,
                         crashes, subject, begun>>
      BY <1>2 DEF disk, s3, counters, history
    <2>5. run'[t] = r /\ \A x \in Threads \ {t} : run'[x] = run[x]
      BY <2>0, <2>3, RunType
    <2>6. TypeOK'
      BY <2>0, <2>2, <2>3, <2>4 DEF TypeOK
    <2>7. StampsSuffice'
      <3>0. \A x \in Threads :
              /\ run'[x].stage = "collect" <=> run[x].stage = "collect" /\ x # t
              /\ run'[x].stage \notin
                     {"idle", "open_prediction", "write_prediction"}
                   <=> run[x].stage \notin
                         {"idle", "open_prediction", "write_prediction"}
        BY <2>0, <2>2, <2>5
      <3>1. ToStamp' = ToStamp \ {t} /\ ToJudge' = ToJudge
        BY <3>0 DEF ToStamp, ToJudge, At
      <3> QED BY <2>1, <2>4, <3>1 DEF Inv, TypeInv, StampsSuffice
    <2>8. \A x : Listed(x)' = Listed(x) /\ Whole(x)' = Whole(x)
      BY <2>4 DEF Listed, Whole
    <2>9. \A x \in Threads : /\ run[x].stamp \in Nat /\ run[x].stamp < c
                             /\ run[x].began \in Nat /\ run[x].began < c
      <3> SUFFICES ASSUME NEW x \in Threads
                   PROVE  /\ run[x].stamp \in Nat /\ run[x].stamp < c
                          /\ run[x].began \in Nat /\ run[x].began < c
        OBVIOUS
      <3>1. run[x].stamp \in Nat /\ run[x].began \in Nat
        <4>1. /\ run[x].stamp \in Stamps \cup {0}
              /\ run[x].began \in Stamps \cup {0}
          BY <2>0 DEF TypeOK, Run
        <4> QED BY <4>1, StampsNat
      <3>2. run[x].stamp <= clock /\ run[x].began <= clock
        BY DEF Inv, Promised
      <3> QED BY <2>1, <3>1, <3>2
    <2>10. OwnStamps'
      <3>1. \A x \in Threads \ {t} : run'[x].stamp = run[x].stamp
                                     /\ run'[x].stamp # c
        BY <2>5, <2>9
      <3>2. run'[t].stamp = c
        BY <2>2, <2>5
      <3>3. \A x, y \in Threads :
              run[x].stamp = run[y].stamp /\ run[x].stamp # 0 => x = y
        BY DEF Inv, OwnStamps
      <3> QED BY <3>1, <3>2, <3>3 DEF OwnStamps
    <2>11. \A d \in Folders : \A s \in Listed(d) : s \in Nat /\ s < c
      BY <2>0, <2>1, StampsNat DEF Left, Listed
    <2>12. Left'
      <3>1. \A p \in Stamps : p <= clock => p <= c
        BY <2>1, StampsNat
      <3>2. \A p \in Stamps : begun[p] <= c
        <4> SUFFICES ASSUME NEW p \in Stamps PROVE begun[p] <= c
          OBVIOUS
        <4>1. begun[p] \in Nat
          BY <2>0, StampsNat DEF TypeOK
        <4>2. begun[p] <= clock
          BY <2>0 DEF Left
        <4> QED BY <2>1, <4>1, <4>2
      <3>3. \A d \in Folders : \A s \in Listed(d) : s <= c
        BY <2>11, StampsNat
      <3> QED BY <2>0, <2>4, <2>8, <3>1, <3>2, <3>3 DEF Left
    <2>13. ASSUME NEW x \in Threads PROVE Promised(run[x])'
      <3>1. CASE x # t
        <4> PICK y : y = run[x]
          OBVIOUS
        <4>1. Promised(y) /\ y.stamp <= c /\ y.began <= c /\ run'[x] = y
          BY <2>5, <2>9, <3>1, StampsNat DEF Inv
        <4>2. Promised(y)'
          BY <2>4, <2>8, <4>1 DEF Promised
        <4> QED BY <4>1, <4>2
      <3>2. CASE x = t
        <4>1. /\ o.began < c /\ c \notin Listed("observations")
              /\ o.began <= c /\ c <= c /\ c \in Nat
          BY <2>9, <2>11, StampsNat DEF Folders
        <4>2. o.newest = 0 \/ o.newest \in Listed(Folder(o.op))
          BY <2>0 DEF Promised
        <4>3. o.op = "run_inference" =>
                \A p \in Stamps : p <= o.began => subject[p] <= o.newest
          BY <2>0 DEF Promised
        <4>4. Promised(r)'
          BY <2>2, <2>4, <2>8, <4>1, <4>2, <4>3
          DEF Promised, AfterCollect, AfterMetrics
        <4> QED BY <2>5, <3>2, <4>4
      <3> QED BY <3>1, <3>2
    <2> QED BY <2>6, <2>7, <2>10, <2>12, <2>13 DEF Inv, TypeInv
  <1> QED BY <1>1, <1>2 DEF Collect

LEMMA DetectStep ==
  ASSUME Inv, NEW t \in Threads, DetectAnomaly(t)
  PROVE  Inv'
  <1> PICK o \in Run : o = run[t]
    BY RunType DEF Inv, TypeInv
  <1>0. /\ TypeOK /\ Promised(o) /\ Left /\ o.stage = "detect"
        /\ o.began \in Stamps \cup {0} /\ t \in ToJudge
    BY DEF Inv, TypeInv, At, ToJudge, Run, DetectAnomaly
  <1>1. /\ clock + 1 \in Stamps /\ clock \in Nat /\ requests \in Nat
        /\ Cardinality(ToStamp) \in Nat /\ Cardinality(ToJudge) \in Nat
        /\ Cardinality(ToJudge \ {t}) = Cardinality(ToJudge) - 1
    BY <1>0, Unstamped DEF Inv
  <1> PICK c \in Stamps : c = clock + 1
    BY <1>1
  <1> PICK r : r = [o EXCEPT !.stage = "open_prediction", !.stamp = c]
    OBVIOUS
  <1>2. /\ r \in Run /\ r.stage = "open_prediction" /\ r.stamp = c
        /\ r.op = o.op /\ r.file = o.file
        /\ r.began = o.began /\ r.newest = o.newest
    BY DEF Run, Stage
  <1>3. run' = [run EXCEPT ![t] = r]
    BY <1>0 DEF DetectAnomaly, TypeOK
  <1>4. /\ clock' = c
        /\ UNCHANGED <<files, log_files, s3_metrics, s3_logs, requests, crashes>>
        /\ subject' = [subject EXCEPT ![c] = o.file]
        /\ begun' = [begun EXCEPT ![c] = o.began]
    BY DEF DetectAnomaly, disk, s3, counters
  <1>5. run'[t] = r /\ \A x \in Threads \ {t} : run'[x] = run[x]
    BY <1>0, <1>3, RunType
  <1>6. /\ o.file \in Stamps /\ o.file \in Nat /\ o.file # 0 /\ o.file < c
        /\ o.file \in Whole("observations")
    <2>1. o.file \in Whole("observations") /\ "observations" \in Folders
      BY <1>0 DEF Promised, Folders
    <2>2. o.file \in Stamps /\ o.file \in Listed("observations")
      BY <2>1 DEF Whole, Listed
    <2> QED BY <1>0, <1>1, <2>1, <2>2, StampsType DEF Left
  <1>7. TypeOK'
    BY <1>0, <1>2, <1>3, <1>4, <1>6 DEF TypeOK
  <1>8. StampsSuffice'
    <2>0. \A x \in Threads :
            /\ run'[x].stage = "collect" <=> run[x].stage = "collect"
            /\ run'[x].stage \notin
                   {"idle", "open_prediction", "write_prediction"}
                 <=> /\ run[x].stage \notin
                          {"idle", "open_prediction", "write_prediction"}
                     /\ x # t
      BY <1>0, <1>2, <1>5
    <2>1. ToStamp' = ToStamp /\ ToJudge' = ToJudge \ {t}
      BY <2>0 DEF ToStamp, ToJudge, At
    <2> QED BY <1>1, <1>4, <2>1 DEF Inv, TypeInv, StampsSuffice
  <1>9. \A x : Listed(x)' = Listed(x) /\ Whole(x)' = Whole(x)
    BY <1>4 DEF Listed, Whole
  <1>10. \A x \in Threads : /\ run[x].stamp \in Nat /\ run[x].stamp < c
                            /\ run[x].began \in Nat /\ run[x].began < c
    <2> SUFFICES ASSUME NEW x \in Threads
                 PROVE  /\ run[x].stamp \in Nat /\ run[x].stamp < c
                        /\ run[x].began \in Nat /\ run[x].began < c
      OBVIOUS
    <2>1. run[x].stamp \in Nat /\ run[x].began \in Nat
      <3>1. run[x].stamp \in Stamps \cup {0} /\ run[x].began \in Stamps \cup {0}
        BY <1>0 DEF TypeOK, Run
      <3> QED BY <3>1, StampsNat
    <2>2. run[x].stamp <= clock /\ run[x].began <= clock
      BY DEF Inv, Promised
    <2> QED BY <1>1, <2>1, <2>2
  <1>11. OwnStamps'
    <2>1. \A x \in Threads \ {t} : run'[x].stamp = run[x].stamp
                                   /\ run'[x].stamp # c
      BY <1>5, <1>10
    <2>2. run'[t].stamp = c
      BY <1>2, <1>5
    <2>3. \A x, y \in Threads :
            run[x].stamp = run[y].stamp /\ run[x].stamp # 0 => x = y
      BY DEF Inv, OwnStamps
    <2> QED BY <2>1, <2>2, <2>3 DEF OwnStamps
  <1>12. \A d \in Folders : \A s \in Listed(d) : s \in Nat /\ s < c
    BY <1>0, <1>1, StampsNat DEF Left, Listed
  <1>13. /\ subject'[c] = o.file /\ begun'[c] = o.began
         /\ \A p \in Stamps \ {c} : subject'[p] = subject[p] /\ begun'[p] = begun[p]
    BY <1>0, <1>4 DEF TypeOK
  <1>14. \A p \in Stamps : /\ p \in Nat /\ subject[p] \in Nat /\ begun[p] \in Nat
                           /\ begun[p] < c
                           /\ subject[p] # 0 => p < c
    <2> SUFFICES ASSUME NEW p \in Stamps
                 PROVE  /\ p \in Nat /\ subject[p] \in Nat /\ begun[p] \in Nat
                        /\ begun[p] < c
                        /\ subject[p] # 0 => p < c
      OBVIOUS
    <2>1. p \in Nat /\ subject[p] \in Nat /\ begun[p] \in Nat
      BY <1>0, StampsNat DEF TypeOK
    <2>2. begun[p] <= clock /\ (subject[p] # 0 => p <= clock)
      BY <1>0 DEF Left
    <2> QED BY <1>1, <2>1, <2>2
  \* What was judged before the request began is about no later observation.
  <1>15. \A p \in Stamps : p <= o.began => p # c /\ subject[p] <= o.file
    <2>1. c \in Nat /\ o.began \in Nat /\ o.began < c
      BY <1>1, <1>10
    <2>2. \A p \in Stamps : p <= o.began => subject[p] <= o.file
      BY <1>0 DEF Promised
    <2> QED BY <1>14, <2>1, <2>2
  <1>16. Left'
    <2>1. \A d \in Folders : \A s \in Listed(d) : s <= c
      BY <1>12, StampsNat
    <2>2. \A s \in Listed("predictions") : subject'[s] # 0
      <3>1. Listed("predictions") \subseteq Stamps
        BY DEF Listed
      <3> QED BY <1>0, <1>6, <1>13, <3>1 DEF Left
    <2>3. ASSUME NEW p \in Stamps
          PROVE  /\ subject'[p] # 0 => /\ p <= c /\ subject'[p] < p
                                       /\ subject'[p] \in Whole("observations")
                 /\ begun'[p] <= c
      <3>1. CASE p = c
        BY <1>6, <1>10, <1>13, <1>14, <3>1
      <3>2. CASE p # c
        BY <1>0, <1>13, <1>14, <3>2, StampsNat DEF Left
      <3> QED BY <3>1, <3>2
    <2>4. ASSUME NEW p \in Stamps, NEW q \in Stamps,
                 subject'[q] # 0, p <= begun'[q]
          PROVE  subject'[p] <= subject'[q]
      <3>1. CASE q = c
        BY <1>13, <1>15, <2>4, <3>1
      <3>2. CASE q # c
        <4>1. begun'[q] = begun[q] /\ subject'[q] = subject[q]
          BY <1>13, <3>2
        <4>2. p # c
          BY <1>14, <2>4, <4>1
        <4>3. subject'[p] = subject[p]
          BY <1>13, <4>2
        <4> QED BY <1>0, <2>4, <4>1, <4>3 DEF Left
      <3> QED BY <3>1, <3>2
    <2>5. \A s \in Listed("observations") :
            s \in Whole("metrics") /\ s \in s3_metrics
      BY <1>0 DEF Left
    <2> QED BY <1>4, <1>9, <2>1, <2>2, <2>3, <2>4, <2>5 DEF Left
  <1>17. ASSUME NEW x \in Threads PROVE Promised(run[x])'
    <2>1. CASE x # t
      <3> PICK y \in Run : y = run[x]
        BY <1>0, RunType
      <3>1. /\ Promised(y) /\ y.stamp <= c /\ y.began <= c /\ run'[x] = y
            /\ y.stamp # c /\ y.stamp \in Stamps \cup {0}
            /\ \A p \in Stamps : p <= y.began => p # c
        BY <1>5, <1>10, <2>1, StampsNat DEF Inv, Run
      <3>2. y.stamp # 0 => subject'[y.stamp] = subject[y.stamp]
        BY <1>13, <3>1
      <3>3. \A p \in Stamps : p <= y.began => subject'[p] = subject[p]
        BY <1>13, <3>1
      <3>4. Promised(y)'
        BY <1>4, <1>9, <3>1, <3>2, <3>3 DEF Promised
      <3> QED BY <3>1, <3>4
    <2>2. CASE x = t
      <3>1. o.began <= c /\ c <= c /\ c # 0
        BY <1>1, <1>10
      <3>2. o.newest = 0 \/ o.newest \in Listed(Folder(o.op))
        BY <1>0 DEF Promised
      <3>3. o.op = "run_inference" =>
              \A p \in Stamps : p <= o.began => subject'[p] <= o.newest
        BY <1>0, <1>13, <1>15 DEF Promised
      <3>4. Promised(r)'
        BY <1>2, <1>4, <1>6, <1>9, <1>13, <3>1, <3>2, <3>3
        DEF Promised, AfterCollect, AfterMetrics
      <3> QED BY <1>5, <2>2, <3>4
    <2> QED BY <2>1, <2>2
  <1> QED BY <1>7, <1>8, <1>11, <1>16, <1>17 DEF Inv, TypeInv

-----------------------------------------------------------------------------
(* Requests, crashes and the whole                                         *)

LEMMA ReceiveStep ==
  ASSUME Inv, NEW t \in Threads, NEW op, Receive(t, op)
  PROVE  Inv'
  <1>0. TypeOK /\ Left /\ op \in Ops /\ run[t].stage = "idle"
        /\ clock \in Stamps \cup {0} /\ op \in IngestOps \cup ReadOps
    BY IngestionAssumption
    DEF Inv, TypeInv, TypeOK, Receive, At, IngestionAssumption
  <1> PICK m \in Stamps \cup {0} :
        /\ m = Max(Whole(Folder(op)) \cup {0})
        /\ m = 0 \/ m \in Listed(Folder(op))
        /\ \A s \in Whole(Folder(op)) : s <= m
    BY NewestType
  <1> PICK g \in {"collect", "list"} :
        g = IF op \in IngestOps THEN "collect" ELSE "list"
    OBVIOUS
  <1> PICK r : r = [Idle EXCEPT !.op = op, !.began = clock, !.stage = g,
                                !.newest = m]
    OBVIOUS
  <1>1. /\ r \in Run /\ r.op = op /\ r.began = clock /\ r.stage = g
        /\ r.newest = m /\ r.stamp = 0 /\ r.file = 0
    BY <1>0 DEF Idle, Run, Stage
  <1>2. /\ run' = [run EXCEPT ![t] = r] /\ requests' = requests + 1
        /\ requests < MaxRequests
        /\ UNCHANGED <<clock, files, log_files, s3_metrics, s3_logs, crashes,
                       subject, begun>>
    BY DEF Receive, disk, s3, history
  <1>3. run'[t] = r /\ \A x \in Threads \ {t} : run'[x] = run[x]
    BY <1>0, <1>2, RunType
  <1>4. requests \in Nat /\ MaxRequests \in Nat /\ clock \in Nat
        /\ requests + 1 \in 0 .. MaxRequests
    BY <1>0, <1>2, StampsNat, IngestionAssumption
    DEF TypeOK, IngestionAssumption
  <1>5. TypeOK'
    BY <1>0, <1>1, <1>2, <1>4 DEF TypeOK
  <1>6. StampsSuffice'
    <2>1. IsFiniteSet(ToStamp) /\ IsFiniteSet(ToJudge)
      BY StampsType, FS_Subset DEF ToStamp, ToJudge
    <2>2. ToStamp' \subseteq ToStamp \cup {t} /\ ToJudge' \subseteq ToJudge \cup {t}
      BY <1>3 DEF ToStamp, ToJudge, At
    <2>3. /\ IsFiniteSet(ToStamp \cup {t}) /\ IsFiniteSet(ToJudge \cup {t})
          /\ Cardinality(ToStamp) \in Nat /\ Cardinality(ToJudge) \in Nat
          /\ Cardinality(ToStamp \cup {t}) <= Cardinality(ToStamp) + 1
          /\ Cardinality(ToJudge \cup {t}) <= Cardinality(ToJudge) + 1
      <3>1. t \notin ToStamp /\ t \notin ToJudge
        BY <1>0 DEF ToStamp, ToJudge, At
      <3>2. /\ IsFiniteSet(ToStamp \cup {t})
            /\ Cardinality(ToStamp \cup {t}) = Cardinality(ToStamp) + 1
        BY <2>1, <3>1, FS_AddElement
      <3>3. /\ IsFiniteSet(ToJudge \cup {t})
            /\ Cardinality(ToJudge \cup {t}) = Cardinality(ToJudge) + 1
        BY <2>1, <3>1, FS_AddElement
      <3>4. Cardinality(ToStamp) \in Nat /\ Cardinality(ToJudge) \in Nat
        BY <2>1, FS_CardinalityType
      <3> QED BY <3>2, <3>3, <3>4
    <2>4. /\ Cardinality(ToStamp') <= Cardinality(ToStamp \cup {t})
          /\ Cardinality(ToJudge') <= Cardinality(ToJudge \cup {t})
          /\ IsFiniteSet(ToStamp') /\ IsFiniteSet(ToJudge')
      BY <2>2, <2>3, FS_Subset
    <2>5. /\ Cardinality(ToStamp') \in Nat /\ Cardinality(ToJudge') \in Nat
          /\ Cardinality(ToStamp \cup {t}) \in Nat
          /\ Cardinality(ToJudge \cup {t}) \in Nat
      BY <2>3, <2>4, FS_CardinalityType
    <2>6. clock + Cardinality(ToStamp) + Cardinality(ToJudge) <= 2 * requests
      BY DEF Inv, TypeInv, StampsSuffice
    <2>7. clock + Cardinality(ToStamp') + Cardinality(ToJudge')
            <= 2 * (requests + 1)
      BY <1>4, <2>3, <2>4, <2>5, <2>6
    <2> QED BY <1>2, <2>7 DEF StampsSuffice
  <1>7. OwnStamps'
    <2>1. run'[t].stamp = 0
      BY <1>1, <1>3
    <2>2. \A x \in Threads \ {t} : run'[x].stamp = run[x].stamp
      BY <1>3
    <2>3. \A x, y \in Threads :
            run[x].stamp = run[y].stamp /\ run[x].stamp # 0 => x = y
      BY DEF Inv, OwnStamps
    <2> QED BY <2>1, <2>2, <2>3 DEF OwnStamps
  <1>8. \A x : Listed(x)' = Listed(x) /\ Whole(x)' = Whole(x)
    BY <1>2 DEF Listed, Whole
  <1>9. Left'
    BY <1>0, <1>2, <1>8 DEF Left
  <1>10. ASSUME NEW x \in Threads PROVE Promised(run[x])'
    <2>1. CASE x # t
      <3> PICK y : y = run[x]
        OBVIOUS
      <3>1. Promised(y) /\ run'[x] = y
        BY <1>3, <2>1 DEF Inv
      <3>2. Promised(y)'
        BY <1>2, <1>8, <3>1 DEF Promised
      <3> QED BY <3>1, <3>2
    <2>2. CASE x = t
      <3>1. op = "run_inference" => \A p \in Stamps : subject[p] <= m
        <4> SUFFICES ASSUME op = "run_inference", NEW p \in Stamps
                     PROVE  subject[p] <= m
          OBVIOUS
        <4>1. Folder(op) = "observations"
          BY DEF Folder
        <4>2. subject[p] = 0 \/ subject[p] \in Whole("observations")
          BY <1>0 DEF Left
        <4>3. m \in Nat
          BY StampsNat
        <4> QED BY <4>1, <4>2, <4>3
      <3>2. Promised(r)'
        BY <1>1, <1>2, <1>4, <1>8, <3>1
        DEF Promised, AfterCollect, AfterMetrics
      <3> QED BY <1>3, <2>2, <3>2
    <2> QED BY <2>1, <2>2
  <1> QED BY <1>5, <1>6, <1>7, <1>9, <1>10 DEF Inv, TypeInv

LEMMA CrashStep ==
  ASSUME Inv, Crash
  PROVE  Inv'
  <1>0. TypeOK /\ Left /\ Idle \in Run
    BY DEF Inv, TypeInv, TypeOK, Idle, Run, Stage
  <1>1. /\ \A t \in Threads : run'[t] = Idle
        /\ run' \in [Threads -> Run]
        /\ UNCHANGED <<clock, files, log_files, s3_metrics, s3_logs, requests,
                       subject, begun>>
        /\ crashes < MaxCrashes /\ crashes' = crashes + 1
    BY <1>0 DEF Crash, disk, s3, history
  <1>2. TypeOK'
    BY <1>0, <1>1, IngestionAssumption DEF TypeOK, IngestionAssumption
  <1>3. ToStamp' = {} /\ ToJudge' = {}
    BY <1>1 DEF ToStamp, ToJudge, At, Idle
  <1>4. StampsSuffice'
    BY <1>1, <1>3, StampsLeft DEF Inv
  <1>5. OwnStamps' /\ Left'
    BY <1>0, <1>1 DEF OwnStamps, Left, Idle, Listed, Whole
  <1>6. Promised(Idle)'
    BY <1>2, IdlePromised, PTL
  <1>7. \A t \in Threads : Promised(run[t])'
    BY <1>1, <1>6 DEF Promised
  <1> QED BY <1>2, <1>4, <1>5, <1>7 DEF Inv, TypeInv

LEMMA InvInit == Init => Inv
  <1> SUFFICES ASSUME Init PROVE Inv
    OBVIOUS
  <1> USE DEF Init
  <1>1. Idle \in Run
    BY DEF Idle, Run, Stage
  <1>2. TypeOK
    BY <1>1, IngestionAssumption DEF TypeOK, FileState, IngestionAssumption
  <1>3. ToStamp = {} /\ ToJudge = {}
    BY DEF ToStamp, ToJudge, At, Idle
  <1>4. StampsSuffice
    BY <1>3, FS_EmptySet DEF StampsSuffice
  <1>5. \A d \in Folders : Listed(d) = {}
    BY DEF Listed
  <1>6. OwnStamps /\ Left
    BY <1>5 DEF OwnStamps, Left, Idle, Folders
  <1>7. \A t \in Threads : Promised(run[t])
    BY <1>2, IdlePromised
  <1> QED BY <1>2, <1>4, <1>6, <1>7 DEF Inv, TypeInv

LEMMA InvNext == Inv /\ [Next]_vars => Inv'
  <1> SUFFICES ASSUME Inv, [Next]_vars PROVE Inv'
    OBVIOUS
  <1>1. ASSUME NEW t \in Threads, Step(t) PROVE Inv'
    BY <1>1, CollectStep, SaveMetricsStep, UploadMetricsStep, LogsStep,
       SaveObservationStep, ListStep, ReadStep, DetectStep, SaveResultStep
    DEF Step
  <1>2. ASSUME NEW t \in Threads, NEW op \in Ops, Receive(t, op) PROVE Inv'
    BY <1>2, ReceiveStep
  <1>3. CASE Crash
    BY <1>3, CrashStep
  <1>4. CASE Quiet \/ UNCHANGED vars
    <2>1. UNCHANGED <<clock, files, log_files, s3_metrics, s3_logs, run,
                      requests, crashes, subject, begun>>
      BY <1>4 DEF Quiet, vars, disk, s3, counters, history
    <2>2. TypeOK' /\ StampsSuffice'
      BY <2>1 DEF Inv, TypeInv, TypeOK, StampsSuffice, ToStamp, ToJudge, At
    <2>3. OwnStamps' /\ Left'
      BY <2>1 DEF Inv, OwnStamps, Left, Listed, Whole
    <2>4. \A t \in Threads : Promised(run[t])'
      BY <2>1 DEF Inv, Promised, Listed, Whole
    <2> QED BY <2>2, <2>3, <2>4 DEF Inv, TypeInv
  <1> QED BY <1>1, <1>2, <1>3, <1>4 DEF Next

LEMMA InvHolds == Spec => []Inv
  BY InvInit, InvNext, PTL DEF Spec

-----------------------------------------------------------------------------
\* Every variable keeps its type: two timestamps a request are enough, and a
\* reader is only ever handed the name of a file (Receive, Latest).
THEOREM TypeCorrect == Spec => []TypeOK
  <1>1. Inv => TypeOK
    BY DEF Inv, TypeInv
  <1> QED BY <1>1, InvHolds, PTL

\* With any number of threads, requests and crashes, an observation stands for
\* a run that kept everything it is made of, and a result for an observation
\* that is whole (run_ingestion_pipeline, run_full_cycle).
THEOREM ObservationsAreBacked == Spec => []ObservationIsBacked
  <1>1. Inv => ObservationIsBacked
    <2>1. \A s \in Listed("predictions") : s \in Stamps
      BY DEF Listed
    <2> QED BY <2>1 DEF Inv, Left, ObservationIsBacked
  <1> QED BY <1>1, InvHolds, PTL

\* A reader is never handed a file older than one that was whole when its
\* request began (load_latest_observation, _read_latest_json).
THEOREM ReadersAreFresh == Spec => []LatestIsFresh
  <1>1. Inv => LatestIsFresh
    BY DEF Inv, Promised, LatestIsFresh, At
  <1> QED BY <1>1, InvHolds, PTL

\* A request that began after a result was stamped makes its own from an
\* observation as recent or more (run_inference_pipeline).
THEOREM ResultsFollow == Spec => []ResultsFollowObservations
  <1>1. Inv => ResultsFollowObservations
    <2>1. \A s \in Listed("predictions") : s \in Stamps
      BY DEF Listed
    <2>2. Inv => \A p, q \in Listed("predictions") :
                   p <= begun[q] => subject[p] <= subject[q]
      BY <2>1 DEF Inv, Left
    <2>3. \A p, q \in Listed("predictions") :
            TypeOK => /\ p \in Nat /\ begun[q] \in Nat
                      /\ subject[p] \in Nat /\ subject[q] \in Nat
      BY <2>1, StampsNat DEF TypeOK
    <2> QED BY <2>2, <2>3 DEF Inv, TypeInv, ResultsFollowObservations
  <1> QED BY <1>1, InvHolds, PTL
=============================================================================
