----------------------------- MODULE MCMonitor -----------------------------
(***************************************************************************)
(* An instance of Monitor for TLC.                                         *)
(***************************************************************************)
EXTENDS Monitor, TLC
CONSTANTS v1, v2, i1, i2, t1, t2

MCMetrics == <<"mem_used_percent">>

\* A datapoint of 2 is too much memory; for the volumes it takes two.
MCThresholds == [memory |-> 1, volume_write_bytes |-> 2]

\* The latest datapoint comes first.
MCReadings == {[values |-> <<2, 1>>, timestamps |-> <<2, 1>>]}

MCPages == <<{i1}, {i2}>>

MCCleaned ==
  [n \in {" Running ", "stopped", " ", "paused"} |->
     CASE n = " Running " -> "running" [] n = "stopped" -> "stopped"
       [] n = " " -> "" [] n = "paused" -> "paused"]
MCQueries == {{}, {" "}, {" Running ", " "}, {"stopped", "paused"}}

Symmetry == Permutations({v1, v2}) \cup Permutations({t1, t2})
=============================================================================
