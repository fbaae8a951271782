------------------------------ MODULE AwsCloud ------------------------------
(***************************************************************************)
(* EC2, EBS and CloudWatch as far as the backend sees them through boto3,  *)
(* and the clock.  Volumes are attached to and detached from the monitored *)
(* instance, its CloudWatch agent starts and stops reporting a metric, and *)
(* instances change state, all while requests are in progress.  A volume   *)
(* that is detached may have datapoints all the same: of the last minutes, *)
(* or from the instance it is attached to next.                            *)
(***************************************************************************)
EXTENDS Integers, Sequences, FiniteSets, FiniteSetsExt

CONSTANTS
  Volumes,                  \* EBS volumes the monitored instance may have
  AgentMetrics,             \* metrics its CloudWatch agent may report
  Instances,                \* all instances of the region
  Pages,                    \* the pages describe_instances answers in
  MaxChanges, MaxTime       \* bounds of the model

Resources == Volumes \cup AgentMetrics
_VALID_STATES == {"pending", "running", "shutting-down", "terminated",
                  "stopping", "stopped"}

ASSUME CloudAssumption ==
  /\ Volumes \cap AgentMetrics = {}
  /\ IsFiniteSet(Resources) /\ IsFiniteSet(Instances)
  /\ Pages \in Seq(SUBSET Instances)
  /\ \A i \in Instances : \E p \in DOMAIN Pages : i \in Pages[p]
  /\ \A p, q \in DOMAIN Pages : p # q => Pages[p] \cap Pages[q] = {}
  /\ MaxChanges \in Nat /\ MaxTime \in Nat

VARIABLES
  now,        \* the clock
  there,      \* volumes attached and metrics reported now
  ec2,        \* the state of each instance
  changes,    \* changes made so far (bounded by MaxChanges)
  \* history:
  since,      \* when each resource appeared or disappeared last
  changed     \* the last of the changes made to each instance

cloud == <<now, there, ec2, changes, since, changed>>

CloudInit ==
  /\ now = 0 /\ changes = 0
  /\ there \in {{}, Resources}
  /\ ec2 = [i \in Instances |-> "running"]
  /\ since = [r \in Resources |-> 0]
  /\ changed = [i \in Instances |-> 0]

Appear(r) ==
  /\ r \notin there /\ there' = there \cup {r}
  /\ since' = [since EXCEPT ![r] = now]
  /\ UNCHANGED <<now, ec2, changed>>

Disappear(r) ==
  /\ r \in there /\ there' = there \ {r}
  /\ since' = [since EXCEPT ![r] = now]
  /\ UNCHANGED <<now, ec2, changed>>

ChangeState(i) ==
  /\ ec2' \in {[ec2 EXCEPT ![i] = s] : s \in {"running", "stopped"}}
  /\ ec2' # ec2
  /\ changed' = [changed EXCEPT ![i] = changes + 1]
  /\ UNCHANGED <<now, there, since>>

CloudChange ==
  /\ changes < MaxChanges /\ changes' = changes + 1
  /\ \/ \E r \in Resources : Appear(r) \/ Disappear(r)
     \/ \E i \in Instances : ChangeState(i)

CloudTypeOK ==
  /\ now \in Nat /\ changes \in Nat
  /\ there \subseteq Resources
  /\ ec2 \in [Instances -> _VALID_STATES]
  /\ since \in [Resources -> Nat] /\ changed \in [Instances -> Nat]
=============================================================================
