--------------------------- MODULE MonitorProofs ---------------------------
(***************************************************************************)
(* The monitoring side for any number of threads, volumes, metrics,        *)
(* instances and pages: a listing or a summary that is read page by page   *)
(* while instances change is right about those that did not; a KeyError    *)
(* takes two collections; and caches that threads share without a lock,    *)
(* and calls of AWS that fail, neither raise a false alarm nor hide an     *)
(* overload for longer than the horizon.                                   *)
(***************************************************************************)
EXTENDS Monitor, SetLemmas

\* The caches hold what they are for, and a discovery is within its list.
CallsOK ==
  /\ cwagent_cache \in Entry /\ cwagent_cache.ids \subseteq AgentMetrics
  /\ volume_cache \in Entry /\ volume_cache.ids \subseteq Volumes
  /\ call \in [Threads -> Call]
  /\ \A t \in Threads :
       call[t].stage \notin {"store_cwagent", "query"} =>
         call[t].next \in 1 .. Len(CWAGENT)

CollectionOK ==
  /\ CallsOK
  /\ last_refresh \in Nat /\ requests \in Nat
  /\ overlapped \in BOOLEAN /\ raised \in BOOLEAN /\ faults \subseteq Nat

TypeInv ==
  CloudTypeOK /\ CollectionOK /\ listing \in [Threads -> Listing]

-----------------------------------------------------------------------------
(* Type correctness                                                        *)

LEMMA Bounds ==
  /\ Len(CWAGENT) \in Nat \ {0} /\ 1 \in 1 .. Len(CWAGENT)
  /\ CWAGENT \in [1 .. Len(CWAGENT) -> AgentMetrics]
  /\ Volumes \subseteq Resources /\ AgentMetrics \subseteq Resources
  BY CacheAssumption DEF CacheAssumption, Resources

LEMMA NoCallType == NoCall \in Call /\ NoCall.next \in 1 .. Len(CWAGENT)
  BY Bounds DEF NoCall, Call, Stage

LEMMA GotoType ==
  ASSUME CallsOK, NEW t \in Threads, NEW stage \in Stage, Goto(t, stage),
         stage \notin {"store_cwagent", "query"} =>
           call[t].next \in 1 .. Len(CWAGENT)
  PROVE  /\ call' \in [Threads -> Call]
         /\ \A o \in Threads :
              call'[o].stage \notin {"store_cwagent", "query"} =>
                call'[o].next \in 1 .. Len(CWAGENT)
  BY DEF CallsOK, Call, Goto

LEMMA ProceedType ==
  ASSUME CollectionOK, NEW t \in Threads, NEW stage \in Stage,
         Proceed(t, stage),
         call[t].stage \notin {"store_cwagent", "query"}
  PROVE  CollectionOK'
  <1>1. CallsOK /\ Goto(t, stage) /\ call[t].next \in 1 .. Len(CWAGENT)
    BY DEF CollectionOK, CallsOK, Proceed
  <1> QED BY <1>1, GotoType DEF CollectionOK, CallsOK, Proceed, caches, marks

\* A call that becomes another while the caches stay.
LEMMA CallType ==
  ASSUME CollectionOK, NEW t \in Threads, NEW c \in Call,
         call' = [call EXCEPT ![t] = c], UNCHANGED caches,
         c.stage \notin {"store_cwagent", "query"} =>
           c.next \in 1 .. Len(CWAGENT)
  PROVE  CallsOK'
  BY DEF CollectionOK, CallsOK, caches

LEMMA KeyErrorType ==
  ASSUME CollectionOK, NEW t \in Threads, KeyError(t)
  PROVE  CollectionOK'
  BY NoCallType, CallType DEF CollectionOK, KeyError, caches

LEMMA CollectionType ==
  ASSUME CollectionOK, CloudTypeOK, NEW t \in Threads,
         Collect(t) \/ CollectionStep(t)
  PROVE  CollectionOK'
  <1>0. /\ CallsOK /\ call[t] \in Call /\ now \in Nat
        /\ call[t].stage \notin {"store_cwagent", "query"} =>
             call[t].next \in 1 .. Len(CWAGENT)
    BY DEF CollectionOK, CallsOK, CloudTypeOK
  <1>1. CASE Collect(t)
    <2> DEFINE c == [NoCall EXCEPT !.stage = "refresh", !.began = now]
    <2>1. c \in Call /\ c.next \in 1 .. Len(CWAGENT)
      BY <1>0, Bounds DEF NoCall, Call, Stage
    <2> HIDE DEF c
    <2>2. CallsOK'
      BY <1>1, <2>1, CallType DEF Collect, c
    <2>3. overlapped' \in BOOLEAN
      BY <1>1, Zenon DEF Collect, CollectionOK
    <2> QED BY <1>1, <2>2, <2>3 DEF Collect, CollectionOK, caches
  <1>2. CASE RefreshCaches(t) \/ FindVolumes(t) \/ FindCwagent(t)
    <2>1. /\ call[t].stage \notin {"store_cwagent", "query"}
          /\ \E stage \in Stage : Proceed(t, stage)
      BY <1>2
      DEF RefreshCaches, FindVolumes, FindCwagent, At, Stage
    <2> QED BY <2>1, ProceedType
  <1>3. CASE ClearCwagent(t) \/ ClearVolumes(t) \/ StampRefresh(t)
             \/ StoreVolumes(t)
    <2>1. /\ call[t].stage \notin {"store_cwagent", "query"}
          /\ \E stage \in Stage : Goto(t, stage)
      BY <1>3
      DEF ClearCwagent, ClearVolumes, StampRefresh, StoreVolumes, At, Stage
    <2>2. /\ call' \in [Threads -> Call]
          /\ \A o \in Threads :
               call'[o].stage \notin {"store_cwagent", "query"} =>
                 call'[o].next \in 1 .. Len(CWAGENT)
      BY <1>0, <2>1, GotoType
    <2>3. /\ NoEntry \in Entry /\ NoEntry.ids = {}
          /\ Cached(call[t].volumes) \in Entry
          /\ Cached(call[t].volumes).ids \subseteq Volumes
      BY <1>0, Bounds DEF NoEntry, Entry, Cached, Call
    <2> QED BY <1>0, <1>3, <2>2, <2>3
            DEF ClearCwagent, ClearVolumes, StampRefresh, StoreVolumes,
                CollectionOK, CallsOK, marks
  <1>4. CASE GetVolumes(t)
    <2> DEFINE c == [call[t] EXCEPT !.stage = "cwagent",
                                    !.volumes = volume_cache.ids]
    <2>1. call[t].next \in 1 .. Len(CWAGENT)
      BY <1>0, <1>4 DEF GetVolumes, At
    <2>2. c \in Call /\ c.next \in 1 .. Len(CWAGENT)
      BY <1>0, <2>1 DEF Call, Stage, CallsOK
    <2>3. KeyError(t) \/ (/\ call' = [call EXCEPT ![t] = c]
                          /\ UNCHANGED <<caches, requests, marks>>)
      BY <1>0, <1>4 DEF GetVolumes, CallsOK
    <2> HIDE DEF c
    <2> QED BY <2>2, <2>3, CallType, KeyErrorType DEF CollectionOK, caches, marks
  <1>5. CASE DescribeInstance(t)
    <2> DEFINE c == [call[t] EXCEPT !.stage = "store_volumes",
                                    !.volumes = there \cap Volumes]
               d == [call[t] EXCEPT !.stage = "cwagent", !.unresolved = TRUE]
    <2>1. call[t].next \in 1 .. Len(CWAGENT)
      BY <1>0, <1>5 DEF DescribeInstance, At
    <2>2. /\ c \in Call /\ c.next \in 1 .. Len(CWAGENT)
          /\ d \in Call /\ d.next \in 1 .. Len(CWAGENT)
      BY <1>0, <2>1 DEF Call, Stage
    <2>3. /\ call' = [call EXCEPT ![t] = c] \/ call' = [call EXCEPT ![t] = d]
          /\ UNCHANGED <<caches, requests, marks>>
      BY <1>0, <1>5 DEF DescribeInstance, CallsOK
    <2> HIDE DEF c, d
    <2> QED BY <2>2, <2>3, CallType DEF CollectionOK, caches, marks
  <1>6. CASE GetCwagent(t)
    <2> DEFINE c == [call[t] EXCEPT !.stage = "query",
                                    !.discovered = cwagent_cache.ids]
    <2>1. c \in Call /\ c.stage = "query"
      BY <1>0 DEF Call, Stage, CallsOK
    <2>2. KeyError(t) \/ (/\ call' = [call EXCEPT ![t] = c]
                          /\ UNCHANGED <<caches, requests, marks>>)
      BY <1>0, <1>6 DEF GetCwagent, CallsOK
    <2> HIDE DEF c
    <2> QED BY <2>1, <2>2, CallType, KeyErrorType DEF CollectionOK, caches, marks
  <1>7. CASE ListMetrics(t)
    <2>1. call[t].next \in 1 .. Len(CWAGENT)
      BY <1>0, <1>7 DEF ListMetrics, At
    <2> PICK found \in SUBSET AgentMetrics :
          /\ call' = [call EXCEPT
               ![t].stage = IF call[t].next < Len(CWAGENT)
                            THEN "list_metrics" ELSE "store_cwagent",
               ![t].next = @ + 1, ![t].discovered = @ \cup found]
          /\ UNCHANGED <<caches, requests, overlapped, raised>>
          /\ faults' \in {faults, {now}}
      <3>1. {CWAGENT[call[t].next]} \cap there \subseteq AgentMetrics
        BY <2>1, Bounds
      <3> DEFINE After(found) ==
            [call EXCEPT
               ![t].stage = IF call[t].next < Len(CWAGENT)
                            THEN "list_metrics" ELSE "store_cwagent",
               ![t].next = @ + 1, ![t].discovered = @ \cup found]
      <3>2. /\ \/ call' = After({CWAGENT[call[t].next]} \cap there)
               \/ call' = After({})
            /\ faults' \in {faults, {now}}
            /\ UNCHANGED <<caches, requests, overlapped, raised>>
        BY <1>7 DEF ListMetrics
      <3> HIDE DEF After
      <3>3. \E found \in SUBSET AgentMetrics :
              /\ call' = After(found) /\ faults' \in {faults, {now}}
              /\ UNCHANGED <<caches, requests, overlapped, raised>>
        BY <3>1, <3>2
      <3> QED BY <3>3 DEF After
    <2> DEFINE c == [call[t] EXCEPT
                      !.stage = IF call[t].next < Len(CWAGENT)
                                THEN "list_metrics" ELSE "store_cwagent",
                      !.next = @ + 1, !.discovered = @ \cup found]
    <2>2. /\ c \in Call
          /\ c.stage # "store_cwagent" => c.next \in 1 .. Len(CWAGENT)
      <3>1. call[t].next + 1 \in Nat
            /\ (call[t].next < Len(CWAGENT) =>
                  call[t].next + 1 \in 1 .. Len(CWAGENT))
        BY <2>1, Bounds
      <3>2. call[t].discovered \cup found \in SUBSET AgentMetrics
        BY <1>0 DEF Call
      <3> QED BY <1>0, <3>1, <3>2 DEF Call, Stage
    <2>3. call' = [call EXCEPT ![t] = c]
      BY <1>0 DEF CallsOK
    <2> HIDE DEF c
    <2>4. CallsOK'
      BY <2>2, <2>3, CallType
    <2> QED BY <1>0, <2>4 DEF CollectionOK, caches
  <1>8. CASE StoreCwagent(t)
    <2>1. /\ call' \in [Threads -> Call]
          /\ \A o \in Threads :
               call'[o].stage \notin {"store_cwagent", "query"} =>
                 call'[o].next \in 1 .. Len(CWAGENT)
      BY <1>0, <1>8, GotoType DEF StoreCwagent, Stage
    <2>2. /\ Cached(call[t].discovered) \in Entry
          /\ Cached(call[t].discovered).ids \subseteq AgentMetrics
      BY <1>0, Bounds DEF Entry, Cached, Call
    <2> QED BY <1>0, <1>8, <2>1, <2>2
            DEF StoreCwagent, CollectionOK, CallsOK, marks
  <1>9. CASE GetMetricData(t) \/ Respond(t)
    <2>1. \E c \in Call : /\ call' = [call EXCEPT ![t] = c]
                          /\ c.next \in 1 .. Len(CWAGENT)
      <3>1. \A r : Judge(r) \subseteq DOMAIN FEATURE_THRESHOLDS
        BY DEF Judge, Triggered
      <3>2. \A m, V, A : Over(m, V, A) \subseteq DOMAIN FEATURE_THRESHOLDS
        BY DEF Over
      <3>3. \A m : /\ Possible(t, m) \subseteq DOMAIN FEATURE_THRESHOLDS
                   /\ Certain(t, m) \subseteq DOMAIN FEATURE_THRESHOLDS
        BY <3>2 DEF Possible, Certain
      <3>4. ASSUME NEW a \in SUBSET DOMAIN FEATURE_THRESHOLDS,
                   NEW b \in SUBSET DOMAIN FEATURE_THRESHOLDS,
                   NEW d \in SUBSET DOMAIN FEATURE_THRESHOLDS
            PROVE  LET answer == [NoCall EXCEPT !.stage = "answered"]
                       c == [answer EXCEPT !.triggered = a, !.possible = b,
                                           !.certain = d]
                       e == [answer EXCEPT !.triggered = a]
                   IN /\ c \in Call /\ c.next \in 1 .. Len(CWAGENT)
                      /\ e \in Call /\ e.next \in 1 .. Len(CWAGENT)
        BY Bounds DEF NoCall, Call, Stage
      <3>5. CASE Respond(t)
        BY <3>5, NoCallType DEF Respond
      <3>6. CASE GetMetricData(t)
        <4> DEFINE c(a, b, d) ==
              [[NoCall EXCEPT !.stage = "answered"] EXCEPT
                 !.triggered = a, !.possible = b, !.certain = d]
                   e(a) ==
              [[NoCall EXCEPT !.stage = "answered"] EXCEPT !.triggered = a]
        <4>1. \/ \E m \in Measurements : \E r :
                   call' = [call EXCEPT ![t] =
                             c(Judge(r), Possible(t, m), Certain(t, m))]
              \/ call' = [call EXCEPT ![t] = e(Judge(<<>>))]
          BY <3>6 DEF GetMetricData
        <4> HIDE DEF c, e
        <4>2. \A a, b, d \in SUBSET DOMAIN FEATURE_THRESHOLDS :
                /\ c(a, b, d) \in Call /\ c(a, b, d).next \in 1 .. Len(CWAGENT)
                /\ e(a) \in Call /\ e(a).next \in 1 .. Len(CWAGENT)
          BY <3>4 DEF c, e
        <4> QED BY <3>1, <3>3, <4>1, <4>2
      <3> QED BY <1>9, <3>5, <3>6
    <2>2. CallsOK'
      BY <1>9, <2>1, CallType DEF GetMetricData, Respond
    <2> QED BY <1>9, <2>2 DEF GetMetricData, Respond, CollectionOK, caches, marks
  <1> QED BY <1>1, <1>2, <1>3, <1>4, <1>5, <1>6, <1>7, <1>8, <1>9
          DEF CollectionStep

-----------------------------------------------------------------------------
(* Listings.  PageOK says of a listing under way what ListingIsTrue says   *)
(* of its answer, for the instances of the pages read so far.              *)

Before(page) == UNION {Pages[p] : p \in {q \in DOMAIN Pages : q < page}}

Shown(l, i) == [id |-> i, state |-> ec2[i]] \in l.items

PageOK(l) ==
  /\ l.wanted = IF l.filter = {} THEN _VALID_STATES ELSE l.filter
  /\ l.began <= changes
  /\ \A x \in l.items : x.state \in l.wanted
  /\ \A x, y \in l.items : x.id = y.id => x = y
  /\ l.op \in {"list_instances", "summarize_instances"} =>
       /\ \A x \in l.items : x.id \in Before(l.page)
       /\ \A i \in Before(l.page) :
            Unchanged(i, l) => (Shown(l, i) <=> ec2[i] \in l.wanted)
       /\ l.filter = {} =>
            \A i \in Before(l.page) : \E x \in l.items : x.id = i
       /\ l.ok => Before(l.page) = Instances
  /\ l.op = "summarize_instances" => l.filter = {}
  /\ l.op = "get_instance" /\ l.ok =>
       \A i \in Instances : Unchanged(i, l) => (Shown(l, i) <=> l.id = i)
  /\ l.op = "get_instance" => l.page = 0 /\ l.filter = {}

\* A thread that serves no listing holds NoListing, which is no answer.
ListingOK(l) == IF l.op = "none" THEN l = NoListing ELSE PageOK(l)

ListingInv ==
  /\ listing \in [Listers -> Listing]
  /\ \A t \in Listers : ListingOK(listing[t])
  /\ \A i \in Instances : changed[i] <= changes

LEMMA PagesType ==
  /\ \A p \in DOMAIN Pages : Pages[p] \subseteq Instances /\ p \in Nat \ {0}
  /\ Len(Pages) \in Nat /\ DOMAIN Pages = 1 .. Len(Pages)
  BY CloudAssumption DEF CloudAssumption

LEMMA NoListingType == NoListing \in Listing /\ ListingOK(NoListing)
  BY DEF NoListing, Listing, ListingOK, InventoryOps

LEMMA DescribedType ==
  ASSUME CloudTypeOK, NEW ids \in SUBSET Instances, NEW filter
  PROVE  /\ Described(ids, filter) \in SUBSET Item
         /\ \A x \in Described(ids, filter) :
              /\ x.id \in ids /\ x.state = ec2[x.id]
              /\ filter = {} \/ x.state \in filter
         /\ \A i \in ids : [id |-> i, state |-> ec2[i]] \in Described(ids, filter)
                              <=> filter = {} \/ ec2[i] \in filter
  <1> DEFINE D == Described(ids, filter)
  <1>1. \A x : x \in D <=>
          \E j \in ids : /\ filter = {} \/ ec2[j] \in filter
                        /\ x = [id |-> j, state |-> ec2[j]]
    BY DEF Described
  <1> HIDE DEF D
  <1>2. \A j \in ids : ec2[j] \in _VALID_STATES
    BY DEF CloudTypeOK
  <1>3. D \in SUBSET Item
    BY <1>1, <1>2 DEF Item
  <1>4. \A x \in D : /\ x.id \in ids /\ x.state = ec2[x.id]
                     /\ filter = {} \/ x.state \in filter
    BY <1>1
  <1>5. ASSUME NEW i \in ids
        PROVE  [id |-> i, state |-> ec2[i]] \in D
                 <=> filter = {} \/ ec2[i] \in filter
    <2>1. ASSUME NEW j \in ids,
                 [id |-> i, state |-> ec2[i]] = [id |-> j, state |-> ec2[j]]
          PROVE  i = j
      <3>1. [id |-> i, state |-> ec2[i]].id = [id |-> j, state |-> ec2[j]].id
        BY <2>1
      <3> QED BY <3>1
    <2> QED BY <1>1, <2>1
  <1> QED BY <1>3, <1>4, <1>5 DEF D

LEMMA ListType ==
  ASSUME ListingInv, NEW t \in Listers, NEW l \in Listing, ListingOK(l),
         List(t, l)
  PROVE  ListingInv'
  BY DEF ListingInv, List, cloud, ListingOK, PageOK, Unchanged, Shown

LEMMA AskedType ==
  ASSUME CloudTypeOK, NEW op \in InventoryOps
  PROVE  /\ Asked(op) \in Listing
         /\ Asked(op).op = op /\ Asked(op).filter = {} /\ Asked(op).page = 0
         /\ Asked(op).items = {} /\ Asked(op).wanted = _VALID_STATES
         /\ Asked(op).began = changes
         /\ ~Asked(op).ok
  <1>1. changes \in Nat /\ NoListing \in Listing
    BY NoListingType DEF CloudTypeOK
  <1>2. Asked(op) \in Listing
    BY <1>1 DEF Asked, Listing
  <1>3. /\ Asked(op).op = op /\ Asked(op).wanted = _VALID_STATES
        /\ Asked(op).began = changes /\ Asked(op).filter = NoListing.filter
        /\ Asked(op).page = NoListing.page
        /\ Asked(op).items = NoListing.items /\ Asked(op).ok = NoListing.ok
    BY <1>1 DEF Asked, Listing
  <1> QED BY <1>2, <1>3 DEF NoListing

\* What a request asks for before the first page is read.
LEMMA RequestType ==
  ASSUME CloudTypeOK, ListingInv, NEW t \in Listers, InventoryRequest(t)
  PROVE  ListingInv'
  <1>0. /\ "list_instances" \in InventoryOps
        /\ "summarize_instances" \in InventoryOps
        /\ "get_instance" \in InventoryOps
    BY DEF InventoryOps
  <1>1. ASSUME NEW op \in {"list_instances", "summarize_instances"},
               NEW l \in Listing, l.op = op, l.page = 1, l.items = {}, ~l.ok,
               l.wanted = IF l.filter = {} THEN _VALID_STATES ELSE l.filter,
               l.op = "summarize_instances" => l.filter = {},
               l.began = changes, List(t, l)
        PROVE  ListingInv'
    <2>1. changes \in Nat /\ Before(1) = {}
      BY PagesType DEF CloudTypeOK, Before
    <2>2. ListingOK(l)
      BY <1>1, <2>1 DEF ListingOK, PageOK
    <2> QED BY <1>1, <2>2, ListType
  <1>2. CASE RequestList(t)
    <2> PICK states \in StateQueries :
          \/ /\ Normalized(states) \subseteq _VALID_STATES
             /\ List(t, [Asked("list_instances") EXCEPT
                          !.filter = Normalized(states), !.page = 1,
                          !.wanted = Wanted(states)])
          \/ List(t, NoListing)
      BY <1>2 DEF RequestList
    <2>1. ASSUME Normalized(states) \subseteq _VALID_STATES
          PROVE  Wanted(states) = IF Normalized(states) = {}
                                  THEN _VALID_STATES ELSE Normalized(states)
      <3>1. {s \in _VALID_STATES : \E n \in states : Cleaned[n] = s}
              = Normalized(states)
        BY <2>1 DEF Normalized, _VALID_STATES
      <3> QED BY <3>1 DEF Wanted
    <2>2. ASSUME NEW a \in Listing, a = Asked("list_instances"),
                 NEW filter, filter \subseteq _VALID_STATES,
                 NEW wanted, wanted = IF filter = {} THEN _VALID_STATES
                                      ELSE filter,
                 List(t, [a EXCEPT !.filter = filter, !.page = 1,
                                   !.wanted = wanted])
          PROVE  ListingInv'
      <3> DEFINE l == [a EXCEPT !.filter = filter, !.page = 1,
                                !.wanted = wanted]
      <3>1. /\ l \in Listing /\ l.op = a.op /\ l.page = 1 /\ l.items = a.items
            /\ l.ok = a.ok /\ l.filter = filter /\ l.wanted = wanted
            /\ l.began = a.began
        BY <2>2 DEF Listing
      <3>2. /\ a.op = "list_instances" /\ a.items = {} /\ ~a.ok
            /\ a.began = changes
        BY <1>0, <2>2, AskedType
      <3>3. List(t, l)
        BY <2>2
      <3> HIDE DEF l
      <3> QED BY <1>1, <2>2, <3>1, <3>2, <3>3
    <2> QED BY <1>0, <2>1, <2>2, AskedType, NoListingType, ListType
  <1>3. CASE RequestSummary(t)
    <2> PICK a \in Listing : a = Asked("summarize_instances")
      BY <1>0, AskedType
    <2> DEFINE l == [a EXCEPT !.page = 1]
    <2>1. /\ l \in Listing /\ l.op = a.op /\ l.page = 1 /\ l.items = a.items
          /\ l.ok = a.ok /\ l.filter = a.filter /\ l.wanted = a.wanted
          /\ l.began = a.began
      BY DEF Listing
    <2>2. /\ a.op = "summarize_instances" /\ a.items = {} /\ ~a.ok
          /\ a.began = changes /\ a.filter = {} /\ a.wanted = _VALID_STATES
      BY <1>0, AskedType
    <2>3. List(t, l)
      BY <1>3 DEF RequestSummary
    <2> HIDE DEF l
    <2> QED BY <1>1, <2>1, <2>2, <2>3
  <1>4. CASE RequestInstance(t)
    <2> PICK id \in Instances \cup {UnknownId} :
          List(t, [Asked("get_instance") EXCEPT !.id = id])
      BY <1>4 DEF RequestInstance
    <2> PICK a \in Listing : a = Asked("get_instance")
      BY <1>0, AskedType
    <2> DEFINE l == [a EXCEPT !.id = id]
    <2>1. /\ l \in Listing /\ l.op = a.op /\ l.page = a.page
          /\ l.items = a.items /\ l.ok = a.ok /\ l.filter = a.filter
          /\ l.wanted = a.wanted /\ l.began = a.began
      BY DEF Listing
    <2>2. /\ a.op = "get_instance" /\ a.items = {} /\ ~a.ok /\ a.page = 0
          /\ a.began = changes /\ a.filter = {} /\ a.wanted = _VALID_STATES
      BY <1>0, AskedType
    <2>3. List(t, l)
      OBVIOUS
    <2> HIDE DEF l
    <2>4. ListingOK(l)
      BY <2>1, <2>2 DEF ListingOK, PageOK, CloudTypeOK
    <2> QED BY <2>1, <2>3, <2>4, ListType
  <1> QED BY <1>2, <1>3, <1>4 DEF InventoryRequest

LEMMA BeforeNext ==
  ASSUME NEW p \in DOMAIN Pages
  PROVE  /\ Before(p + 1) = Before(p) \cup Pages[p]
         /\ Before(p) \cap Pages[p] = {} /\ Before(p) \subseteq Instances
         /\ p = Len(Pages) => Before(p + 1) = Instances
  <1>1. \A q \in DOMAIN Pages : q < p + 1 <=> q < p \/ q = p
    BY PagesType
  <1>2. Before(p + 1) = Before(p) \cup Pages[p]
    BY <1>1 DEF Before
  <1>3. Before(p) \cap Pages[p] = {} /\ Before(p) \subseteq Instances
    BY PagesType, CloudAssumption DEF Before, CloudAssumption
  <1>4. ASSUME p = Len(Pages) PROVE Before(p + 1) = Instances
    <2>1. \A q \in DOMAIN Pages : q < p + 1
      BY <1>4, PagesType
    <2> QED BY <2>1, PagesType, CloudAssumption DEF Before, CloudAssumption
  <1> QED BY <1>2, <1>3, <1>4

\* A page more: its instances are told as they are now, the others stay.
LEMMA PageType ==
  ASSUME CloudTypeOK, ListingInv, NEW t \in Listers, FetchPage(t)
  PROVE  ListingInv'
  <1> PICK l : l = listing[t]
    OBVIOUS
  <1>0. l \in Listing /\ ListingOK(l) /\ l.page \in DOMAIN Pages /\ ~l.ok
    BY DEF ListingInv, FetchPage
  <1> PICK p \in DOMAIN Pages : p = l.page
    BY <1>0
  <1> DEFINE D == Described(Pages[p], l.filter)
             read == [l EXCEPT !.page = p + 1, !.items = @ \cup D]
             last == [read EXCEPT !.ok = TRUE]
  <1>1. l.op \in {"list_instances", "summarize_instances"} /\ PageOK(l)
    <2>1. p # 0 /\ l.op \in InventoryOps \cup {"none"}
      BY <1>0, PagesType DEF Listing
    <2>2. l.op # "none"
      BY <1>0, <2>1 DEF ListingOK, NoListing
    <2> QED BY <1>0, <2>1, <2>2 DEF ListingOK, PageOK, InventoryOps
  <1>2. /\ D \in SUBSET Item
        /\ \A x \in D : /\ x.id \in Pages[p] /\ x.state = ec2[x.id]
                        /\ l.filter = {} \/ x.state \in l.filter
        /\ \A i \in Pages[p] : [id |-> i, state |-> ec2[i]] \in D
                                 <=> l.filter = {} \/ ec2[i] \in l.filter
    BY PagesType, DescribedType
  <1>3. \A i \in Pages[p] : ec2[i] \in _VALID_STATES
    BY PagesType DEF CloudTypeOK
  <1>4. p + 1 \in Nat
    BY PagesType
  <1> HIDE DEF D
  <1>5. /\ read \in Listing /\ read.op = l.op /\ read.filter = l.filter
        /\ read.wanted = l.wanted /\ read.began = l.began /\ read.ok = l.ok
        /\ read.page = p + 1 /\ read.items = l.items \cup D
    <2>1. l.items \cup D \in SUBSET Item
      BY <1>0, <1>2 DEF Listing
    <2> QED BY <1>0, <1>4, <2>1 DEF Listing
  <1> HIDE DEF read
  <1>6. /\ last \in Listing /\ last.op = read.op /\ last.filter = read.filter
        /\ last.wanted = read.wanted /\ last.began = read.began
        /\ last.page = read.page /\ last.items = read.items
    BY <1>5 DEF Listing
  <1> HIDE DEF last
  <1>7. \/ List(t, last) /\ p = Len(Pages)
        \/ List(t, read)
        \/ List(t, NoListing)
    BY <1>0 DEF FetchPage, Answer, D, read, last
  <1>8. ASSUME NEW r \in {read, last}, r.ok => p = Len(Pages)
        PROVE  ListingOK(r)
    <2>0. /\ r.op = l.op /\ r.filter = l.filter /\ r.wanted = l.wanted
          /\ r.began = l.began /\ r.page = p + 1 /\ r.items = l.items \cup D
      BY <1>5, <1>6
    <2>1. \A x \in r.items : x.state \in r.wanted
      BY <1>1, <1>2, <1>3, <2>0 DEF PageOK
    <2>2. \A x \in r.items : x.id \in Before(p + 1)
      BY <1>1, <1>2, <2>0, BeforeNext DEF PageOK
    <2>3. \A x, y \in r.items : x.id = y.id => x = y
      <3>1. \A x, y \in D : x.id = y.id => x = y
        BY <1>2 DEF Item
      <3>2. \A x \in l.items : x.id \notin Pages[p]
        BY <1>1, BeforeNext DEF PageOK
      <3> QED BY <1>1, <1>2, <2>0, <3>1, <3>2 DEF PageOK
    <2>4. ASSUME NEW i \in Before(p + 1), Unchanged(i, r)
          PROVE  Shown(r, i) <=> ec2[i] \in r.wanted
      <3> PICK x : x = [id |-> i, state |-> ec2[i]]
        OBVIOUS
      <3>1. x.id = i
        OBVIOUS
      <3>2. CASE i \in Pages[p]
        <4>1. x \notin l.items
          BY <1>1, <3>1, <3>2, BeforeNext DEF PageOK
        <4> QED BY <1>1, <1>2, <1>3, <2>0, <3>2, <4>1 DEF Shown, PageOK
      <3>3. CASE i \in Before(p) /\ i \notin Pages[p]
        <4>1. x \notin D
          BY <1>2, <3>1, <3>3
        <4>2. Unchanged(i, l)
          BY <2>0, <2>4 DEF Unchanged
        <4> QED BY <1>1, <2>0, <3>3, <4>1, <4>2 DEF Shown, PageOK
      <3> QED BY <3>2, <3>3, BeforeNext
    <2>5. r.ok => Before(r.page) = Instances
      BY <2>0, <1>8, BeforeNext
    <2>6. r.op # "none" /\ r.op # "get_instance"
      BY <1>1, <2>0
    <2>7. ASSUME r.filter = {}, NEW i \in Before(p + 1)
          PROVE  \E x \in r.items : x.id = i
      <3>1. CASE i \in Pages[p]
        <4>1. [id |-> i, state |-> ec2[i]] \in r.items
          BY <1>2, <2>0, <2>7, <3>1
        <4> QED BY <4>1
      <3>2. CASE i \in Before(p)
        BY <1>1, <2>0, <2>7, <3>2 DEF PageOK
      <3> QED BY <3>1, <3>2, BeforeNext
    <2> QED BY <1>1, <2>0, <2>1, <2>2, <2>3, <2>4, <2>5, <2>6, <2>7
            DEF ListingOK, PageOK
  <1>9. read \in Listing /\ ListingOK(read)
    BY <1>0, <1>5, <1>8
  <1>10. p = Len(Pages) => last \in Listing /\ ListingOK(last)
    BY <1>6, <1>8
  <1> QED BY <1>7, <1>9, <1>10, NoListingType, ListType

LEMMA InstanceType ==
  ASSUME CloudTypeOK, ListingInv, NEW t \in Listers, GetInstance(t)
  PROVE  ListingInv'
  <1> PICK l : l = listing[t]
    OBVIOUS
  <1>0. l \in Listing /\ ListingOK(l) /\ l.op = "get_instance"
    BY DEF ListingInv, GetInstance
  <1>1. CASE List(t, NoListing)
    BY <1>1, NoListingType, ListType
  <1>2. CASE l.id \in Instances
             /\ List(t, Answer([l EXCEPT !.items = Described({l.id}, {})]))
    <2> DEFINE D == Described({l.id}, {})
               r == [[l EXCEPT !.items = D] EXCEPT !.ok = TRUE]
    <2>1. /\ D \in SUBSET Item
          /\ \A x \in D : x.id = l.id /\ x.state = ec2[x.id]
          /\ [id |-> l.id, state |-> ec2[l.id]] \in D
      BY <1>2, DescribedType
    <2>2. List(t, r)
      BY <1>2 DEF Answer
    <2> HIDE DEF D
    <2>3. /\ r \in Listing /\ r.op = l.op /\ r.filter = l.filter
          /\ r.wanted = l.wanted /\ r.began = l.began /\ r.id = l.id
          /\ r.page = l.page /\ r.items = D
      BY <1>0, <2>1 DEF Listing
    <2> HIDE DEF r
    <2>4. l.wanted = _VALID_STATES /\ ec2[l.id] \in _VALID_STATES
      BY <1>0, <1>2 DEF ListingOK, PageOK, CloudTypeOK
    <2>5. \A x, y \in D : x = y
      BY <2>1 DEF Item
    <2>6. \A i \in Instances : Shown(r, i) <=> i = r.id
      <3> SUFFICES ASSUME NEW i \in Instances
                   PROVE  [id |-> i, state |-> ec2[i]] \in D <=> i = l.id
        BY <2>3 DEF Shown
      <3>1. [id |-> i, state |-> ec2[i]].id = i
        OBVIOUS
      <3> QED BY <2>1, <3>1
    <2>7. ListingOK(r)
      BY <1>0, <2>1, <2>3, <2>4, <2>5, <2>6 DEF ListingOK, PageOK
    <2> QED BY <2>2, <2>3, <2>7, ListType
  <1> QED BY <1>1, <1>2 DEF GetInstance

\* An instance that changes is no longer Unchanged, and the others are as
\* they were.
LEMMA ChangeType ==
  ASSUME CloudTypeOK, ListingInv, CloudChange, UNCHANGED listing
  PROVE  CloudTypeOK' /\ ListingInv'
  <1>0. changes \in Nat /\ changes' = changes + 1 /\ now \in Nat
    BY DEF CloudTypeOK, CloudChange
  <1> DEFINE Told == \A i \in Instances :
                       \/ changed'[i] = changed[i] /\ ec2'[i] = ec2[i]
                       \/ changed'[i] = changes'
  <1>1. CloudTypeOK' /\ Told
    <2>1. ASSUME NEW r \in Resources, Appear(r) \/ Disappear(r)
          PROVE  CloudTypeOK' /\ Told
      BY <1>0, <2>1 DEF CloudTypeOK, Appear, Disappear
    <2>2. ASSUME NEW i \in Instances, ChangeState(i)
          PROVE  CloudTypeOK' /\ Told
      <3>1. PICK s \in {"running", "stopped"} : ec2' = [ec2 EXCEPT ![i] = s]
        BY <2>2 DEF ChangeState
      <3> QED BY <1>0, <2>2, <3>1 DEF CloudTypeOK, ChangeState, _VALID_STATES
    <2> QED BY <2>1, <2>2 DEF CloudChange
  <1>2. \A i \in Instances : changed'[i] <= changes'
    BY <1>0, <1>1 DEF ListingInv, CloudTypeOK
  <1>3. ASSUME NEW l \in Listing, ListingOK(l) PROVE ListingOK(l)'
    <2>1. CASE l.op = "none"
      BY <1>3, <2>1 DEF ListingOK
    <2>2. CASE l.op # "none"
      <3>1. PageOK(l) /\ l.began \in Nat /\ l.began < changes'
        BY <1>0, <1>3, <2>2 DEF ListingOK, PageOK, Listing
      <3>2. \A i \in Instances : Unchanged(i, l)' =>
              Unchanged(i, l) /\ ec2'[i] = ec2[i] /\ Shown(l, i)' = Shown(l, i)
        BY <1>0, <1>1, <3>1 DEF Unchanged, Shown
      <3>3. Before(l.page) \subseteq Instances
        BY PagesType DEF Before
      <3> QED BY <1>0, <2>2, <3>1, <3>2, <3>3 DEF ListingOK, PageOK
    <2> QED BY <2>1, <2>2
  <1> QED BY <1>1, <1>2, <1>3 DEF ListingInv

-----------------------------------------------------------------------------
(* The steps of the whole                                                  *)

LEMMA TypeInit == Init => TypeInv /\ ListingInv
  <1> SUFFICES ASSUME Init PROVE TypeInv /\ ListingInv
    OBVIOUS
  <1> USE DEF Init
  <1>1. CloudTypeOK
    BY DEF CloudInit, CloudTypeOK, _VALID_STATES
  <1>2. CollectionOK
    BY NoCallType DEF CacheInit, CollectionOK, CallsOK, NoEntry, Entry
  <1>3. ListingInv
    BY NoListingType DEF InventoryInit, CloudInit, ListingInv
  <1> QED BY <1>1, <1>2, <1>3, OneThreadPool DEF TypeInv, ListingInv

LEMMA InventoryStepType ==
  ASSUME CloudTypeOK, ListingInv, NEW t \in Listers, InventoryStep(t)
  PROVE  ListingInv'
  <1>1. CASE FetchPage(t)
    BY <1>1, PageType
  <1>2. CASE GetInstance(t)
    BY <1>2, InstanceType
  <1>3. CASE AnswerListing(t)
    BY <1>3, NoListingType, ListType DEF AnswerListing
  <1> QED BY <1>1, <1>2, <1>3 DEF InventoryStep

\* Nothing a listing is judged by has changed.
LEMMA ListingStays ==
  ASSUME ListingInv, UNCHANGED <<listing, ec2, changes, changed>>
  PROVE  ListingInv'
  BY DEF ListingInv, ListingOK, PageOK, Unchanged, Shown

LEMMA InventoryCloud ==
  ASSUME NEW t, InventoryRequest(t) \/ InventoryStep(t)
  PROVE  UNCHANGED cloud
  BY DEF InventoryRequest, InventoryStep, RequestList, RequestSummary,
         RequestInstance, FetchPage, GetInstance, AnswerListing, List

LEMMA TypeNext ==
  ASSUME TypeInv, ListingInv, [Next]_vars
  PROVE  TypeInv' /\ ListingInv'
  <1>0. CloudTypeOK /\ CollectionOK /\ Listers = Threads
    BY OneThreadPool DEF TypeInv
  <1>1. CASE \E t \in Threads : Collection(t)
    <2> PICK t \in Threads : Collection(t)
      BY <1>1
    <2>1. UNCHANGED <<cloud, listing>> /\ (Collect(t) \/ CollectionStep(t))
      BY DEF Collection
    <2>2. CollectionOK'
      BY <1>0, <2>1, CollectionType
    <2>3. ListingInv' /\ CloudTypeOK'
      BY <1>0, <2>1, ListingStays DEF cloud, CloudTypeOK
    <2> QED BY <1>0, <2>2, <2>3 DEF TypeInv, ListingInv
  <1>2. CASE \E t \in Threads : Inventory(t)
    <2> PICK t \in Threads : Inventory(t)
      BY <1>2
    <2>1. /\ InventoryRequest(t) \/ InventoryStep(t)
          /\ UNCHANGED <<caches, call, marks>>
          /\ requests' = requests \/ requests' = requests + Len(Pages)
      BY DEF Inventory, collection
    <2>2. UNCHANGED cloud
      BY <2>1, InventoryCloud
    <2>3. CollectionOK'
      BY <1>0, <2>1, PagesType DEF CollectionOK, CallsOK, caches, marks
    <2>4. ListingInv'
      BY <1>0, <2>1, RequestType, InventoryStepType
    <2> QED BY <1>0, <2>2, <2>3, <2>4
            DEF TypeInv, ListingInv, cloud, CloudTypeOK
  <1>3. CASE CloudChange /\ UNCHANGED <<collection, listing>>
    <2>1. CloudTypeOK' /\ ListingInv'
      BY <1>0, <1>3, ChangeType
    <2>2. CollectionOK'
      BY <1>0, <1>3 DEF CollectionOK, CallsOK, collection, caches, marks
    <2> QED BY <1>0, <2>1, <2>2 DEF TypeInv, ListingInv
  <1>4. CASE Tick \/ Quiet \/ UNCHANGED vars
    <2>1. /\ now' \in Nat
          /\ UNCHANGED <<there, ec2, changes, since, changed, collection,
                         listing>>
      BY <1>0, <1>4 DEF Tick, Quiet, vars, cloud, CloudTypeOK
    <2>2. CollectionOK'
      BY <1>0, <2>1 DEF CollectionOK, CallsOK, collection, caches, marks
    <2>3. ListingInv' /\ CloudTypeOK'
      BY <1>0, <2>1, ListingStays DEF CloudTypeOK
    <2> QED BY <1>0, <2>2, <2>3 DEF TypeInv, ListingInv
  <1> QED BY <1>1, <1>2, <1>3, <1>4 DEF Next

LEMMA TypeHolds == Spec => [](TypeInv /\ ListingInv)
  <1>1. TypeInv /\ ListingInv /\ [Next]_vars => (TypeInv /\ ListingInv)'
    BY TypeNext
  <1> QED BY <1>1, TypeInit, PTL DEF Spec

\* Whatever the number of threads, volumes, metrics, instances and pages,
\* every variable keeps its type: what a cache holds are resources, and what a
\* listing asks EC2 for are states that exist (_normalize_states).
THEOREM TypeCorrect == Spec => []TypeOK
  <1>1. TypeInv => TypeOK
    BY DEF TypeInv, CollectionOK, CallsOK, TypeOK
  <1> QED BY <1>1, TypeHolds, PTL

\* Read page by page while instances change, a successful answer of
\* list_instances, summarize_instances and get_instance is right about every
\* instance that did not change since the request began.
THEOREM ListingIsRight == Spec => []ListingIsTrue
  <1>1. TypeInv /\ ListingInv => ListingIsTrue
    <2> SUFFICES ASSUME TypeInv, ListingInv, NEW t \in Listers, listing[t].ok
                 PROVE  /\ \A x, y \in listing[t].items : x.id = y.id => x = y
                        /\ \A x \in listing[t].items :
                             x.state \in listing[t].wanted
                        /\ \A i \in Instances : Unchanged(i, listing[t]) =>
                             ([id |-> i, state |-> ec2[i]] \in listing[t].items
                                <=> /\ ec2[i] \in listing[t].wanted
                                    /\ listing[t].op = "get_instance" =>
                                         listing[t].id = i)
      BY DEF ListingIsTrue
    <2> PICK l : l = listing[t]
      OBVIOUS
    <2>1. l \in Listing /\ ListingOK(l) /\ l.ok
      BY DEF ListingInv
    <2>2. l.op # "none" /\ PageOK(l)
      BY <2>1 DEF ListingOK, NoListing
    <2>3. \A i \in Instances : ec2[i] \in _VALID_STATES
      BY DEF TypeInv, CloudTypeOK
    <2>4. CASE l.op = "get_instance"
      BY <2>1, <2>2, <2>3, <2>4 DEF PageOK, Shown
    <2>5. CASE l.op \in {"list_instances", "summarize_instances"}
      BY <2>1, <2>2, <2>5 DEF PageOK, Shown
    <2> QED BY <2>1, <2>2, <2>4, <2>5 DEF Listing, InventoryOps
  <1> QED BY <1>1, TypeHolds, PTL

-----------------------------------------------------------------------------
(* Summaries.  An answer has one item for each instance; the counters are  *)
(* the sizes of a partition of it.                                         *)

InState(items, s) == {x \in items : x.state = s}
InStates(items, T) == {x \in items : x.state \in T}

Complete(items) ==
  /\ items \subseteq Item
  /\ \A x, y \in items : x.id = y.id => x = y
  /\ \A i \in Instances : \E x \in items : x.id = i

LEMMA CompleteSize ==
  ASSUME NEW items, Complete(items)
  PROVE  /\ IsFiniteSet(items) /\ Cardinality(items) = Cardinality(Instances)
  <1> DEFINE f == [i \in Instances |-> CHOOSE x \in items : x.id = i]
  <1>1. \A i \in Instances : f[i] \in items /\ f[i].id = i
    BY DEF Complete
  <1>2. \A x \in items : x.id \in Instances
    BY DEF Complete, Item
  <1>3. f \in Bijection(Instances, items)
    <2>1. f \in [Instances -> items]
      BY <1>1
    <2>2. \A i, j \in Instances : f[i] = f[j] => i = j
      BY <1>1
    <2>3. \A x \in items : \E i \in Instances : f[i] = x
      <3> SUFFICES ASSUME NEW x \in items PROVE f[x.id] = x
        BY <1>2
      <3> HIDE DEF f
      <3> QED BY <1>1, <1>2 DEF Complete
    <2> HIDE DEF f
    <2> QED BY <2>1, <2>2, <2>3
            DEF Bijection, Injection, Surjection, IsInjective
  <1>4. IsFiniteSet(Instances) /\ ExistsBijection(Instances, items)
    BY <1>3, CloudAssumption, Zenon DEF ExistsBijection, CloudAssumption
  <1> QED BY <1>4, FS_Bijection

LEMMA StatesFinite == IsFiniteSet(_VALID_STATES)
  <1>1. \A S, x : IsFiniteSet(S) => IsFiniteSet(S \cup {x})
    BY FS_AddElement
  <1>2. IsFiniteSet({})
    BY FS_EmptySet
  <1>3. _VALID_STATES =
          (((((({} \cup {"pending"}) \cup {"running"}) \cup {"shutting-down"})
               \cup {"terminated"}) \cup {"stopping"}) \cup {"stopped"})
    BY DEF _VALID_STATES
  <1> QED BY <1>1, <1>2, <1>3

\* What the counters add up to.
LEMMA CountersSum ==
  ASSUME NEW items, items \subseteq Item, IsFiniteSet(items),
         NEW counted,
         \A s \in _VALID_STATES :
           counted[s] = Cardinality(InState(items, s))
  PROVE  SumFunctionOnSet(counted, _VALID_STATES) = Cardinality(items)
  <1> PICK h : h = [T \in SUBSET _VALID_STATES |->
                      Cardinality(InStates(items, T))]
    OBVIOUS
  <1>1. \A T : /\ IsFiniteSet(InStates(items, T))
               /\ Cardinality(InStates(items, T)) \in Nat
    <2> SUFFICES ASSUME NEW T
                 PROVE  /\ IsFiniteSet(InStates(items, T))
                        /\ Cardinality(InStates(items, T)) \in Nat
      OBVIOUS
    <2>1. InStates(items, T) \in SUBSET items
      BY DEF InStates
    <2> QED BY <2>1, FS_Subset, FS_CardinalityType
  <1>2. h[{}] = 0
    <2>1. InStates(items, {}) = {}
      BY DEF InStates
    <2> QED BY <2>1, FS_EmptySet
  <1>3. ASSUME NEW T \in SUBSET _VALID_STATES, NEW s \in T
        PROVE  h[T] = counted[s] + h[T \ {s}]
    <2> PICK A : A = InStates(items, {s})
      OBVIOUS
    <2> PICK B : B = InStates(items, T \ {s})
      OBVIOUS
    <2>1. /\ A = InState(items, s) /\ A \cap B = {}
          /\ A \cup B = InStates(items, T)
      BY DEF InStates, InState
    <2>2. Cardinality(A \cap B) = 0
      BY <2>1, FS_EmptySet
    <2>3. Cardinality(A \cup B)
            = Cardinality(A) + Cardinality(B) - Cardinality(A \cap B)
      BY <1>1, FS_Union
    <2>4. counted[s] = Cardinality(A) /\ h[T \ {s}] = Cardinality(B)
      BY <2>1
    <2>5. Cardinality(A) \in Nat /\ Cardinality(B) \in Nat
      BY <1>1
    <2>6. h[T] = Cardinality(A \cup B)
      BY <2>1
    <2> QED BY <2>2, <2>3, <2>4, <2>5, <2>6
  <1>4. Sums(counted, _VALID_STATES, h)
    BY <1>1, <1>2, <1>3 DEF Sums
  <1>5. InStates(items, _VALID_STATES) = items
    BY DEF InStates, Item
  <1> QED BY <1>4, <1>5, StatesFinite, SumIs

\* A counter is no less than the instances that kept the state, and exceeds
\* them by no more than those that moved.
LEMMA CounterBounds ==
  ASSUME NEW items, Complete(items), NEW s \in _VALID_STATES,
         NEW kept, kept \subseteq Instances,
         \A i \in kept : [id |-> i, state |-> s] \in items,
         NEW moved, moved \subseteq Instances,
         \A x \in items : x.state = s => x.id \in kept \cup moved
  PROVE  /\ Cardinality(kept) <= Cardinality(InState(items, s))
         /\ Cardinality(InState(items, s))
              <= Cardinality(kept) + Cardinality(moved)
  <1>0. /\ IsFiniteSet(kept) /\ IsFiniteSet(moved)
        /\ IsFiniteSet(InState(items, s))
    <2>1. IsFiniteSet(Instances) /\ InState(items, s) \in SUBSET items
      BY CloudAssumption DEF CloudAssumption, InState
    <2> QED BY <2>1, CompleteSize, FS_Subset
  <1>1. Cardinality(kept) <= Cardinality(InState(items, s))
    <2> DEFINE f == [i \in kept |-> [id |-> i, state |-> s]]
    <2>1. f \in [kept -> InState(items, s)]
      BY DEF InState
    <2>2. \A i, j \in kept : f[i] = f[j] => i = j
      <3> SUFFICES ASSUME NEW i \in kept, NEW j \in kept, f[i] = f[j]
                   PROVE  i = j
        OBVIOUS
      <3>1. f[i].id = i /\ f[j].id = j
        OBVIOUS
      <3> HIDE DEF f
      <3> QED BY <3>1
    <2> HIDE DEF f
    <2>3. f \in Injection(kept, InState(items, s))
      BY <2>1, <2>2 DEF Injection, IsInjective
    <2> QED BY <1>0, <2>3, FS_Injection
  <1>2. Cardinality(InState(items, s)) <= Cardinality(kept \cup moved)
    <2> DEFINE f == [x \in InState(items, s) |-> x.id]
    <2>1. f \in [InState(items, s) -> kept \cup moved]
      BY DEF InState
    <2>2. \A x, y \in InState(items, s) : f[x] = f[y] => x = y
      BY DEF InState, Complete
    <2> HIDE DEF f
    <2>3. f \in Injection(InState(items, s), kept \cup moved)
      BY <2>1, <2>2 DEF Injection, IsInjective
    <2>4. IsFiniteSet(kept \cup moved)
      BY <1>0, FS_Union
    <2> QED BY <2>3, <2>4, FS_Injection
  <1>3. Cardinality(kept \cup moved) <= Cardinality(kept) + Cardinality(moved)
    <2>1. IsFiniteSet(kept \cap moved)
      BY <1>0, FS_Subset
    <2>2. Cardinality(kept \cup moved)
            = Cardinality(kept) + Cardinality(moved)
                - Cardinality(kept \cap moved)
      BY <1>0, FS_Union
    <2>3. /\ Cardinality(kept) \in Nat /\ Cardinality(moved) \in Nat
          /\ Cardinality(kept \cap moved) \in Nat
      BY <1>0, <2>1, FS_CardinalityType
    <2> QED BY <2>2, <2>3
  <1>4. /\ Cardinality(kept) \in Nat /\ Cardinality(moved) \in Nat
        /\ Cardinality(InState(items, s)) \in Nat
        /\ Cardinality(kept \cup moved) \in Nat
    <2>1. IsFiniteSet(kept \cup moved)
      BY <1>0, FS_Union
    <2> QED BY <1>0, <2>1, FS_CardinalityType
  <1> QED BY <1>1, <1>2, <1>3, <1>4

\* A summary over any number of pages counts every instance once, none that
\* kept its state elsewhere, and in all as many as there are
\* (summarize_instances).
THEOREM SummaryIsRight == Spec => []SummaryIsTrue
  <1>1. TypeInv /\ ListingInv => SummaryIsTrue
    <2> SUFFICES ASSUME TypeInv, ListingInv, NEW t \in Listers,
                        listing[t].op = "summarize_instances", listing[t].ok
                 PROVE  LET l == listing[t]
                            count == CountByState(l.items)
                            counted == [s \in _VALID_STATES |->
                              IF s \in DOMAIN count THEN count[s] ELSE 0]
                            kept(s) == {i \in Instances :
                                          Unchanged(i, l) /\ ec2[i] = s}
                            moved == {i \in Instances : ~Unchanged(i, l)}
                        IN /\ \A s \in _VALID_STATES :
                                /\ counted[s] >= Cardinality(kept(s))
                                /\ counted[s] <= Cardinality(kept(s))
                                                   + Cardinality(moved)
                           /\ SumFunctionOnSet(counted, _VALID_STATES)
                                = Cardinality(Instances)
      BY DEF SummaryIsTrue
    <2> PICK l : l = listing[t]
      OBVIOUS
    <2> DEFINE count == CountByState(l.items)
               counted == [s \in _VALID_STATES |->
                             IF s \in DOMAIN count THEN count[s] ELSE 0]
               kept(s) == {i \in Instances : Unchanged(i, l) /\ ec2[i] = s}
               moved == {i \in Instances : ~Unchanged(i, l)}
    <2>1. l \in Listing /\ l.op = "summarize_instances" /\ l.ok /\ PageOK(l)
      BY DEF ListingInv, ListingOK
    <2>2. /\ Complete(l.items) /\ l.wanted = _VALID_STATES
          /\ \A i \in Instances : Unchanged(i, l) =>
               ([id |-> i, state |-> ec2[i]] \in l.items
                  <=> ec2[i] \in l.wanted)
      BY <2>1 DEF PageOK, Complete, Listing, Shown
    <2>3. \A i \in Instances : ec2[i] \in _VALID_STATES
      BY DEF TypeInv, CloudTypeOK
    <2>4. ASSUME NEW s \in _VALID_STATES
          PROVE  counted[s] = Cardinality(InState(l.items, s))
      <3>1. CASE s \in {x.state : x \in l.items}
        BY <3>1 DEF CountByState, InState
      <3>2. CASE s \notin {x.state : x \in l.items}
        <4>1. InState(l.items, s) = {}
          BY <3>2 DEF InState
        <4> QED BY <3>2, <4>1, FS_EmptySet DEF CountByState
      <3> QED BY <3>1, <3>2
    <2>5. ASSUME NEW s \in _VALID_STATES
          PROVE  /\ counted[s] >= Cardinality(kept(s))
                 /\ counted[s] <= Cardinality(kept(s)) + Cardinality(moved)
      <3>1. \A i \in kept(s) : [id |-> i, state |-> s] \in l.items
        BY <2>2
      <3>2. ASSUME NEW x \in l.items, x.state = s, x.id \notin moved
            PROVE  x.id \in kept(s)
        <4>1. x.id \in Instances /\ Unchanged(x.id, l)
          BY <2>2, <3>2 DEF Complete, Item
        <4> PICK y : y = [id |-> x.id, state |-> ec2[x.id]]
          OBVIOUS
        <4>2. y \in l.items /\ y.id = x.id /\ y.state = ec2[x.id]
          BY <2>2, <2>3, <4>1
        <4>3. x = y
          BY <2>2, <4>2 DEF Complete
        <4> QED BY <3>2, <4>1, <4>2, <4>3
      <3> PICK K : K = kept(s)
        OBVIOUS
      <3> PICK M : M = moved
        OBVIOUS
      <3>3. /\ K \subseteq Instances /\ M \subseteq Instances
            /\ \A i \in K : [id |-> i, state |-> s] \in l.items
            /\ \A x \in l.items : x.state = s => x.id \in K \cup M
        BY <3>1, <3>2
      <3>4. /\ Cardinality(K) <= Cardinality(InState(l.items, s))
            /\ Cardinality(InState(l.items, s))
                 <= Cardinality(K) + Cardinality(M)
        <4> HIDE DEF kept, moved, counted
        <4> QED BY <2>2, <3>3, CounterBounds
      <3>5. /\ Cardinality(K) \in Int
            /\ Cardinality(InState(l.items, s)) \in Int
        <4>1. IsFiniteSet(Instances) /\ InState(l.items, s) \in SUBSET l.items
          BY CloudAssumption DEF CloudAssumption, InState
        <4> QED BY <2>2, <3>3, <4>1, CompleteSize, FS_Subset,
                   FS_CardinalityType
      <3> HIDE DEF kept, moved, counted
      <3> QED BY <2>4, <3>4, <3>5
    <2>6. SumFunctionOnSet(counted, _VALID_STATES) = Cardinality(Instances)
      <3>1. l.items \subseteq Item
        BY <2>2 DEF Complete
      <3> HIDE DEF counted
      <3> QED BY <2>2, <2>4, <3>1, CompleteSize, CountersSum
    <2> QED BY <2>5, <2>6
  <1> QED BY <1>1, TypeHolds, PTL

-----------------------------------------------------------------------------
(* A collection that was never overlapped finds what it looked for.        *)

Alone ==
  /\ ~raised
  /\ \A t, o \in Threads : Collecting(t) /\ Collecting(o) => t = o
  /\ \A t \in Threads : /\ At(t, "get_volumes") => volume_cache.cached
                        /\ At(t, "get_cwagent") => cwagent_cache.cached

LEMMA AloneStep ==
  ASSUME TypeInv, Alone, NEW t \in Threads, CollectionStep(t)
  PROVE  Alone' /\ overlapped' = overlapped
  <1>0. /\ call \in [Threads -> Call] /\ call[t] \in Call
        /\ cwagent_cache \in Entry /\ volume_cache \in Entry
    BY DEF TypeInv, CollectionOK, CallsOK
  <1>1. \A s : Goto(t, s) => /\ \A o \in Threads \ {t} : call'[o] = call[o]
                             /\ call'[t].stage = s
    BY <1>0 DEF Goto, Call
  <1>2. ASSUME NEW c, call' = [call EXCEPT ![t] = c]
        PROVE  (\A o \in Threads \ {t} : call'[o] = call[o]) /\ call'[t] = c
    BY <1>0, <1>2
  <1>3. CASE Respond(t)
    <2>1. UNCHANGED <<caches, marks>> /\ call' = [call EXCEPT ![t] = NoCall]
      BY <1>3 DEF Respond
    <2>2. (\A o \in Threads \ {t} : call'[o] = call[o]) /\ call'[t] = NoCall
      BY <1>2, <2>1
    <2> QED BY <2>1, <2>2 DEF Alone, Collecting, At, NoCall, caches, marks
  \* Any other step is of the one thread that collects: it cannot take away
  \* what another has just seen, and itself goes on to read only what it saw.
  <1>4. ASSUME Collecting(t), UNCHANGED <<overlapped, raised>>,
               \A o \in Threads \ {t} : call'[o] = call[o],
               call'[t].stage = "get_volumes" => volume_cache'.cached,
               call'[t].stage = "get_cwagent" => cwagent_cache'.cached
        PROVE  Alone' /\ overlapped' = overlapped
    <2>1. \A o \in Threads \ {t} : ~Collecting(o) /\ ~Collecting(o)'
      BY <1>4 DEF Alone, Collecting
    <2> QED BY <1>4, <2>1 DEF Alone, Collecting, At
  <1>5. CASE RefreshCaches(t) \/ FindVolumes(t) \/ FindCwagent(t)
    <2>1. \E s : /\ Goto(t, s) /\ UNCHANGED <<caches, marks>>
                 /\ s = "get_volumes" => volume_cache.cached
                 /\ s = "get_cwagent" => cwagent_cache.cached
      BY <1>5 DEF RefreshCaches, FindVolumes, FindCwagent, Proceed
    <2>2. Collecting(t)
      BY <1>5 DEF RefreshCaches, FindVolumes, FindCwagent, At, Collecting
    <2> QED BY <1>1, <1>4, <2>1, <2>2 DEF caches, marks
  <1>6. CASE ClearCwagent(t) \/ ClearVolumes(t) \/ StampRefresh(t)
             \/ StoreVolumes(t) \/ StoreCwagent(t)
    <2>1. \E s : /\ Goto(t, s) /\ UNCHANGED marks
                 /\ s \notin {"get_volumes", "get_cwagent"}
      BY <1>6 DEF ClearCwagent, ClearVolumes, StampRefresh, StoreVolumes,
                  StoreCwagent
    <2>2. Collecting(t)
      BY <1>6 DEF ClearCwagent, ClearVolumes, StampRefresh, StoreVolumes,
                  StoreCwagent, At, Collecting
    <2> QED BY <1>1, <1>4, <2>1, <2>2 DEF marks
  <1>7. ASSUME Collecting(t), UNCHANGED <<overlapped, raised>>,
               NEW c, call' = [call EXCEPT ![t] = c],
               c.stage \notin {"get_volumes", "get_cwagent"}
        PROVE  Alone' /\ overlapped' = overlapped
    BY <1>2, <1>4, <1>7
  <1>8. CASE GetVolumes(t)
    <2>1. volume_cache.cached /\ Collecting(t)
      BY <1>8 DEF GetVolumes, Alone, At, Collecting
    <2> DEFINE c == [call[t] EXCEPT !.stage = "cwagent",
                                    !.volumes = volume_cache.ids]
    <2>2. c.stage = "cwagent"
      BY <1>0 DEF Call
    <2>3. call' = [call EXCEPT ![t] = c] /\ UNCHANGED marks
      BY <1>0, <1>8, <2>1 DEF GetVolumes
    <2> HIDE DEF c
    <2> QED BY <1>7, <2>1, <2>2, <2>3 DEF marks
  <1>9. CASE DescribeInstance(t)
    <2> DEFINE c == [call[t] EXCEPT !.stage = "store_volumes",
                                    !.volumes = there \cap Volumes]
               d == [call[t] EXCEPT !.stage = "cwagent", !.unresolved = TRUE]
    <2>1. c.stage = "store_volumes" /\ d.stage = "cwagent"
      BY <1>0 DEF Call
    <2>2. /\ call' = [call EXCEPT ![t] = c] \/ call' = [call EXCEPT ![t] = d]
          /\ UNCHANGED marks /\ Collecting(t)
      BY <1>0, <1>9 DEF DescribeInstance, At, Collecting
    <2> HIDE DEF c, d
    <2> QED BY <1>7, <2>1, <2>2 DEF marks
  <1>10. CASE GetCwagent(t)
    <2>1. cwagent_cache.cached /\ Collecting(t)
      BY <1>10 DEF GetCwagent, Alone, At, Collecting
    <2> DEFINE c == [call[t] EXCEPT !.stage = "query",
                                    !.discovered = cwagent_cache.ids]
    <2>2. c.stage = "query"
      BY <1>0 DEF Call
    <2>3. call' = [call EXCEPT ![t] = c] /\ UNCHANGED marks
      BY <1>0, <1>10, <2>1 DEF GetCwagent
    <2> HIDE DEF c
    <2> QED BY <1>7, <2>1, <2>2, <2>3 DEF marks
  <1>11. CASE ListMetrics(t)
    <2> DEFINE After(found) ==
          [call EXCEPT
             ![t].stage = IF call[t].next < Len(CWAGENT)
                          THEN "list_metrics" ELSE "store_cwagent",
             ![t].next = @ + 1, ![t].discovered = @ \cup found]
    <2>1. \A found : /\ \A o \in Threads \ {t} : After(found)[o] = call[o]
                     /\ After(found)[t].stage \in
                          {"list_metrics", "store_cwagent"}
      BY <1>0 DEF Call
    <2>2. /\ \/ call' = After({CWAGENT[call[t].next]} \cap there)
             \/ call' = After({})
          /\ UNCHANGED <<overlapped, raised>> /\ Collecting(t)
      BY <1>11 DEF ListMetrics, At, Collecting
    <2> HIDE DEF After
    <2> QED BY <1>4, <2>1, <2>2
  <1>12. CASE GetMetricData(t)
    <2> DEFINE c(a, b, d) ==
          [[NoCall EXCEPT !.stage = "answered"] EXCEPT
             !.triggered = a, !.possible = b, !.certain = d]
               e(a) ==
          [[NoCall EXCEPT !.stage = "answered"] EXCEPT !.triggered = a]
    <2>1. \A a, b, d : c(a, b, d).stage = "answered" /\ e(a).stage = "answered"
      BY DEF NoCall
    <2>2. /\ \/ \E m \in Measurements : \E r :
                  call' = [call EXCEPT ![t] =
                            c(Judge(r), Possible(t, m), Certain(t, m))]
             \/ call' = [call EXCEPT ![t] = e(Judge(<<>>))]
          /\ UNCHANGED marks /\ Collecting(t)
      BY <1>12 DEF GetMetricData, At, Collecting
    <2> HIDE DEF c, e
    <2> QED BY <1>7, <2>1, <2>2 DEF marks
  <1> QED BY <1>3, <1>5, <1>6, <1>8, <1>9, <1>10, <1>11, <1>12
          DEF CollectionStep

LEMMA AloneNext ==
  ASSUME TypeInv, overlapped \/ Alone, [Next]_vars
  PROVE  (overlapped \/ Alone)'
  <1>1. ASSUME NEW t \in Threads, Collection(t)
        PROVE  (overlapped \/ Alone)'
    <2>1. CASE Collect(t)
      <3>1. /\ overlapped' =
                 (overlapped \/ \E o \in Threads \ {t} : Collecting(o))
            /\ UNCHANGED <<caches, raised>>
            /\ \A o \in Threads \ {t} : call'[o] = call[o]
            /\ call'[t].stage = "refresh"
        BY <2>1 DEF Collect, TypeInv, CollectionOK, CallsOK, NoCall
      <3>2. CASE overlapped \/ \E o \in Threads \ {t} : Collecting(o)
        BY <3>1, <3>2
      <3>3. CASE ~overlapped /\ \A o \in Threads \ {t} : ~Collecting(o)
        <4>1. \A o \in Threads \ {t} : ~Collecting(o)'
          BY <3>1, <3>3 DEF Collecting
        <4> QED BY <3>1, <3>3, <4>1 DEF Alone, Collecting, At, caches
      <3> QED BY <3>2, <3>3
    <2>2. CASE CollectionStep(t) /\ Alone
      BY <2>2, AloneStep
    <2>3. CASE CollectionStep(t) /\ overlapped
      BY <2>3
      DEF CollectionStep, RefreshCaches, ClearCwagent, ClearVolumes,
          StampRefresh, FindVolumes, GetVolumes, DescribeInstance,
          StoreVolumes, FindCwagent, GetCwagent, ListMetrics, StoreCwagent,
          GetMetricData, Respond, Proceed, KeyError, marks
    <2> QED BY <1>1, <2>1, <2>2, <2>3 DEF Collection
  <1>2. ASSUME UNCHANGED <<caches, call, marks>>
        PROVE  (overlapped \/ Alone)'
    BY <1>2 DEF caches, marks, Alone, Collecting, At
  <1>3. ASSUME NEW t \in Threads, Inventory(t)
        PROVE  UNCHANGED <<caches, call, marks>>
    BY <1>3 DEF Inventory, collection
  <1>4. (CloudChange /\ UNCHANGED collection) \/ Tick \/ Quiet \/ UNCHANGED vars
          => UNCHANGED <<caches, call, marks>>
    BY DEF collection, vars, Tick, Quiet
  <1> QED BY <1>1, <1>2, <1>3, <1>4 DEF Next

\* With any number of threads, a KeyError of _resolve_volume_ids or
\* _discover_cwagent_metrics takes two collections at the same time.
THEOREM KeyErrorTakesTwo == Spec => []KeyErrorNeedsOverlap
  <1>1. Init => overlapped \/ Alone
    BY DEF Init, CacheInit, Alone, Collecting, At, NoCall
  <1>2. TypeInv /\ (overlapped \/ Alone) /\ [Next]_vars
          => (overlapped \/ Alone)'
    BY AloneNext
  <1>3. (overlapped \/ Alone) => KeyErrorNeedsOverlap
    BY DEF Alone, KeyErrorNeedsOverlap
  <1> QED BY <1>1, <1>2, <1>3, TypeHolds, PTL DEF Spec

-----------------------------------------------------------------------------
(* The judgement.  What is over its threshold among the queries made is    *)
(* compared with what is among more of them, or fewer.                     *)

Latest(m) == [q \in DOMAIN m |-> Max(Freshest(m[q]) \cup {0})]
OfMetric(queries, metric) == {q \in queries : q[1] = metric}

\* The datapoint that is parsed out of an answer is the freshest of it.
LEMMA LatestOfReading ==
  ASSUME NEW r \in Readings \cup {NoData}
  PROVE  /\ Max(Freshest(r) \cup {0}) \in Nat
         /\ \/ LatestValue(r) = NoValue /\ Max(Freshest(r) \cup {0}) = 0
            \/ /\ LatestValue(r) \in Nat
               /\ LatestValue(r) = Max(Freshest(r) \cup {0})
  <1>1. CASE DOMAIN r.values = {}
    <2>1. Freshest(r) \cup {0} = {0}
      BY <1>1 DEF Freshest
    <2> QED BY <1>1, <2>1 DEF LatestValue, Max
  <1>2. CASE DOMAIN r.values # {}
    <2>1. r \in Readings
      BY <1>2 DEF NoData
    <2> PICK n \in Nat : /\ n = Len(r.values) /\ n = Len(r.timestamps)
                         /\ r.values \in [1 .. n -> Nat]
                         /\ r.timestamps \in [1 .. n -> Nat]
      <3>1. /\ r.values \in Seq(Nat) /\ r.timestamps \in Seq(Nat)
            /\ Len(r.values) = Len(r.timestamps)
        BY <2>1, CacheAssumption DEF CacheAssumption
      <3> PICK v \in Seq(Nat), s \in Seq(Nat) :
            v = r.values /\ s = r.timestamps
        BY <3>1
      <3>2. /\ Len(v) \in Nat /\ v \in [1 .. Len(v) -> Nat]
            /\ s \in [1 .. Len(s) -> Nat] /\ Len(v) = Len(s)
        BY <3>1
      <3> QED BY <3>2
    <2>2. IsFiniteSet(1 .. n)
      BY FS_Interval
    <2> PICK i \in 1 .. n : \A j \in 1 .. n : r.timestamps[j] <= r.timestamps[i]
      <3> PICK S : S = 1 .. n
        OBVIOUS
      <3> PICK f : f = r.timestamps
        OBVIOUS
      <3>1. IsFiniteSet(S) /\ S # {} /\ \A j \in S : f[j] \in Int
        BY <1>2, <2>2
      <3>2. \E i \in S : \A j \in S : f[j] <= f[i]
        BY <3>1, GreatestValue
      <3> QED BY <3>2
    <2>3. \A j \in 1 .. n :
            (\A k \in 1 .. n : r.timestamps[k] <= r.timestamps[j]) => j = i
      <3>1. \A j \in 1 .. n : r.timestamps[i] = r.timestamps[j] => i = j
        BY <2>1, CacheAssumption DEF CacheAssumption
      <3> SUFFICES ASSUME NEW j \in 1 .. n, r.timestamps[i] <= r.timestamps[j]
                   PROVE  j = i
        OBVIOUS
      <3>2. r.timestamps[i] = r.timestamps[j]
        OBVIOUS
      <3> QED BY <3>1, <3>2
    <2>4. LatestValue(r) = r.values[i]
      BY <1>2, <2>3 DEF LatestValue
    <2>5. Freshest(r) = {r.values[i]}
      BY <2>3 DEF Freshest
    <2>6. Max({r.values[i]} \cup {0}) = r.values[i]
      BY DEF Max
    <2> QED BY <2>4, <2>5, <2>6
  <1> QED BY <1>1, <1>2

LEMMA QueriesGrow ==
  ASSUME NEW V, NEW W, V \subseteq W, NEW A, NEW B, A \subseteq B
  PROVE  Queries(V, A) \subseteq Queries(W, B)
  BY DEF Queries

LEMMA QueriesFinite ==
  ASSUME NEW V, V \subseteq Volumes, NEW A, NEW metric
  PROVE  IsFiniteSet(OfMetric(Queries(V, A), metric))
  <1>1. IsFiniteSet({metric}) /\ IsFiniteSet(Volumes \cup {NoVolume})
    <2>1. Volumes \in SUBSET Resources /\ IsFiniteSet(Resources)
      BY CloudAssumption DEF CloudAssumption, Resources
    <2> QED BY <2>1, FS_Subset, FS_AddElement, FS_Singleton
  <1>2. IsFiniteSet({metric} \X (Volumes \cup {NoVolume}))
    BY <1>1, FS_Product
  <1>3. OfMetric(Queries(V, A), metric)
          \in SUBSET ({metric} \X (Volumes \cup {NoVolume}))
    BY DEF OfMetric, Queries
  <1> QED BY <1>2, <1>3, FS_Subset

\* A metric of the instance is one query.
LEMMA OneQuery ==
  ASSUME NEW V, NEW A, NEW metric, metric # "volumewritebytes",
         NEW q \in OfMetric(Queries(V, A), metric)
  PROVE  q = <<metric, NoVolume>>
  BY DEF OfMetric, Queries, EBS_METRICS

\* What is parsed out of the answer to some queries.
LEMMA ParsedType ==
  ASSUME NEW m \in Measurements, NEW queries, queries \subseteq Sources,
         NEW raw, raw = ParseResults(Restricted(m, queries))
  PROVE  /\ DOMAIN raw = queries /\ DOMAIN m = Sources
         /\ \A q \in Sources : Latest(m)[q] \in Nat
         /\ \A q \in queries :
              \/ raw[q] = NoValue /\ Latest(m)[q] = 0
              \/ raw[q] \in Nat /\ raw[q] # NoValue /\ raw[q] = Latest(m)[q]
  <1>1. /\ DOMAIN m = Sources
        /\ \A q \in Sources : m[q] \in Readings \cup {NoData}
    BY DEF Measurements
  <1>2. DOMAIN raw = queries /\ \A q \in queries : raw[q] = LatestValue(m[q])
    BY DEF ParseResults, Restricted
  <1>3. \A q \in Sources : Latest(m)[q] = Max(Freshest(m[q]) \cup {0})
    BY <1>1 DEF Latest
  <1>4. NoValue \notin Nat
    BY RulesAssumption DEF RulesAssumption
  <1> QED BY <1>1, <1>2, <1>3, <1>4, LatestOfReading

\* The value of a feature, and the sum it is compared with.
FeatureOf(raw, f) == CollectedMetrics(raw)[f]
SumOf(m, queries, f) ==
  SumFunctionOnSet(Latest(m), OfMetric(queries, MetricOf[f]))

LEMMA Thresholds ==
  ASSUME NEW f \in DOMAIN FEATURE_THRESHOLDS
  PROVE  /\ FEATURE_THRESHOLDS[f] \in Nat
         /\ f \in {"cpu", "memory", "network_in", "network_out",
                   "volume_write_bytes"}
  BY RulesAssumption DEF RulesAssumption

LEMMA Features ==
  ASSUME NEW raw, NEW f \in {"cpu", "memory", "network_in", "network_out",
                             "volume_write_bytes"}
  PROVE  IF f = "volume_write_bytes"
         THEN /\ FeatureOf(raw, f) = SumEbs(raw, MetricOf[f])
              /\ MetricOf[f] = "volumewritebytes"
         ELSE /\ FeatureOf(raw, f) = Value(raw, MetricOf[f])
              /\ MetricOf[f] # "volumewritebytes"
  BY DEF FeatureOf, CollectedMetrics, MetricOf

LEMMA MoreQueries ==
  ASSUME NEW m \in Measurements,
         NEW V, NEW A, NEW W, NEW B,
         V \subseteq W, A \subseteq B, W \subseteq Volumes, B \subseteq AgentMetrics,
         NEW f \in DOMAIN FEATURE_THRESHOLDS,
         FeatureOf(ParseResults(Restricted(m, Queries(V, A))), f)
           > FEATURE_THRESHOLDS[f]
  PROVE  SumOf(m, Queries(W, B), f) > FEATURE_THRESHOLDS[f]
  <1> PICK raw : raw = ParseResults(Restricted(m, Queries(V, A)))
    OBVIOUS
  <1> PICK metric : metric = MetricOf[f]
    OBVIOUS
  <1> PICK g : g = Latest(m)
    OBVIOUS
  <1>0. /\ Queries(V, A) \subseteq Queries(W, B)
        /\ Queries(W, B) \subseteq Sources
    BY QueriesGrow DEF Sources
  <1>1. /\ DOMAIN raw = Queries(V, A)
        /\ \A q \in Sources : g[q] \in Nat
        /\ \A q \in Queries(V, A) :
             \/ raw[q] = NoValue /\ g[q] = 0
             \/ raw[q] \in Nat /\ raw[q] # NoValue /\ raw[q] = g[q]
    BY <1>0, ParsedType
  <1> PICK T : T = OfMetric(Queries(W, B), metric)
    OBVIOUS
  <1>2. IsFiniteSet(T) /\ T \subseteq Sources
    <2>1. IsFiniteSet(T)
      BY QueriesFinite
    <2>2. T \subseteq Sources
      BY <1>0 DEF OfMetric
    <2> QED BY <2>1, <2>2
  <1>3. FEATURE_THRESHOLDS[f] \in Nat
    BY Thresholds
  <1>4. CASE f = "volume_write_bytes"
    <2> PICK S : S = {q \in DOMAIN raw : q[1] = metric /\ raw[q] # NoValue}
      OBVIOUS
    <2>1. S \subseteq T
      BY <1>0, <1>1 DEF OfMetric
    <2>2. IsFiniteSet(S)
      BY <1>2, <2>1, FS_Subset
    <2>3. FeatureOf(raw, f) = SumFunctionOnSet(raw, S)
      BY <1>4, Features, Thresholds DEF SumEbs
    <2>4. /\ SumFunctionOnSet(raw, S) \in Nat /\ SumFunctionOnSet(g, T) \in Nat
          /\ SumFunctionOnSet(raw, S) <= SumFunctionOnSet(g, T)
      <3>1. /\ \A q \in S : raw[q] \in Nat /\ raw[q] = g[q]
            /\ \A q \in T : g[q] \in Nat
        BY <1>1, <1>2
      <3>2. \A q \in S : raw[q] = 0 \/ (q \in T /\ raw[q] <= g[q])
        BY <2>1, <3>1
      <3> QED BY <1>2, <2>2, <3>1, <3>2, SumMonotone
    <2> QED BY <1>3, <2>3, <2>4 DEF SumOf
  <1>5. CASE f # "volume_write_bytes"
    <2>1. FeatureOf(raw, f) = Value(raw, metric) /\ metric # "volumewritebytes"
      BY <1>5, Features, Thresholds
    <2> PICK q : q = <<metric, NoVolume>>
      OBVIOUS
    <2>2. q \in DOMAIN raw /\ raw[q] # NoValue /\ Value(raw, metric) = raw[q]
      BY <1>3, <2>1 DEF Value
    <2>3. raw[q] = g[q] /\ g[q] \in Nat
      BY <1>1, <2>2
    <2>4. T = {q}
      <3>1. q \in T
        BY <1>0, <1>1, <2>2 DEF OfMetric
      <3> QED BY <2>1, <3>1, OneQuery
    <2>5. SumFunctionOnSet(g, T) = g[q]
      BY <2>3, <2>4, SumOfOne
    <2> QED BY <2>1, <2>2, <2>3, <2>5 DEF SumOf
  <1> QED BY <1>4, <1>5

LEMMA FewerQueries ==
  ASSUME NEW m \in Measurements,
         NEW V, NEW A, NEW W, NEW B,
         W \subseteq V, B \subseteq A, V \subseteq Volumes, A \subseteq AgentMetrics,
         NEW f \in DOMAIN FEATURE_THRESHOLDS,
         SumOf(m, Queries(W, B), f) > FEATURE_THRESHOLDS[f]
  PROVE  FeatureOf(ParseResults(Restricted(m, Queries(V, A))), f)
           > FEATURE_THRESHOLDS[f]
  <1> PICK raw : raw = ParseResults(Restricted(m, Queries(V, A)))
    OBVIOUS
  <1> PICK metric : metric = MetricOf[f]
    OBVIOUS
  <1> PICK g : g = Latest(m)
    OBVIOUS
  <1>0. /\ Queries(W, B) \subseteq Queries(V, A)
        /\ Queries(V, A) \subseteq Sources
    BY QueriesGrow DEF Sources
  <1>1. /\ DOMAIN raw = Queries(V, A)
        /\ \A q \in Sources : g[q] \in Nat
        /\ \A q \in Queries(V, A) :
             \/ raw[q] = NoValue /\ g[q] = 0
             \/ raw[q] \in Nat /\ raw[q] # NoValue /\ raw[q] = g[q]
    BY <1>0, ParsedType
  <1> PICK S : S = OfMetric(Queries(W, B), metric)
    OBVIOUS
  <1>2. IsFiniteSet(S) /\ S \subseteq Queries(V, A)
    <2>1. W \subseteq Volumes
      OBVIOUS
    <2>2. IsFiniteSet(S)
      BY <2>1, QueriesFinite
    <2>3. S \subseteq Queries(V, A)
      BY <1>0 DEF OfMetric
    <2> QED BY <2>2, <2>3
  <1>3. FEATURE_THRESHOLDS[f] \in Nat
    BY Thresholds
  <1>4. CASE f = "volume_write_bytes"
    <2> PICK T : T = {q \in DOMAIN raw : q[1] = metric /\ raw[q] # NoValue}
      OBVIOUS
    <2>1. IsFiniteSet(T)
      <3>1. T \in SUBSET OfMetric(Queries(V, A), metric)
        BY <1>1 DEF OfMetric
      <3> QED BY <3>1, QueriesFinite, FS_Subset
    <2>2. FeatureOf(raw, f) = SumFunctionOnSet(raw, T)
      BY <1>4, Features, Thresholds DEF SumEbs
    <2>3. /\ SumFunctionOnSet(g, S) \in Nat /\ SumFunctionOnSet(raw, T) \in Nat
          /\ SumFunctionOnSet(g, S) <= SumFunctionOnSet(raw, T)
      <3>1. /\ \A q \in T : raw[q] \in Nat
            /\ \A q \in S : g[q] \in Nat
        BY <1>0, <1>1, <1>2
      <3>2. \A q \in S : g[q] = 0 \/ (q \in T /\ g[q] <= raw[q])
        <4> SUFFICES ASSUME NEW q \in S, g[q] # 0
                     PROVE  q \in T /\ g[q] <= raw[q]
          OBVIOUS
        <4>1. q \in Queries(V, A) /\ q[1] = metric
          BY <1>2 DEF OfMetric
        <4> QED BY <1>1, <4>1
      <3> QED BY <1>2, <2>1, <3>1, <3>2, SumMonotone
    <2> QED BY <1>3, <2>2, <2>3 DEF SumOf
  <1>5. CASE f # "volume_write_bytes"
    <2>1. FeatureOf(raw, f) = Value(raw, metric) /\ metric # "volumewritebytes"
      BY <1>5, Features, Thresholds
    <2>2. SumFunctionOnSet(g, S) > FEATURE_THRESHOLDS[f]
      BY DEF SumOf
    <2>3. S # {}
      BY <1>3, <2>2, SumOfNone
    <2> PICK q : q = <<metric, NoVolume>>
      OBVIOUS
    <2>4. S = {q} /\ q \in Queries(V, A)
      BY <1>2, <2>1, <2>3, OneQuery
    <2>5. g[q] \in Nat /\ SumFunctionOnSet(g, S) = g[q]
      BY <1>0, <1>1, <2>4, SumOfOne
    <2>6. raw[q] # NoValue /\ raw[q] = g[q]
      BY <1>1, <1>3, <2>2, <2>4, <2>5
    <2> QED BY <1>1, <2>1, <2>2, <2>4, <2>5, <2>6 DEF Value
  <1> QED BY <1>4, <1>5

LEMMA OverSums ==
  ASSUME NEW m, NEW V, NEW A
  PROVE  Over(m, V, A) = {f \in DOMAIN FEATURE_THRESHOLDS :
                            SumOf(m, Queries(V, A), f) > FEATURE_THRESHOLDS[f]}
  BY DEF Over, SumOf, OfMetric, Latest

LEMMA JudgeFeatures ==
  ASSUME NEW response
  PROVE  Judge(response) =
           {f \in DOMAIN FEATURE_THRESHOLDS :
              FeatureOf(ParseResults(response), f) > FEATURE_THRESHOLDS[f]}
  BY DEF Judge, Triggered, FeatureOf

\* An answer judged is within what more queries would give, and contains what
\* fewer would.
LEMMA JudgeBetween ==
  ASSUME NEW m \in Measurements, NEW V, V \subseteq Volumes,
         NEW A, A \subseteq AgentMetrics
  PROVE  /\ \A W \in SUBSET Volumes, B \in SUBSET AgentMetrics :
              V \subseteq W /\ A \subseteq B =>
                Judge(Restricted(m, Queries(V, A))) \subseteq Over(m, W, B)
         /\ \A W \in SUBSET Volumes, B \in SUBSET AgentMetrics :
              W \subseteq V /\ B \subseteq A =>
                Over(m, W, B) \subseteq Judge(Restricted(m, Queries(V, A)))
  <1>1. ASSUME NEW W \in SUBSET Volumes, NEW B \in SUBSET AgentMetrics,
               V \subseteq W, A \subseteq B,
               NEW f \in Judge(Restricted(m, Queries(V, A)))
        PROVE  f \in Over(m, W, B)
    BY <1>1, JudgeFeatures, OverSums, MoreQueries
  <1>2. ASSUME NEW W \in SUBSET Volumes, NEW B \in SUBSET AgentMetrics,
               W \subseteq V, B \subseteq A, NEW f \in Over(m, W, B)
        PROVE  f \in Judge(Restricted(m, Queries(V, A)))
    BY <1>2, JudgeFeatures, OverSums, FewerQueries
  <1> QED BY <1>1, <1>2

\* A query that failed is judged as if nothing was over its threshold.
LEMMA JudgeNothing == Judge(<<>>) = {}
  <1> SUFFICES ASSUME NEW f \in DOMAIN FEATURE_THRESHOLDS,
                      FeatureOf(ParseResults(<<>>), f) > FEATURE_THRESHOLDS[f]
               PROVE  FALSE
    BY JudgeFeatures
  <1> PICK raw : raw = ParseResults(<<>>)
    OBVIOUS
  <1>1. DOMAIN raw = {}
    BY DEF ParseResults
  <1>2. FeatureOf(raw, f) = 0
    <2>1. SumEbs(raw, MetricOf[f]) = 0
      <3>1. {q \in DOMAIN raw : q[1] = MetricOf[f] /\ raw[q] # NoValue} = {}
        BY <1>1
      <3> QED BY <3>1, SumOfNone DEF SumEbs
    <2>2. Value(raw, MetricOf[f]) = 0
      BY <1>1 DEF Value
    <2> QED BY <2>1, <2>2, Features, Thresholds
  <1> QED BY <1>2, Thresholds

-----------------------------------------------------------------------------
(* The caches.  An entry, and what a call has found or read, may be wrong  *)
(* about a resource only for a reason: the resource changed, or the call   *)
(* that asked for it failed.  The invariant bounds how old the reason can  *)
(* be: not older than the call that asked (Found), than the calls that may *)
(* still read the entry allow (StoredAt), than the horizon (Recent).       *)

Slack == IF overlapped THEN LONGEST_CALL ELSE 0

Right(ids, r) == r \in ids <=> r \in there

\* Why ids may be wrong about r: the times of what went wrong.
Excuses(ids, r) ==
  {since[r]} \cup (IF r \in AgentMetrics \ ids THEN faults ELSE {})

\* An entry wrong since z: it was made by a call that began before z, and a
\* call has begun by then if it cleared the cache earlier.
StoredAt(z, cleared, reading) ==
  /\ last_refresh <= z + 2 * Slack
  /\ \A t \in Threads :
       /\ call[t].stage \in cleared => call[t].began <= z + Slack
       /\ call[t].stage \in reading =>
            call[t].began < z + CACHE_TTL + 2 * Slack

EntryOK(entry, kind, cleared, reading) ==
  entry.cached =>
    /\ overlapped \/ \A t \in Threads : call[t].stage \notin cleared
    /\ \A r \in kind :
         \/ Right(entry.ids, r)
         \/ \E z \in Excuses(entry.ids, r) : StoredAt(z, cleared, reading)

ClearedVolumes == {"stamp"}
ReadingVolumes == {"volumes", "get_volumes"}
ClearedCwagent == {"clear_volumes", "stamp"}
ReadingCwagent == {"volumes", "get_volumes", "describe", "store_volumes",
                   "cwagent", "get_cwagent"}

EntriesOK ==
  /\ EntryOK(volume_cache, Volumes, ClearedVolumes, ReadingVolumes)
  /\ EntryOK(cwagent_cache, AgentMetrics, ClearedCwagent, ReadingCwagent)

Found(c, ids, r) ==
  \/ Right(ids, r)
  \/ \E z \in Excuses(ids, r) :
       c.began <= z /\ (overlapped \/ last_refresh <= z)

Recent(c, ids, r) ==
  Right(ids, r) \/ \E z \in Excuses(ids, r) : c.began < z + Horizon

\* The metrics a call has asked for.
Listed(c) == {CWAGENT[j] : j \in 1 .. c.next - 1}

Resting == {"idle", "answered"}
Unresolved == {"refresh", "clear_cwagent", "clear_volumes", "stamp",
               "volumes", "get_volumes", "describe"}
Undiscovered == Unresolved \cup {"store_volumes", "cwagent", "get_cwagent"}
Resolved == {"cwagent", "get_cwagent", "list_metrics", "store_cwagent",
             "query"}

CallOK(c) ==
  /\ c.stage \notin Resting => c.began <= now /\ now <= c.began + LONGEST_CALL
  /\ c.stage \in Unresolved => c.volumes = {}
  /\ c.stage \in Undiscovered => c.next = 1 /\ c.discovered = {}
  /\ c.stage = "store_volumes" => \A v \in Volumes : Found(c, c.volumes, v)
  /\ c.stage \in Resolved =>
       \A v \in Volumes : \/ Recent(c, c.volumes, v)
                          \/ c.unresolved /\ v \notin c.volumes
  /\ c.stage \in {"list_metrics", "store_cwagent"} =>
       /\ c.discovered \subseteq Listed(c)
       /\ \A r \in Listed(c) : Found(c, c.discovered, r)
  /\ c.stage = "store_cwagent" => Listed(c) = AgentMetrics
  /\ c.stage = "query" => \A r \in AgentMetrics : Recent(c, c.discovered, r)

TimesOK ==
  /\ last_refresh <= now
  /\ \A r \in Resources : since[r] <= now
  /\ \A z \in faults : z <= now

CacheInv ==
  /\ TimesOK /\ EntriesOK /\ \A t \in Threads : CallOK(call[t])

-----------------------------------------------------------------------------
LEMMA Numbers ==
  ASSUME TypeInv
  PROVE  /\ now \in Nat /\ last_refresh \in Nat /\ LONGEST_CALL \in Nat
         /\ CACHE_TTL \in Nat \ {0} /\ overlapped \in BOOLEAN
         /\ Slack \in Nat /\ Horizon = CACHE_TTL + 2 * Slack
         /\ \A ids, r : r \in Resources => Excuses(ids, r) \subseteq Nat
         /\ call \in [Threads -> Call]
         /\ \A t \in Threads : call[t] \in Call /\ call[t].began \in Nat
         /\ volume_cache \in Entry /\ volume_cache.ids \subseteq Volumes
         /\ cwagent_cache \in Entry /\ cwagent_cache.ids \subseteq AgentMetrics
  <1>1. /\ now \in Nat /\ last_refresh \in Nat /\ overlapped \in BOOLEAN
        /\ since \in [Resources -> Nat] /\ faults \subseteq Nat
        /\ call \in [Threads -> Call]
        /\ volume_cache \in Entry /\ volume_cache.ids \subseteq Volumes
        /\ cwagent_cache \in Entry /\ cwagent_cache.ids \subseteq AgentMetrics
    BY Zenon DEF TypeInv, CloudTypeOK, CollectionOK, CallsOK
  <1>2. LONGEST_CALL \in Nat /\ CACHE_TTL \in Nat \ {0}
    BY CacheAssumption DEF CacheAssumption
  <1>3. Slack \in Nat /\ Horizon = CACHE_TTL + 2 * Slack
    BY <1>1, <1>2 DEF Slack, Horizon
  <1>4. \A ids, r : r \in Resources => Excuses(ids, r) \subseteq Nat
    BY <1>1 DEF Excuses
  <1>5. \A t \in Threads : call[t] \in Call /\ call[t].began \in Nat
    BY <1>1 DEF Call
  <1> QED BY <1>1, <1>2, <1>3, <1>4, <1>5

LEMMA NumbersNext ==
  ASSUME TypeInv'
  PROVE  /\ now' \in Nat /\ last_refresh' \in Nat /\ overlapped' \in BOOLEAN
         /\ Slack' \in Nat /\ Horizon' = CACHE_TTL + 2 * Slack'
         /\ \A ids, r : r \in Resources => Excuses(ids, r)' \subseteq Nat
         /\ call' \in [Threads -> Call]
  <1>1. /\ now' \in Nat /\ last_refresh' \in Nat /\ overlapped' \in BOOLEAN
        /\ since' \in [Resources -> Nat] /\ faults' \subseteq Nat
        /\ call' \in [Threads -> Call]
    BY Zenon DEF TypeInv, CloudTypeOK, CollectionOK, CallsOK
  <1>2. LONGEST_CALL \in Nat /\ CACHE_TTL \in Nat \ {0}
    BY CacheAssumption DEF CacheAssumption
  <1>3. Slack' \in Nat /\ Horizon' = CACHE_TTL + 2 * Slack'
    BY <1>1, <1>2 DEF Slack, Horizon
  <1>4. \A ids, r : r \in Resources => Excuses(ids, r)' \subseteq Nat
    BY <1>1 DEF Excuses
  <1> QED BY <1>1, <1>3, <1>4

\* What excused ids for being wrong about r still does, or it is right, or
\* there is a reason as of now.
Excused(ids, r) ==
  \/ Right(ids, r)'
  \/ now \in Excuses(ids, r)'
  \/ /\ ~Right(ids, r)
     /\ \A z \in Excuses(ids, r) : \E y \in Excuses(ids, r)' : z <= y

Moved == \A ids, r : r \in Resources => Excused(ids, r)

LEMMA MovedByFault ==
  ASSUME TypeInv, UNCHANGED <<there, since>>, faults' \in {faults, {now}}
  PROVE  Moved
  <1> SUFFICES ASSUME NEW ids, NEW r \in Resources PROVE Excused(ids, r)
    BY DEF Moved
  <1>1. Right(ids, r)' = Right(ids, r)
    BY DEF Right
  <1>2. Excuses(ids, r) \subseteq Nat
    BY Numbers
  <1>3. \/ now \in Excuses(ids, r)'
        \/ Excuses(ids, r)' = Excuses(ids, r)
    BY DEF Excuses
  <1> QED BY <1>1, <1>2, <1>3 DEF Excused

LEMMA MovedByChange ==
  ASSUME TypeInv, CloudChange, UNCHANGED faults
  PROVE  Moved
  <1> SUFFICES ASSUME NEW ids, NEW r \in Resources PROVE Excused(ids, r)
    BY DEF Moved
  <1>1. Excuses(ids, r) \subseteq Nat /\ since \in [Resources -> Nat]
    BY Numbers DEF TypeInv, CloudTypeOK
  <1>2. \/ since'[r] = now
        \/ since'[r] = since[r] /\ (r \in there' <=> r \in there)
    BY <1>1 DEF CloudChange, Appear, Disappear, ChangeState
  <1>3. CASE since'[r] = now
    BY <1>3 DEF Excused, Excuses
  <1>4. CASE since'[r] = since[r] /\ (r \in there' <=> r \in there)
    <2>1. Right(ids, r)' = Right(ids, r) /\ Excuses(ids, r)' = Excuses(ids, r)
      BY <1>4 DEF Right, Excuses
    <2> QED BY <1>1, <2>1 DEF Excused
  <1> QED BY <1>2, <1>3, <1>4

LEMMA FoundStays ==
  ASSUME TypeInv, TypeInv', TimesOK, Moved,
         overlapped => overlapped',
         overlapped' \/ last_refresh' = last_refresh,
         NEW c \in Call, c.began <= now, NEW ids, NEW r \in Resources,
         Found(c, ids, r)
  PROVE  Found(c, ids, r)'
  <1>1. Excused(ids, r)
    BY DEF Moved
  <1>2. /\ Excuses(ids, r) \subseteq Nat /\ Excuses(ids, r)' \subseteq Nat
        /\ c.began \in Nat /\ now \in Nat
        /\ last_refresh \in Nat /\ last_refresh' \in Nat
    BY Numbers, NumbersNext DEF Call
  <1>3. CASE Right(ids, r)'
    BY <1>3 DEF Found
  <1>4. CASE now \in Excuses(ids, r)'
    BY <1>2, <1>4 DEF Found, TimesOK
  <1>5. CASE /\ ~Right(ids, r)
             /\ \A z \in Excuses(ids, r) : \E y \in Excuses(ids, r)' : z <= y
    <2> PICK z \in Excuses(ids, r) :
          c.began <= z /\ (overlapped \/ last_refresh <= z)
      BY <1>5 DEF Found
    <2> PICK y \in Excuses(ids, r)' : z <= y
      BY <1>5
    <2>1. c.began <= y /\ (overlapped' \/ last_refresh' <= y)
      BY <1>2
    <2> QED BY <2>1 DEF Found
  <1> QED BY <1>1, <1>3, <1>4, <1>5 DEF Excused

LEMMA RecentStays ==
  ASSUME TypeInv, TypeInv', Moved, overlapped => overlapped',
         NEW c \in Call, c.began <= now, NEW ids, NEW r \in Resources,
         Recent(c, ids, r)
  PROVE  Recent(c, ids, r)'
  <1>1. Excused(ids, r)
    BY DEF Moved
  <1>2. /\ Excuses(ids, r) \subseteq Nat /\ Excuses(ids, r)' \subseteq Nat
        /\ c.began \in Nat /\ now \in Nat
        /\ Horizon \in Nat \ {0} /\ Horizon' \in Nat \ {0}
        /\ Horizon <= Horizon'
    <2>1. /\ Excuses(ids, r) \subseteq Nat /\ Excuses(ids, r)' \subseteq Nat
          /\ c.began \in Nat /\ now \in Nat
          /\ CACHE_TTL \in Nat \ {0} /\ LONGEST_CALL \in Nat
      BY Numbers, NumbersNext DEF Call
    <2> QED BY <2>1 DEF Horizon
  <1>3. CASE Right(ids, r)'
    BY <1>3 DEF Recent
  <1>4. CASE now \in Excuses(ids, r)'
    BY <1>2, <1>4 DEF Recent
  <1>5. CASE /\ ~Right(ids, r)
             /\ \A z \in Excuses(ids, r) : \E y \in Excuses(ids, r)' : z <= y
    <2> PICK z \in Excuses(ids, r) : c.began < z + Horizon
      BY <1>5 DEF Recent
    <2> PICK y \in Excuses(ids, r)' : z <= y
      BY <1>5
    <2>1. c.began < y + Horizon'
      BY <1>2
    <2> QED BY <2>1 DEF Recent
  <1> QED BY <1>1, <1>3, <1>4, <1>5 DEF Excused

\* A call that takes no step, while others and the world do.
LEMMA CallStays ==
  ASSUME TypeInv, TypeInv', TimesOK, Moved, now <= now',
         overlapped => overlapped',
         NEW c \in Call, CallOK(c),
         c.stage = "list_metrics" => c.next \in 1 .. Len(CWAGENT),
         c.stage \notin Resting =>
           /\ now' <= c.began + LONGEST_CALL
           /\ overlapped' \/ last_refresh' = last_refresh
  PROVE  CallOK(c)'
  <1>1. CASE c.stage \in Resting
    BY <1>1 DEF CallOK, Resting, Unresolved, Undiscovered, Resolved
  <1>2. CASE c.stage \notin Resting
    <2>1. /\ c.began <= now /\ c.began \in Nat /\ now \in Nat /\ now' \in Nat
          /\ c.volumes \subseteq Volumes /\ c.discovered \subseteq AgentMetrics
      BY <1>2, Numbers, NumbersNext DEF CallOK, Call
    <2>2. c.began <= now' /\ now' <= c.began + LONGEST_CALL
      BY <1>2, <2>1
    <2>3. \A ids, r : r \in Resources =>
            /\ Found(c, ids, r) => Found(c, ids, r)'
            /\ Recent(c, ids, r) => Recent(c, ids, r)'
      BY <1>2, <2>1, FoundStays, RecentStays
    <2>4. Volumes \subseteq Resources /\ AgentMetrics \subseteq Resources
      BY Bounds
    <2>5. c.stage \in {"list_metrics", "store_cwagent"} =>
            Listed(c) \subseteq AgentMetrics
      <3>1. CASE c.stage = "store_cwagent"
        BY <3>1 DEF CallOK
      <3>2. CASE c.stage = "list_metrics"
        BY <3>2, Bounds DEF Listed
      <3> QED BY <3>1, <3>2
    <2> QED BY <1>2, <2>2, <2>3, <2>4, <2>5 DEF CallOK, Listed
  <1> QED BY <1>1, <1>2

\* Nothing a call is judged by has changed.
LEMMA CallSame ==
  ASSUME UNCHANGED <<now, there, since, faults, overlapped, last_refresh>>,
         NEW c, CallOK(c)
  PROVE  CallOK(c)'
  BY DEF CallOK, Found, Recent, Right, Excuses, Horizon, Listed

LEMMA CallIs ==
  ASSUME NEW o \in Threads, NEW c, call'[o] = c, CallOK(c)'
  PROVE  CallOK(call[o])'
  BY DEF CallOK, Found, Recent, Right, Excuses, Horizon, Listed

LEMMA Later ==
  /\ \A l, z, y, s, d \in Nat :
       z <= y /\ s <= d /\ l <= z + 2 * s => l <= y + 2 * d
  /\ \A l, y, d \in Nat : l <= y => l <= y + 2 * d
  OBVIOUS

LEMMA EntryStays ==
  ASSUME TypeInv, TypeInv', TimesOK, Moved,
         NEW entry \in Entry, NEW kind \in SUBSET Resources,
         NEW cleared, NEW reading,
         EntryOK(entry, kind, cleared, reading),
         overlapped => overlapped', last_refresh' = last_refresh,
         \A t \in Threads :
           /\ call'[t].stage \in cleared \cup reading => call'[t].began <= now
           /\ call'[t].stage \in cleared =>
                call[t].stage \in cleared /\ call'[t].began = call[t].began
           /\ call'[t].stage \in reading =>
                \/ call'[t].began < last_refresh + CACHE_TTL
                \/ call[t].stage \in reading /\ call'[t].began = call[t].began
  PROVE  EntryOK(entry, kind, cleared, reading)'
  <1> SUFFICES ASSUME entry.cached
               PROVE  /\ overlapped' \/ \A t \in Threads :
                                          call'[t].stage \notin cleared
                      /\ \A r \in kind :
                           \/ Right(entry.ids, r)'
                           \/ \E z \in Excuses(entry.ids, r)' :
                                StoredAt(z, cleared, reading)'
    BY DEF EntryOK
  <1>1. overlapped' \/ \A t \in Threads : call'[t].stage \notin cleared
    BY DEF EntryOK
  <1>2. /\ now \in Nat /\ last_refresh \in Nat /\ LONGEST_CALL \in Nat
        /\ CACHE_TTL \in Nat \ {0} /\ Slack \in Nat /\ Slack' \in Nat
        /\ \A t \in Threads : call[t].began \in Nat /\ call'[t].began \in Nat
    BY Numbers, NumbersNext DEF Call
  <1> PICK n \in Nat : n = now
    BY <1>2
  <1> PICK s \in Nat, d \in Nat : s = Slack /\ d = Slack'
    BY <1>2
  <1>3. s <= d
    BY <1>2 DEF Slack
  <1>4. ASSUME NEW z \in Nat, NEW y \in Nat, z <= y,
               StoredAt(z, cleared, reading)
        PROVE  StoredAt(y, cleared, reading)'
    <2>1. last_refresh' <= y + 2 * d
      <3>1. last_refresh' <= z + 2 * s
        BY <1>4 DEF StoredAt
      <3>2. last_refresh' \in Nat
        BY <1>2
      <3> QED BY <1>3, <1>4, <3>1, <3>2, Later
    <2>2. ASSUME NEW t \in Threads, call'[t].stage \in cleared
          PROVE  call'[t].began <= y + d
      BY <1>2, <1>3, <1>4, <2>2 DEF StoredAt
    <2>3. ASSUME NEW t \in Threads, call'[t].stage \in reading
          PROVE  call'[t].began < y + CACHE_TTL + 2 * d
      <3>1. CASE call'[t].began < last_refresh + CACHE_TTL
        BY <1>2, <2>1, <3>1
      <3>2. CASE call[t].stage \in reading /\ call'[t].began = call[t].began
        BY <1>2, <1>3, <1>4, <3>2 DEF StoredAt
      <3> QED BY <2>3, <3>1, <3>2
    <2> QED BY <2>1, <2>2, <2>3 DEF StoredAt
  <1>5. StoredAt(n, cleared, reading)'
    <2>1. last_refresh' <= n + 2 * d
      <3> PICK l \in Nat : l = last_refresh' /\ l <= n
        BY <1>2 DEF TimesOK
      <3> QED BY Later
    <2>2. ASSUME NEW t \in Threads,
                 call'[t].stage \in cleared \cup reading
          PROVE  /\ call'[t].began <= n + d
                 /\ call'[t].began < n + CACHE_TTL + 2 * d
      BY <1>2, <2>2
    <2> QED BY <2>1, <2>2 DEF StoredAt
  <1>6. ASSUME NEW r \in kind
        PROVE  \/ Right(entry.ids, r)'
               \/ \E z \in Excuses(entry.ids, r)' :
                    StoredAt(z, cleared, reading)'
    <2>1. Excused(entry.ids, r)
      BY DEF Moved
    <2>2. /\ Excuses(entry.ids, r) \subseteq Nat
          /\ Excuses(entry.ids, r)' \subseteq Nat
      BY Numbers, NumbersNext
    <2>3. CASE now \in Excuses(entry.ids, r)'
      <3>1. n \in Excuses(entry.ids, r)'
        BY <2>3
      <3> QED BY <1>5, <3>1
    <2>4. CASE /\ ~Right(entry.ids, r)
               /\ \A z \in Excuses(entry.ids, r) :
                    \E y \in Excuses(entry.ids, r)' : z <= y
      <3> PICK z \in Excuses(entry.ids, r) : StoredAt(z, cleared, reading)
        BY <2>4 DEF EntryOK
      <3> PICK y \in Excuses(entry.ids, r)' : z <= y
        BY <2>4
      <3> QED BY <1>4, <2>2
    <2> QED BY <2>1, <2>3, <2>4 DEF Excused
  <1> QED BY <1>1, <1>6

LEMMA EntryStamped ==
  ASSUME TypeInv, TypeInv', TimesOK, UNCHANGED <<cloud, marks>>,
         NEW entry \in Entry, NEW kind \in SUBSET Resources,
         NEW cleared, NEW reading,
         EntryOK(entry, kind, cleared, reading),
         NEW t \in Threads, call[t].stage \in cleared,
         now <= call[t].began + LONGEST_CALL,
         last_refresh' = now,
         \A o \in Threads \ {t} : call'[o] = call[o],
         call'[t].stage \notin cleared, call'[t].began = call[t].began
  PROVE  EntryOK(entry, kind, cleared, reading)'
  <1> SUFFICES ASSUME entry.cached
               PROVE  EntryOK(entry, kind, cleared, reading)'
    BY DEF EntryOK
  <1>1. overlapped /\ overlapped'
    BY DEF EntryOK, marks
  <1>2. /\ now \in Nat /\ last_refresh \in Nat /\ LONGEST_CALL \in Nat
        /\ CACHE_TTL \in Nat \ {0}
        /\ Slack = LONGEST_CALL /\ Slack' = LONGEST_CALL
        /\ \A o \in Threads : call[o].began \in Nat /\ call'[o].began \in Nat
    BY <1>1, Numbers, NumbersNext DEF Call, Slack
  <1>3. ASSUME NEW z \in Nat, StoredAt(z, cleared, reading)
        PROVE  StoredAt(z, cleared, reading)'
    <2>1. call[t].began <= z + LONGEST_CALL
      BY <1>2, <1>3 DEF StoredAt
    <2>2. last_refresh' <= z + 2 * LONGEST_CALL
      BY <1>2, <2>1
    <2>3. ASSUME NEW o \in Threads
          PROVE  /\ call'[o].stage \in cleared =>
                      call'[o].began <= z + LONGEST_CALL
                 /\ call'[o].stage \in reading =>
                      call'[o].began < z + CACHE_TTL + 2 * LONGEST_CALL
      <3>1. CASE o = t
        BY <1>2, <2>1, <3>1
      <3>2. CASE o # t
        BY <1>2, <1>3, <3>2 DEF StoredAt
      <3> QED BY <3>1, <3>2
    <2> QED BY <1>2, <2>2, <2>3 DEF StoredAt
  <1>4. \A r \in kind : /\ Right(entry.ids, r)' = Right(entry.ids, r)
                        /\ Excuses(entry.ids, r)' = Excuses(entry.ids, r)
    BY DEF cloud, marks, Right, Excuses
  <1>5. \A r \in kind : Excuses(entry.ids, r) \subseteq Nat
    BY Numbers
  <1> QED BY <1>1, <1>3, <1>4, <1>5 DEF EntryOK

\* What a call found becomes the entry.
LEMMA EntryStored ==
  ASSUME TypeInv, TypeInv', TimesOK, UNCHANGED <<cloud, marks>>,
         NEW ids, NEW kind \in SUBSET Resources, NEW cleared, NEW reading,
         NEW t \in Threads, overlapped \/ \A o \in Threads : Collecting(o) => o = t,
         last_refresh' = last_refresh,
         \A o \in Threads \ {t} : call'[o] = call[o],
         \A o \in Threads : Collecting(o) => call[o].began <= now,
         Resting \cap (cleared \cup reading) = {},
         call'[t].stage \notin cleared \cup reading,
         now <= call[t].began + LONGEST_CALL,
         \A r \in kind : Found(call[t], ids, r)
  PROVE  EntryOK(Cached(ids), kind, cleared, reading)'
  <1>1. /\ now \in Nat /\ last_refresh \in Nat /\ LONGEST_CALL \in Nat
        /\ CACHE_TTL \in Nat \ {0} /\ overlapped' = overlapped
        /\ Slack = (IF overlapped THEN LONGEST_CALL ELSE 0) /\ Slack' = Slack
        /\ \A o \in Threads : call[o].began \in Nat
    BY Numbers DEF Slack, marks
  <1>2. \A o \in Threads : call'[o].stage \in cleared \cup reading =>
          /\ o # t /\ call'[o] = call[o] /\ Collecting(o) /\ overlapped
    BY DEF Collecting, Resting
  <1>3. ASSUME NEW z \in Nat, call[t].began <= z,
               overlapped \/ last_refresh <= z
        PROVE  StoredAt(z, cleared, reading)'
    <2>1. last_refresh' <= z + 2 * Slack'
      <3>1. CASE overlapped
        BY <1>1, <1>3, <3>1 DEF TimesOK
      <3>2. CASE ~overlapped
        BY <1>1, <1>3, <3>2
      <3> QED BY <3>1, <3>2
    <2>2. ASSUME NEW o \in Threads, call'[o].stage \in cleared \cup reading
          PROVE  /\ call'[o].began <= z + Slack'
                 /\ call'[o].began < z + CACHE_TTL + 2 * Slack'
      BY <1>1, <1>2, <1>3, <2>2
    <2> QED BY <2>1, <2>2 DEF StoredAt
  <1>4. \A r \in kind : /\ Right(ids, r)' = Right(ids, r)
                        /\ Excuses(ids, r)' = Excuses(ids, r)
                        /\ Excuses(ids, r) \subseteq Nat
    BY Numbers DEF cloud, marks, Right, Excuses
  <1>5. overlapped' \/ \A o \in Threads : call'[o].stage \notin cleared
    BY <1>1, <1>2
  <1>6. \A r \in kind : \/ Right(ids, r)'
                        \/ \E z \in Excuses(ids, r)' :
                             StoredAt(z, cleared, reading)'
    BY <1>3, <1>4 DEF Found
  <1> QED BY <1>5, <1>6 DEF EntryOK, Cached

-----------------------------------------------------------------------------
(* A step of one thread, which makes its call d.                           *)

LEMMA OthersStay ==
  ASSUME TypeInv, TypeInv', CacheInv, overlapped \/ Alone,
         NEW t \in Threads, NEW d, call' = [call EXCEPT ![t] = d], CallOK(d)',
         UNCHANGED cloud, overlapped => overlapped',
         faults' \in {faults, {now}},
         \/ last_refresh' = last_refresh
         \/ last_refresh' = now /\ Collecting(t) /\ overlapped' = overlapped
  PROVE  TimesOK' /\ \A o \in Threads : CallOK(call[o])'
  <1>1. call \in [Threads -> Call] /\ now \in Nat
    BY Numbers
  <1>2. TimesOK'
    BY <1>1 DEF CacheInv, TimesOK, cloud
  <1>3. CallOK(call[t])'
    BY <1>1, CallIs
  <1>4. ASSUME NEW o \in Threads \ {t}
        PROVE  CallOK(call[o])'
    <2> PICK c \in Call : c = call[o]
      BY <1>1
    <2>1. call'[o] = c
      BY <1>1
    <2>2. Moved
      BY MovedByFault DEF cloud
    <2>3. now <= now' /\ TimesOK /\ CallOK(c)
      BY <1>1 DEF cloud, CacheInv
    <2>4. c.stage = "list_metrics" => c.next \in 1 .. Len(CWAGENT)
      BY DEF TypeInv, CollectionOK, CallsOK
    <2>5. c.stage \notin Resting =>
            /\ now' <= c.began + LONGEST_CALL
            /\ overlapped' \/ last_refresh' = last_refresh
      BY <2>3 DEF CallOK, cloud, Alone, Collecting, Resting
    <2>6. CallOK(c)'
      BY <2>2, <2>3, <2>4, <2>5, CallStays
    <2> QED BY <2>1, <2>6, CallIs
  <1> QED BY <1>2, <1>3, <1>4

LEMMA EntryKept ==
  ASSUME TypeInv, TypeInv', CacheInv,
         NEW t \in Threads, NEW d, call' = [call EXCEPT ![t] = d],
         UNCHANGED cloud, overlapped => overlapped',
         faults' \in {faults, {now}}, last_refresh' = last_refresh,
         NEW entry \in Entry, NEW kind \in SUBSET Resources,
         NEW cleared, NEW reading, Resting \cap (cleared \cup reading) = {},
         EntryOK(entry, kind, cleared, reading),
         d.stage \in cleared \cup reading =>
           Collecting(t) /\ d.began = call[t].began,
         d.stage \in cleared => call[t].stage \in cleared,
         d.stage \in reading => \/ call[t].stage \in reading
                                \/ d.began < last_refresh + CACHE_TTL
  PROVE  EntryOK(entry, kind, cleared, reading)'
  <1>1. call \in [Threads -> Call]
    BY Numbers
  <1>2. Moved /\ TimesOK
    BY MovedByFault DEF cloud, CacheInv
  <1>3. \A o \in Threads : Collecting(o) => call[o].began <= now
    BY DEF CacheInv, CallOK, Collecting, Resting
  <1>4. ASSUME NEW o \in Threads
        PROVE  /\ call'[o].stage \in cleared \cup reading =>
                    call'[o].began <= now
               /\ call'[o].stage \in cleared =>
                    call[o].stage \in cleared /\ call'[o].began = call[o].began
               /\ call'[o].stage \in reading =>
                    \/ call'[o].began < last_refresh + CACHE_TTL
                    \/ call[o].stage \in reading /\ call'[o].began = call[o].began
    <2>1. CASE o = t
      BY <1>1, <1>3, <2>1
    <2>2. CASE o # t
      BY <1>1, <1>3, <2>2 DEF Collecting, Resting
    <2> QED BY <2>1, <2>2
  <1> QED BY <1>2, <1>4, EntryStays

LEMMA EntryIs ==
  ASSUME NEW entry, NEW kind, NEW cleared, NEW reading,
         EntryOK(entry, kind, cleared, reading)'
  PROVE  /\ volume_cache' = entry =>
              EntryOK(volume_cache, kind, cleared, reading)'
         /\ cwagent_cache' = entry =>
              EntryOK(cwagent_cache, kind, cleared, reading)'
  <1>1. CASE volume_cache' = entry
    BY <1>1 DEF EntryOK, Right, Excuses
  <1>2. CASE cwagent_cache' = entry
    BY <1>2 DEF EntryOK, Right, Excuses
  <1> QED BY <1>1, <1>2

LEMMA Sets ==
  /\ Resting \cap (ClearedVolumes \cup ReadingVolumes) = {}
  /\ Resting \cap (ClearedCwagent \cup ReadingCwagent) = {}
  /\ ClearedVolumes \subseteq ClearedCwagent
  /\ ReadingVolumes \subseteq ReadingCwagent
  /\ Volumes \in SUBSET Resources /\ AgentMetrics \in SUBSET Resources
  BY Bounds DEF Resting, ClearedVolumes, ReadingVolumes, ClearedCwagent,
                ReadingCwagent

\* A step that stamps nothing.
LEMMA MoveStep ==
  ASSUME TypeInv, TypeInv', CacheInv, overlapped \/ Alone,
         NEW t \in Threads, NEW d, call' = [call EXCEPT ![t] = d], CallOK(d)',
         UNCHANGED cloud, overlapped => overlapped',
         faults' \in {faults, {now}}, last_refresh' = last_refresh,
         d.stage \in ClearedCwagent \cup ReadingCwagent =>
           Collecting(t) /\ d.began = call[t].began,
         \/ EntryOK(volume_cache, Volumes, ClearedVolumes, ReadingVolumes)'
         \/ /\ volume_cache' = volume_cache
            /\ d.stage \in ClearedVolumes => call[t].stage \in ClearedVolumes
            /\ d.stage \in ReadingVolumes =>
                 \/ call[t].stage \in ReadingVolumes
                 \/ d.began < last_refresh + CACHE_TTL,
         \/ EntryOK(cwagent_cache, AgentMetrics, ClearedCwagent, ReadingCwagent)'
         \/ /\ cwagent_cache' = cwagent_cache
            /\ d.stage \in ClearedCwagent => call[t].stage \in ClearedCwagent
            /\ d.stage \in ReadingCwagent =>
                 \/ call[t].stage \in ReadingCwagent
                 \/ d.began < last_refresh + CACHE_TTL
  PROVE  CacheInv'
  <1>1. TimesOK' /\ \A o \in Threads : CallOK(call[o])'
    BY OthersStay
  <1> PICK v \in Entry, w \in Entry : v = volume_cache /\ w = cwagent_cache
    BY Numbers
  <1>2. /\ EntryOK(v, Volumes, ClearedVolumes, ReadingVolumes)
        /\ EntryOK(w, AgentMetrics, ClearedCwagent, ReadingCwagent)
    BY DEF CacheInv, EntriesOK
  <1>3. ASSUME volume_cache' = volume_cache,
               d.stage \in ClearedVolumes => call[t].stage \in ClearedVolumes,
               d.stage \in ReadingVolumes =>
                 \/ call[t].stage \in ReadingVolumes
                 \/ d.began < last_refresh + CACHE_TTL
        PROVE  EntryOK(volume_cache, Volumes, ClearedVolumes, ReadingVolumes)'
    <2>1. EntryOK(v, Volumes, ClearedVolumes, ReadingVolumes)'
      BY <1>2, <1>3, EntryKept, Sets
    <2> QED BY <1>3, <2>1, EntryIs
  <1>4. ASSUME cwagent_cache' = cwagent_cache,
               d.stage \in ClearedCwagent => call[t].stage \in ClearedCwagent,
               d.stage \in ReadingCwagent =>
                 \/ call[t].stage \in ReadingCwagent
                 \/ d.began < last_refresh + CACHE_TTL
        PROVE  EntryOK(cwagent_cache, AgentMetrics, ClearedCwagent,
                       ReadingCwagent)'
    <2>1. EntryOK(w, AgentMetrics, ClearedCwagent, ReadingCwagent)'
      BY <1>2, <1>4, EntryKept, Sets
    <2> QED BY <1>4, <2>1, EntryIs
  <1> QED BY <1>1, <1>3, <1>4 DEF CacheInv, EntriesOK

\* A call at rest knows nothing.
LEMMA RestOK ==
  ASSUME NEW c, c.stage \in Resting
  PROVE  CallOK(c)
  BY DEF CallOK, Resting, Unresolved, Undiscovered, Resolved

LEMMA RestStep ==
  ASSUME TypeInv, TypeInv', CacheInv, overlapped \/ Alone,
         NEW t \in Threads, NEW d, call' = [call EXCEPT ![t] = d],
         d.stage \in Resting, UNCHANGED <<cloud, caches, overlapped, faults>>
  PROVE  CacheInv'
  <1>1. CallOK(d)'
    BY RestOK, CallSame DEF cloud, caches
  <1>2. d.stage \notin ClearedCwagent \cup ReadingCwagent
    BY Sets
  <1> QED BY <1>1, <1>2, MoveStep, Sets DEF caches

LEMMA CollectKeeps ==
  ASSUME TypeInv, TypeInv', CacheInv, overlapped \/ Alone,
         NEW t \in Threads, Collect(t), UNCHANGED cloud
  PROVE  CacheInv'
  <1>1. now \in Nat /\ LONGEST_CALL \in Nat /\ overlapped \in BOOLEAN
    BY Numbers
  <1> PICK d : d = [NoCall EXCEPT !.stage = "refresh", !.began = now]
    OBVIOUS
  <1>2. /\ d.stage = "refresh" /\ d.began = now /\ d.volumes = {}
        /\ d.next = 1 /\ d.discovered = {}
    BY DEF NoCall
  <1>3. CallOK(d)'
    BY <1>1, <1>2 DEF CallOK, Resting, Unresolved, Undiscovered, Resolved, cloud
  <1>4. d.stage \notin ClearedCwagent \cup ReadingCwagent
    BY <1>2 DEF ClearedCwagent, ReadingCwagent
  <1>5. /\ call' = [call EXCEPT ![t] = d] /\ UNCHANGED <<caches, faults>>
        /\ overlapped => overlapped'
    BY <1>1 DEF Collect
  <1> QED BY <1>3, <1>4, <1>5, MoveStep, Sets DEF caches

\* What a call that only goes to another stage is.
LEMMA Gone ==
  ASSUME NEW c \in Call, NEW s, NEW d, d = [c EXCEPT !.stage = s]
  PROVE  /\ d.stage = s /\ d.began = c.began /\ d.volumes = c.volumes
         /\ d.next = c.next /\ d.discovered = c.discovered
         /\ d.unresolved = c.unresolved
         /\ Listed(d) = Listed(c)
         /\ \A ids, r : /\ Found(d, ids, r) = Found(c, ids, r)
                        /\ Recent(d, ids, r) = Recent(c, ids, r)
  <1>1. /\ d.stage = s /\ d.began = c.began /\ d.volumes = c.volumes
        /\ d.next = c.next /\ d.discovered = c.discovered
        /\ d.unresolved = c.unresolved
    BY DEF Call
  <1>2. Listed(d) = Listed(c)
    BY <1>1 DEF Listed
  <1>3. \A ids, r : Found(d, ids, r) = Found(c, ids, r)
    BY <1>1 DEF Found
  <1>4. \A ids, r : Recent(d, ids, r) = Recent(c, ids, r)
    BY <1>1 DEF Recent
  <1> QED BY <1>1, <1>2, <1>3, <1>4

\* The cache is looked at, or cleared.
LEMMA LookKeeps ==
  ASSUME TypeInv, TypeInv', CacheInv, overlapped \/ Alone, NEW t \in Threads,
         UNCHANGED cloud,
         RefreshCaches(t) \/ ClearCwagent(t) \/ ClearVolumes(t)
           \/ FindVolumes(t) \/ FindCwagent(t)
  PROVE  CacheInv'
  <1> PICK c \in Call : c = call[t]
    BY Numbers
  <1>0. /\ CallOK(c) /\ c.began \in Nat /\ call \in [Threads -> Call]
        /\ Collecting(t) = (c.stage \notin Resting)
    BY Numbers DEF CacheInv, Collecting, Resting
  <1> PICK s : /\ call' = [call EXCEPT ![t] = [c EXCEPT !.stage = s]]
               /\ UNCHANGED <<overlapped, faults, last_refresh>>
               /\ \/ /\ c.stage = "refresh" /\ s = "clear_cwagent"
                     /\ UNCHANGED <<volume_cache, cwagent_cache>>
                  \/ /\ c.stage = "refresh" /\ s = "volumes"
                     /\ UNCHANGED <<volume_cache, cwagent_cache>>
                     /\ ~(c.began >= last_refresh + CACHE_TTL)
                  \/ /\ c.stage = "clear_cwagent" /\ s = "clear_volumes"
                     /\ UNCHANGED volume_cache /\ cwagent_cache' = NoEntry
                  \/ /\ c.stage = "clear_volumes" /\ s = "stamp"
                     /\ UNCHANGED cwagent_cache /\ volume_cache' = NoEntry
                  \/ /\ c.stage = "volumes" /\ s \in {"get_volumes", "describe"}
                     /\ UNCHANGED <<volume_cache, cwagent_cache>>
                  \/ /\ c.stage = "cwagent"
                     /\ s \in {"get_cwagent", "list_metrics"}
                     /\ UNCHANGED <<volume_cache, cwagent_cache>>
    BY <1>0
    DEF RefreshCaches, ClearCwagent, ClearVolumes, FindVolumes, FindCwagent,
        Proceed, Goto, At, Expired, caches, marks
  <1> PICK d : d = [c EXCEPT !.stage = s]
    OBVIOUS
  <1>1. /\ d.stage = s /\ d.began = c.began /\ d.volumes = c.volumes
        /\ d.next = c.next /\ d.discovered = c.discovered
        /\ d.unresolved = c.unresolved
        /\ \A ids, r : /\ Found(d, ids, r) = Found(c, ids, r)
                       /\ Recent(d, ids, r) = Recent(c, ids, r)
    BY Gone
  <1>2. CallOK(d)
    <2>1. CASE s = "list_metrics"
      <3>1. c.next = 1 /\ c.discovered = {} /\ c.stage = "cwagent"
        BY <1>0, <2>1 DEF CallOK, Undiscovered
      <3>2. Listed(d) = {}
        BY <1>1, <3>1 DEF Listed
      <3> QED BY <1>0, <1>1, <2>1, <3>1, <3>2
              DEF CallOK, Resting, Unresolved, Undiscovered, Resolved
    <2>2. CASE s = "get_cwagent"
      BY <1>0, <1>1, <2>2
      DEF CallOK, Resting, Unresolved, Undiscovered, Resolved
    <2>3. CASE s \notin {"get_cwagent", "list_metrics"}
      BY <1>0, <1>1, <2>3
      DEF CallOK, Resting, Unresolved, Undiscovered, Resolved
    <2> QED BY <2>1, <2>2, <2>3
  <1>3. CallOK(d)'
    BY <1>2, CallSame DEF cloud
  <1>4. Collecting(t) /\ last_refresh \in Nat /\ CACHE_TTL \in Nat
    BY <1>0, Numbers DEF Resting
  <1>5. \/ EntryOK(volume_cache, Volumes, ClearedVolumes, ReadingVolumes)'
        \/ /\ volume_cache' = volume_cache
           /\ d.stage \in ClearedVolumes => c.stage \in ClearedVolumes
           /\ d.stage \in ReadingVolumes =>
                c.stage \in ReadingVolumes \/ d.began < last_refresh + CACHE_TTL
    <2>1. CASE volume_cache' = NoEntry
      BY <2>1 DEF EntryOK, NoEntry
    <2>2. CASE volume_cache' # NoEntry
      BY <1>0, <1>1, <1>4, <2>2 DEF ClearedVolumes, ReadingVolumes
    <2> QED BY <2>1, <2>2
  <1>6. \/ EntryOK(cwagent_cache, AgentMetrics, ClearedCwagent, ReadingCwagent)'
        \/ /\ cwagent_cache' = cwagent_cache
           /\ d.stage \in ClearedCwagent => c.stage \in ClearedCwagent
           /\ d.stage \in ReadingCwagent =>
                c.stage \in ReadingCwagent \/ d.began < last_refresh + CACHE_TTL
    <2>1. CASE cwagent_cache' = NoEntry
      BY <2>1 DEF EntryOK, NoEntry
    <2>2. CASE cwagent_cache' # NoEntry
      BY <1>0, <1>1, <1>4, <2>2 DEF ClearedCwagent, ReadingCwagent
    <2> QED BY <2>1, <2>2
  <1> QED BY <1>1, <1>3, <1>4, <1>5, <1>6, MoveStep

LEMMA StampKeeps ==
  ASSUME TypeInv, TypeInv', CacheInv, overlapped \/ Alone, NEW t \in Threads,
         UNCHANGED cloud, StampRefresh(t)
  PROVE  CacheInv'
  <1> PICK c \in Call : c = call[t]
    BY Numbers
  <1>0. /\ CallOK(c) /\ c.began \in Nat /\ call \in [Threads -> Call]
        /\ c.stage = "stamp" /\ Collecting(t) /\ TimesOK
        /\ call' = [call EXCEPT ![t] = [c EXCEPT !.stage = "volumes"]]
        /\ UNCHANGED <<cwagent_cache, volume_cache, marks>>
        /\ last_refresh' = now
    BY Numbers DEF CacheInv, Collecting, StampRefresh, At, Goto
  <1> PICK d : d = [c EXCEPT !.stage = "volumes"]
    OBVIOUS
  <1>1. /\ d.stage = "volumes" /\ d.began = c.began /\ d.volumes = c.volumes
        /\ d.next = c.next /\ d.discovered = c.discovered
    BY Gone
  <1>2. CallOK(d)'
    BY <1>0, <1>1
    DEF CallOK, Resting, Unresolved, Undiscovered, Resolved, cloud
  <1>3. TimesOK' /\ \A o \in Threads : CallOK(call[o])'
    BY <1>0, <1>2, OthersStay DEF marks
  <1>4. now <= c.began + LONGEST_CALL
    BY <1>0 DEF CallOK, Resting
  <1>5. /\ \A o \in Threads \ {t} : call'[o] = call[o]
        /\ call'[t].stage = "volumes" /\ call'[t].began = call[t].began
    BY <1>0, <1>1
  <1> PICK v \in Entry, w \in Entry : v = volume_cache /\ w = cwagent_cache
    BY Numbers
  <1>6. /\ EntryOK(v, Volumes, ClearedVolumes, ReadingVolumes)
        /\ EntryOK(w, AgentMetrics, ClearedCwagent, ReadingCwagent)
    BY DEF CacheInv, EntriesOK
  <1>7. /\ call[t].stage \in ClearedVolumes /\ call[t].stage \in ClearedCwagent
        /\ call'[t].stage \notin ClearedVolumes
        /\ call'[t].stage \notin ClearedCwagent
    BY <1>0, <1>5 DEF ClearedVolumes, ClearedCwagent
  <1>8. EntryOK(v, Volumes, ClearedVolumes, ReadingVolumes)'
    BY <1>0, <1>4, <1>5, <1>6, <1>7, EntryStamped, Sets
  <1>9. EntryOK(w, AgentMetrics, ClearedCwagent, ReadingCwagent)'
    BY <1>0, <1>4, <1>5, <1>6, <1>7, EntryStamped, Sets
  <1> QED BY <1>0, <1>3, <1>8, <1>9, EntryIs DEF CacheInv, EntriesOK

\* What a call found itself is recent.
LEMMA FoundIsRecent ==
  ASSUME TypeInv, NEW c \in Call, NEW ids, NEW r \in Resources,
         Found(c, ids, r)
  PROVE  Recent(c, ids, r)
  <1>1. /\ Excuses(ids, r) \subseteq Nat /\ c.began \in Nat
        /\ CACHE_TTL \in Nat \ {0} /\ LONGEST_CALL \in Nat
    BY Numbers DEF Call
  <1>2. Horizon \in Nat \ {0}
    BY <1>1 DEF Horizon
  <1> QED BY <1>1, <1>2 DEF Found, Recent

\* What was read from the entry in time is recent.
LEMMA ReadIsRecent ==
  ASSUME TypeInv, CacheInv, NEW t \in Threads,
         NEW entry \in Entry, entry.cached, NEW kind \in SUBSET Resources,
         NEW cleared, NEW reading, EntryOK(entry, kind, cleared, reading),
         call[t].stage \in reading, NEW r \in kind
  PROVE  Recent(call[t], entry.ids, r)
  <1>1. CASE Right(entry.ids, r)
    BY <1>1 DEF Recent
  <1>2. CASE \E z \in Excuses(entry.ids, r) : StoredAt(z, cleared, reading)
    <2> PICK z \in Excuses(entry.ids, r) : StoredAt(z, cleared, reading)
      BY <1>2
    <2>1. call[t].began < z + CACHE_TTL + 2 * Slack
      BY DEF StoredAt
    <2>2. call[t].began < z + (CACHE_TTL + 2 * Slack)
      BY <2>1, Numbers
    <2>3. Horizon = CACHE_TTL + 2 * Slack
      BY Numbers
    <2> QED BY <2>2, <2>3 DEF Recent
  <1> QED BY <1>1, <1>2 DEF EntryOK

LEMMA GetVolumesKeeps ==
  ASSUME TypeInv, TypeInv', CacheInv, overlapped \/ Alone, NEW t \in Threads,
         UNCHANGED cloud, GetVolumes(t)
  PROVE  CacheInv'
  <1> PICK c \in Call : c = call[t]
    BY Numbers
  <1> PICK v \in Entry : v = volume_cache
    BY Numbers
  <1>0. /\ CallOK(c) /\ c.began \in Nat /\ call \in [Threads -> Call]
        /\ c.stage = "get_volumes" /\ Collecting(t)
        /\ EntryOK(v, Volumes, ClearedVolumes, ReadingVolumes)
        /\ UNCHANGED <<caches, overlapped, faults>>
    BY Numbers DEF CacheInv, EntriesOK, Collecting, GetVolumes, At, KeyError,
                   marks
  <1>1. CASE KeyError(t)
    <2>1. NoCall.stage \in Resting
      BY DEF NoCall, Resting
    <2> QED BY <1>0, <1>1, <2>1, RestStep DEF KeyError
  <1>2. CASE ~KeyError(t)
    <2> PICK d : d = [c EXCEPT !.stage = "cwagent", !.volumes = v.ids]
      OBVIOUS
    <2>1. v.cached /\ call' = [call EXCEPT ![t] = d]
      BY <1>0, <1>2 DEF GetVolumes
    <2>2. /\ d.stage = "cwagent" /\ d.began = c.began /\ d.volumes = v.ids
          /\ d.next = c.next /\ d.discovered = c.discovered
      BY DEF Call
    <2>3. \A r \in Volumes : Recent(d, d.volumes, r)
      <3>1. c.stage \in ReadingVolumes
        BY <1>0 DEF ReadingVolumes
      <3>2. \A r \in Volumes : Recent(c, v.ids, r)
        BY <1>0, <2>1, <3>1, ReadIsRecent, Sets
      <3> QED BY <2>2, <3>2 DEF Recent
    <2>4. CallOK(d)
      BY <1>0, <2>2, <2>3
      DEF CallOK, Resting, Unresolved, Undiscovered, Resolved
    <2>5. CallOK(d)'
      BY <1>0, <2>4, CallSame DEF cloud, caches
    <2>6. /\ d.stage \notin ClearedVolumes /\ d.stage \notin ReadingVolumes
          /\ d.stage \notin ClearedCwagent /\ c.stage \in ReadingCwagent
      BY <1>0, <2>2 DEF ClearedVolumes, ReadingVolumes, ClearedCwagent,
                        ReadingCwagent
    <2> QED BY <1>0, <2>1, <2>2, <2>5, <2>6, MoveStep DEF caches
  <1> QED BY <1>1, <1>2

LEMMA DescribeKeeps ==
  ASSUME TypeInv, TypeInv', CacheInv, overlapped \/ Alone, NEW t \in Threads,
         UNCHANGED cloud, DescribeInstance(t)
  PROVE  CacheInv'
  <1> PICK c \in Call : c = call[t]
    BY Numbers
  <1>0. /\ CallOK(c) /\ c.began \in Nat /\ call \in [Threads -> Call]
        /\ c.stage = "describe" /\ Collecting(t)
        /\ UNCHANGED <<caches, overlapped, faults>>
    BY Numbers DEF CacheInv, Collecting, DescribeInstance, At, marks
  <1> PICK d : /\ call' = [call EXCEPT ![t] = d]
               /\ \/ d = [c EXCEPT !.stage = "store_volumes",
                                   !.volumes = there \cap Volumes]
                  \/ d = [c EXCEPT !.stage = "cwagent", !.unresolved = TRUE]
    BY <1>0 DEF DescribeInstance
  <1>1. /\ d.began = c.began /\ d.next = c.next /\ d.discovered = c.discovered
        /\ \/ d.stage = "store_volumes" /\ d.volumes = there \cap Volumes
           \/ d.stage = "cwagent" /\ d.volumes = c.volumes /\ d.unresolved
    BY DEF Call
  <1>2. CallOK(d)
    <2>1. c.volumes = {} /\ c.next = 1 /\ c.discovered = {}
      BY <1>0 DEF CallOK, Unresolved, Undiscovered
    <2>2. \A r \in Volumes : Right(there \cap Volumes, r)
      BY DEF Right
    <2>3. CASE d.stage = "store_volumes"
      BY <1>0, <1>1, <2>1, <2>2, <2>3
      DEF CallOK, Resting, Unresolved, Undiscovered, Resolved, Found
    <2>4. CASE d.stage = "cwagent"
      BY <1>0, <1>1, <2>1, <2>4
      DEF CallOK, Resting, Unresolved, Undiscovered, Resolved
    <2> QED BY <1>1, <2>3, <2>4
  <1>3. CallOK(d)'
    BY <1>0, <1>2, CallSame DEF cloud, caches
  <1>4. /\ d.stage \notin ClearedVolumes /\ d.stage \notin ReadingVolumes
        /\ d.stage \notin ClearedCwagent /\ c.stage \in ReadingCwagent
    BY <1>0, <1>1 DEF ClearedVolumes, ReadingVolumes, ClearedCwagent,
                      ReadingCwagent
  <1> QED BY <1>0, <1>1, <1>3, <1>4, MoveStep DEF caches

LEMMA AloneMeans ==
  ASSUME overlapped \/ Alone, NEW t \in Threads, Collecting(t)
  PROVE  overlapped \/ \A o \in Threads : Collecting(o) => o = t
  BY DEF Alone

LEMMA StoreVolumesKeeps ==
  ASSUME TypeInv, TypeInv', CacheInv, overlapped \/ Alone, NEW t \in Threads,
         UNCHANGED cloud, StoreVolumes(t)
  PROVE  CacheInv'
  <1> PICK c \in Call : c = call[t]
    BY Numbers
  <1>0. /\ CallOK(c) /\ c.began \in Nat /\ call \in [Threads -> Call]
        /\ c.stage = "store_volumes" /\ Collecting(t) /\ TimesOK
        /\ call' = [call EXCEPT ![t] = [c EXCEPT !.stage = "cwagent"]]
        /\ volume_cache' = Cached(c.volumes)
        /\ UNCHANGED <<cwagent_cache, last_refresh, marks>>
    BY Numbers DEF CacheInv, Collecting, StoreVolumes, At, Goto
  <1> PICK d : d = [c EXCEPT !.stage = "cwagent"]
    OBVIOUS
  <1>1. /\ d.stage = "cwagent" /\ d.began = c.began /\ d.volumes = c.volumes
        /\ d.next = c.next /\ d.discovered = c.discovered
        /\ \A ids, r : Recent(d, ids, r) = Recent(c, ids, r)
    BY Gone
  <1>2. /\ \A r \in Volumes : Found(c, c.volumes, r)
        /\ now <= c.began + LONGEST_CALL
    BY <1>0 DEF CallOK, Resting
  <1>3. CallOK(d)
    <2>1. \A r \in Volumes : Recent(c, c.volumes, r)
      BY <1>0, <1>2, FoundIsRecent, Bounds
    <2> QED BY <1>0, <1>1, <2>1
            DEF CallOK, Resting, Unresolved, Undiscovered, Resolved
  <1>4. CallOK(d)'
    BY <1>0, <1>3, CallSame DEF cloud, marks
  <1>5. EntryOK(volume_cache, Volumes, ClearedVolumes, ReadingVolumes)'
    <2>1. /\ call'[t].stage \notin ClearedVolumes \cup ReadingVolumes
          /\ \A o \in Threads \ {t} : call'[o] = call[o]
      BY <1>0, <1>1 DEF ClearedVolumes, ReadingVolumes
    <2>2. \A o \in Threads : Collecting(o) => call[o].began <= now
      BY DEF CacheInv, CallOK, Collecting, Resting
    <2>3. overlapped \/ \A o \in Threads : Collecting(o) => o = t
      BY <1>0, AloneMeans
    <2> PICK ids : ids = c.volumes
      OBVIOUS
    <2>4. EntryOK(Cached(ids), Volumes, ClearedVolumes, ReadingVolumes)'
      BY <1>0, <1>2, <2>1, <2>2, <2>3, EntryStored, Sets
    <2> PICK e : e = Cached(ids)
      OBVIOUS
    <2>5. EntryOK(e, Volumes, ClearedVolumes, ReadingVolumes)'
      BY <2>4
    <2> QED BY <1>0, <2>5, EntryIs
  <1>6. d.stage \notin ClearedCwagent /\ c.stage \in ReadingCwagent
    BY <1>0, <1>1 DEF ClearedCwagent, ReadingCwagent
  <1> QED BY <1>0, <1>1, <1>4, <1>5, <1>6, MoveStep DEF marks

LEMMA GetCwagentKeeps ==
  ASSUME TypeInv, TypeInv', CacheInv, overlapped \/ Alone, NEW t \in Threads,
         UNCHANGED cloud, GetCwagent(t)
  PROVE  CacheInv'
  <1> PICK c \in Call : c = call[t]
    BY Numbers
  <1> PICK v \in Entry : v = cwagent_cache
    BY Numbers
  <1>0. /\ CallOK(c) /\ c.began \in Nat /\ call \in [Threads -> Call]
        /\ c.stage = "get_cwagent" /\ Collecting(t)
        /\ EntryOK(v, AgentMetrics, ClearedCwagent, ReadingCwagent)
        /\ UNCHANGED <<caches, overlapped, faults>>
    BY Numbers DEF CacheInv, EntriesOK, Collecting, GetCwagent, At, KeyError,
                   marks
  <1>1. CASE KeyError(t)
    <2>1. NoCall.stage \in Resting
      BY DEF NoCall, Resting
    <2> QED BY <1>0, <1>1, <2>1, RestStep DEF KeyError
  <1>2. CASE ~KeyError(t)
    <2> PICK d : d = [c EXCEPT !.stage = "query", !.discovered = v.ids]
      OBVIOUS
    <2>1. v.cached /\ call' = [call EXCEPT ![t] = d]
      BY <1>0, <1>2 DEF GetCwagent
    <2>2. /\ d.stage = "query" /\ d.began = c.began /\ d.volumes = c.volumes
          /\ d.unresolved = c.unresolved /\ d.discovered = v.ids
          /\ \A ids, r : Recent(d, ids, r) = Recent(c, ids, r)
      BY DEF Call, Recent
    <2>3. \A r \in AgentMetrics : Recent(d, d.discovered, r)
      <3>1. c.stage \in ReadingCwagent
        BY <1>0 DEF ReadingCwagent
      <3>2. \A r \in AgentMetrics : Recent(c, v.ids, r)
        BY <1>0, <2>1, <3>1, ReadIsRecent, Sets
      <3> QED BY <2>2, <3>2
    <2>4. CallOK(d)
      BY <1>0, <2>2, <2>3
      DEF CallOK, Resting, Unresolved, Undiscovered, Resolved
    <2>5. CallOK(d)'
      BY <1>0, <2>4, CallSame DEF cloud, caches
    <2>6. d.stage \notin ClearedCwagent \cup ReadingCwagent
      BY <2>2 DEF ClearedCwagent, ReadingCwagent
    <2> QED BY <1>0, <2>1, <2>5, <2>6, MoveStep, Sets DEF caches
  <1> QED BY <1>1, <1>2

LEMMA StoreCwagentKeeps ==
  ASSUME TypeInv, TypeInv', CacheInv, overlapped \/ Alone, NEW t \in Threads,
         UNCHANGED cloud, StoreCwagent(t)
  PROVE  CacheInv'
  <1> PICK c \in Call : c = call[t]
    BY Numbers
  <1>0. /\ CallOK(c) /\ c.began \in Nat /\ call \in [Threads -> Call]
        /\ c.stage = "store_cwagent" /\ Collecting(t) /\ TimesOK
        /\ call' = [call EXCEPT ![t] = [c EXCEPT !.stage = "query"]]
        /\ cwagent_cache' = Cached(c.discovered)
        /\ UNCHANGED <<volume_cache, last_refresh, marks>>
    BY Numbers DEF CacheInv, Collecting, StoreCwagent, At, Goto
  <1> PICK d : d = [c EXCEPT !.stage = "query"]
    OBVIOUS
  <1>1. /\ d.stage = "query" /\ d.began = c.began /\ d.volumes = c.volumes
        /\ d.discovered = c.discovered /\ d.unresolved = c.unresolved
        /\ \A ids, r : Recent(d, ids, r) = Recent(c, ids, r)
    BY Gone
  <1>2. /\ \A r \in AgentMetrics : Found(c, c.discovered, r)
        /\ now <= c.began + LONGEST_CALL
    BY <1>0 DEF CallOK, Resting
  <1>3. CallOK(d)
    <2>1. \A r \in AgentMetrics : Recent(c, c.discovered, r)
      BY <1>0, <1>2, FoundIsRecent, Bounds
    <2> QED BY <1>0, <1>1, <2>1
            DEF CallOK, Resting, Unresolved, Undiscovered, Resolved
  <1>4. CallOK(d)'
    BY <1>0, <1>3, CallSame DEF cloud, marks
  <1>5. EntryOK(cwagent_cache, AgentMetrics, ClearedCwagent, ReadingCwagent)'
    <2>1. /\ call'[t].stage \notin ClearedCwagent \cup ReadingCwagent
          /\ \A o \in Threads \ {t} : call'[o] = call[o]
      BY <1>0, <1>1 DEF ClearedCwagent, ReadingCwagent
    <2>2. \A o \in Threads : Collecting(o) => call[o].began <= now
      BY DEF CacheInv, CallOK, Collecting, Resting
    <2>3. overlapped \/ \A o \in Threads : Collecting(o) => o = t
      BY <1>0, AloneMeans
    <2> PICK ids : ids = c.discovered
      OBVIOUS
    <2>4. EntryOK(Cached(ids), AgentMetrics, ClearedCwagent, ReadingCwagent)'
      BY <1>0, <1>2, <2>1, <2>2, <2>3, EntryStored, Sets
    <2> PICK e : e = Cached(ids)
      OBVIOUS
    <2>5. EntryOK(e, AgentMetrics, ClearedCwagent, ReadingCwagent)'
      BY <2>4
    <2> QED BY <1>0, <2>5, EntryIs
  <1>6. d.stage \notin ClearedCwagent \cup ReadingCwagent
    BY <1>1 DEF ClearedCwagent, ReadingCwagent
  <1> QED BY <1>0, <1>1, <1>4, <1>5, <1>6, MoveStep, Sets DEF marks

\* One more metric has been asked for, or the question failed.
LEMMA ListedKeeps ==
  ASSUME TypeInv, TypeInv', TimesOK, NEW c \in Call, CallOK(c),
         c.stage = "list_metrics", c.next \in 1 .. Len(CWAGENT),
         UNCHANGED <<cloud, overlapped, last_refresh>>,
         NEW found,
         \/ found = {CWAGENT[c.next]} \cap there /\ UNCHANGED faults
         \/ found = {} /\ faults' = {now},
         NEW d, d = [c EXCEPT !.stage = IF c.next < Len(CWAGENT)
                                        THEN "list_metrics" ELSE "store_cwagent",
                              !.next = @ + 1, !.discovered = @ \cup found]
  PROVE  CallOK(d)'
  <1> PICK k : k = CWAGENT[c.next]
    OBVIOUS
  <1>1. /\ d.began = c.began /\ d.volumes = c.volumes /\ d.next = c.next + 1
        /\ d.discovered = c.discovered \cup found
        /\ d.unresolved = c.unresolved
        /\ d.stage = IF c.next < Len(CWAGENT) THEN "list_metrics"
                     ELSE "store_cwagent"
    BY DEF Call
  <1>2. /\ now \in Nat /\ last_refresh \in Nat /\ c.began \in Nat
        /\ c.began <= now /\ now <= c.began + LONGEST_CALL
        /\ last_refresh <= now
    BY Numbers DEF CallOK, Resting, TimesOK, Call
  <1>3. Listed(d) = Listed(c) \cup {k}
    BY <1>1, Bounds DEF Listed
  <1>4. k \in AgentMetrics /\ Listed(d) \subseteq AgentMetrics
    BY <1>1, Bounds DEF Listed
  <1>5. d.discovered \subseteq Listed(d)
    BY <1>1, <1>3 DEF CallOK
  <1>6. ASSUME NEW r \in Listed(d)
        PROVE  Found(d, d.discovered, r)'
    <2>0. now' = now /\ last_refresh' = last_refresh /\ overlapped' = overlapped
          /\ there' = there /\ since' = since
      BY DEF cloud
    <2>1. CASE r \in found
      <3>1. Right(d.discovered, r)'
        BY <1>1, <2>0, <2>1 DEF Right
      <3> QED BY <3>1 DEF Found
    <2>2. CASE r \notin d.discovered /\ faults' = {now}
      <3> PICK n : n = now
        OBVIOUS
      <3>1. n \in Excuses(d.discovered, r)'
        BY <1>4, <2>2 DEF Excuses
      <3>2. d.began <= n /\ last_refresh' <= n
        BY <1>1, <1>2, <2>0
      <3> QED BY <3>1, <3>2 DEF Found
    <2>3. CASE /\ r \notin found
               /\ \/ r \in d.discovered
                  \/ found = {k} \cap there /\ UNCHANGED faults
      <3>1. r \in d.discovered <=> r \in c.discovered
        BY <1>1, <2>3
      <3>2. Found(c, c.discovered, r)
        <4>1. CASE r \in Listed(c)
          BY <4>1 DEF CallOK
        <4>2. CASE r \notin Listed(c)
          <5>1. r = k /\ r \notin c.discovered
            BY <1>3, <4>2 DEF CallOK
          <5>2. r \notin there
            BY <2>3, <3>1, <5>1, <1>1
          <5> QED BY <5>1, <5>2 DEF Found, Right
        <4> QED BY <4>1, <4>2
      <3>3. /\ Right(d.discovered, r)' = Right(c.discovered, r)
            /\ Excuses(d.discovered, r)' = Excuses(c.discovered, r)
        <4>1. Right(d.discovered, r)' = Right(c.discovered, r)
          BY <2>0, <3>1 DEF Right
        <4>2. Excuses(d.discovered, r)' = Excuses(c.discovered, r)
          BY <2>0, <2>3, <3>1 DEF Excuses
        <4> QED BY <4>1, <4>2
      <3>4. CASE Right(c.discovered, r)
        BY <3>3, <3>4 DEF Found
      <3>5. CASE \E z \in Excuses(c.discovered, r) :
                   c.began <= z /\ (overlapped \/ last_refresh <= z)
        <4> PICK z \in Excuses(c.discovered, r) :
              c.began <= z /\ (overlapped \/ last_refresh <= z)
          BY <3>5
        <4>1. /\ z \in Excuses(d.discovered, r)'
              /\ d.began <= z /\ (overlapped' \/ last_refresh' <= z)
          BY <1>1, <2>0, <3>3
        <4> QED BY <4>1 DEF Found
      <3> QED BY <3>2, <3>4, <3>5 DEF Found
    <2> QED BY <2>1, <2>2, <2>3
  <1>7. d.stage = "store_cwagent" => Listed(d) = AgentMetrics
    <2> SUFFICES ASSUME d.stage = "store_cwagent"
                 PROVE  AgentMetrics \subseteq Listed(d)
      BY <1>4
    <2>1. d.next - 1 = Len(CWAGENT)
      BY <1>1, Bounds
    <2> QED BY <2>1, CacheAssumption DEF CacheAssumption, Listed
  <1>8. \A v \in Volumes : \/ Recent(d, d.volumes, v)'
                           \/ d.unresolved /\ v \notin d.volumes
    <2>1. \A v \in Volumes : Recent(c, c.volumes, v) => Recent(c, c.volumes, v)'
      <3>1. Moved
        BY MovedByFault DEF cloud
      <3> QED BY <1>2, <3>1, RecentStays, Bounds
    <2>2. \A v : Recent(d, d.volumes, v)' = Recent(c, c.volumes, v)'
      BY <1>1 DEF Recent
    <2> QED BY <1>1, <2>1, <2>2 DEF CallOK, Resolved
  <1>9. Listed(d)' = Listed(d) /\ now' = now
    BY DEF Listed, cloud
  <1>10. /\ d.began <= now' /\ now' <= d.began + LONGEST_CALL
         /\ \A r \in Listed(d)' : Found(d, d.discovered, r)'
    BY <1>1, <1>2, <1>6, <1>9
  <1>11. CASE d.stage = "list_metrics"
    BY <1>5, <1>8, <1>9, <1>10, <1>11
    DEF CallOK, Resting, Unresolved, Undiscovered, Resolved
  <1>12. CASE d.stage = "store_cwagent"
    BY <1>5, <1>7, <1>8, <1>9, <1>10, <1>12
    DEF CallOK, Resting, Unresolved, Undiscovered, Resolved
  <1> QED BY <1>1, <1>11, <1>12

LEMMA ListMetricsKeeps ==
  ASSUME TypeInv, TypeInv', CacheInv, overlapped \/ Alone, NEW t \in Threads,
         UNCHANGED cloud, ListMetrics(t)
  PROVE  CacheInv'
  <1> PICK c \in Call : c = call[t]
    BY Numbers
  <1>0. /\ CallOK(c) /\ c.began \in Nat /\ call \in [Threads -> Call]
        /\ c.stage = "list_metrics" /\ Collecting(t) /\ TimesOK
        /\ c.next \in 1 .. Len(CWAGENT)
        /\ UNCHANGED <<caches, overlapped>>
    BY Numbers DEF CacheInv, Collecting, ListMetrics, At, TypeInv,
                   CollectionOK, CallsOK
  <1> PICK found :
        /\ call' = [call EXCEPT
             ![t].stage = IF call[t].next < Len(CWAGENT)
                          THEN "list_metrics" ELSE "store_cwagent",
             ![t].next = @ + 1, ![t].discovered = @ \cup found]
        /\ \/ found = {CWAGENT[c.next]} \cap there /\ UNCHANGED faults
           \/ found = {} /\ faults' = {now}
    <2> DEFINE After(found) ==
          [call EXCEPT
             ![t].stage = IF call[t].next < Len(CWAGENT)
                          THEN "list_metrics" ELSE "store_cwagent",
             ![t].next = @ + 1, ![t].discovered = @ \cup found]
    <2>1. \/ /\ call' = After({CWAGENT[call[t].next]} \cap there)
             /\ UNCHANGED faults
          \/ call' = After({}) /\ faults' = {now}
      BY DEF ListMetrics
    <2> HIDE DEF After
    <2>2. \E found : /\ call' = After(found)
                     /\ \/ found = {CWAGENT[c.next]} \cap there /\ UNCHANGED faults
                        \/ found = {} /\ faults' = {now}
      BY <2>1
    <2> QED BY <2>2 DEF After
  <1> PICK d : d = [c EXCEPT !.stage = IF c.next < Len(CWAGENT)
                                       THEN "list_metrics" ELSE "store_cwagent",
                             !.next = @ + 1, !.discovered = @ \cup found]
    OBVIOUS
  <1>1. call' = [call EXCEPT ![t] = d]
    BY <1>0
  <1>2. CallOK(d)'
    BY <1>0, ListedKeeps DEF caches
  <1>3. d.stage \in {"list_metrics", "store_cwagent"}
    BY DEF Call
  <1>4. d.stage \notin ClearedCwagent \cup ReadingCwagent
    BY <1>3 DEF ClearedCwagent, ReadingCwagent
  <1> QED BY <1>0, <1>1, <1>2, <1>4, MoveStep, Sets DEF caches

LEMMA AnswerKeeps ==
  ASSUME TypeInv, TypeInv', CacheInv, overlapped \/ Alone, NEW t \in Threads,
         UNCHANGED cloud, GetMetricData(t) \/ Respond(t)
  PROVE  CacheInv'
  <1>1. CASE Respond(t)
    <2>1. NoCall.stage \in Resting
      BY DEF NoCall, Resting
    <2> QED BY <1>1, <2>1, RestStep DEF Respond, marks
  <1>2. CASE GetMetricData(t)
    <2> DEFINE c(a, b, d) ==
          [[NoCall EXCEPT !.stage = "answered"] EXCEPT
             !.triggered = a, !.possible = b, !.certain = d]
               e(a) ==
          [[NoCall EXCEPT !.stage = "answered"] EXCEPT !.triggered = a]
    <2>1. \A a, b, d : c(a, b, d).stage = "answered" /\ e(a).stage = "answered"
      BY DEF NoCall
    <2>2. /\ \/ \E m \in Measurements : \E r :
                  call' = [call EXCEPT ![t] =
                            c(Judge(r), Possible(t, m), Certain(t, m))]
             \/ call' = [call EXCEPT ![t] = e(Judge(<<>>))]
          /\ UNCHANGED <<caches, marks>>
      BY <1>2 DEF GetMetricData
    <2> HIDE DEF c, e
    <2>3. \E d : call' = [call EXCEPT ![t] = d] /\ d.stage \in Resting
      BY <2>1, <2>2 DEF Resting
    <2> QED BY <2>2, <2>3, RestStep DEF marks
  <1> QED BY <1>1, <1>2

\* Steps of others, and of the world.
LEMMA WorldKeeps ==
  ASSUME TypeInv, TypeInv', CacheInv, Moved, now <= now', TimesOK',
         UNCHANGED <<caches, call, marks>>,
         \A o \in Threads : Collecting(o) => now' <= call[o].began + LONGEST_CALL
  PROVE  CacheInv'
  <1>1. UNCHANGED <<call, overlapped, last_refresh, volume_cache, cwagent_cache>>
    BY DEF caches, marks
  <1>2. \A o \in Threads : Collecting(o) => call[o].began <= now
    BY DEF CacheInv, CallOK, Collecting, Resting
  <1>3. ASSUME NEW o \in Threads
        PROVE  CallOK(call[o])'
    <2> PICK c \in Call : c = call[o]
      BY Numbers
    <2>1. c.stage = "list_metrics" => c.next \in 1 .. Len(CWAGENT)
      BY DEF TypeInv, CollectionOK, CallsOK
    <2>2. c.stage \notin Resting =>
            /\ now' <= c.began + LONGEST_CALL
            /\ overlapped' \/ last_refresh' = last_refresh
      BY <1>1 DEF Collecting, Resting
    <2>3. CallOK(c)'
      BY <1>1, <2>1, <2>2, CallStays DEF CacheInv
    <2> QED BY <1>1, <2>3, CallIs
  <1> PICK v \in Entry, w \in Entry : v = volume_cache /\ w = cwagent_cache
    BY Numbers
  <1>4. /\ EntryOK(v, Volumes, ClearedVolumes, ReadingVolumes)
        /\ EntryOK(w, AgentMetrics, ClearedCwagent, ReadingCwagent) /\ TimesOK
    BY DEF CacheInv, EntriesOK
  <1>5. \A o \in Threads :
          /\ call'[o] = call[o]
          /\ call[o].stage \in ClearedVolumes \cup ReadingVolumes =>
               call'[o].began <= now
          /\ call[o].stage \in ClearedCwagent \cup ReadingCwagent =>
               call'[o].began <= now
    BY <1>1, <1>2, Sets DEF Collecting, Resting
  <1>6. EntryOK(v, Volumes, ClearedVolumes, ReadingVolumes)'
    BY <1>1, <1>4, <1>5, EntryStays, Sets
  <1>7. EntryOK(w, AgentMetrics, ClearedCwagent, ReadingCwagent)'
    BY <1>1, <1>4, <1>5, EntryStays, Sets
  <1> QED BY <1>1, <1>3, <1>6, <1>7, EntryIs DEF CacheInv, EntriesOK

LEMMA CacheNext ==
  ASSUME TypeInv, TypeInv', CacheInv, overlapped \/ Alone, [Next]_vars
  PROVE  CacheInv'
  <1>0. TimesOK /\ now \in Nat
    BY Numbers DEF CacheInv
  <1>a. \A o \in Threads : Collecting(o) => now <= call[o].began + LONGEST_CALL
    BY DEF CacheInv, CallOK, Collecting, Resting
  <1>1. ASSUME NEW t \in Threads, Collection(t)
        PROVE  CacheInv'
    <2>1. UNCHANGED cloud
      BY <1>1 DEF Collection
    <2> QED BY <1>1, <2>1, CollectKeeps, LookKeeps, StampKeeps, GetVolumesKeeps,
               DescribeKeeps, StoreVolumesKeeps, GetCwagentKeeps,
               ListMetricsKeeps, StoreCwagentKeeps, AnswerKeeps
            DEF Collection, CollectionStep
  <1>2. ASSUME UNCHANGED <<cloud, caches, call, marks>>
        PROVE  CacheInv'
    <2>1. Moved
      BY <1>2, MovedByFault DEF cloud, marks
    <2>2. TimesOK'
      BY <1>0, <1>2 DEF TimesOK, cloud, caches, marks
    <2>3. now' = now
      BY <1>2 DEF cloud
    <2> QED BY <1>0, <1>2, <1>a, <2>1, <2>2, <2>3, WorldKeeps
  <1>3. ASSUME NEW t \in Threads, Inventory(t)
        PROVE  CacheInv'
    <2>1. UNCHANGED <<caches, call, marks>>
      BY <1>3 DEF Inventory, collection
    <2>2. UNCHANGED cloud
      BY <1>3, InventoryCloud DEF Inventory
    <2> QED BY <1>2, <2>1, <2>2
  <1>4. CASE CloudChange /\ UNCHANGED <<collection, listing>>
    <2>1. UNCHANGED <<caches, call, marks>> /\ now' = now
      BY <1>4 DEF collection, CloudChange, Appear, Disappear, ChangeState
    <2>2. Moved
      BY <1>4, <2>1, MovedByChange DEF marks
    <2>3. TimesOK'
      <3>1. since \in [Resources -> Nat]
        BY DEF TypeInv, CloudTypeOK
      <3>2. \A r \in Resources : since'[r] \in {since[r], now}
        BY <1>4, <3>1 DEF CloudChange, Appear, Disappear, ChangeState
      <3>3. \A r \in Resources : since'[r] <= now
        BY <1>0, <3>2 DEF TimesOK
      <3> QED BY <1>0, <2>1, <3>3 DEF TimesOK, caches, marks
    <2> QED BY <1>0, <1>a, <2>1, <2>2, <2>3, WorldKeeps
  <1>5. CASE Tick
    <2>1. /\ UNCHANGED <<there, since, caches, call, marks>> /\ now' = now + 1
          /\ \A o \in Threads : Collecting(o) => now < call[o].began + LONGEST_CALL
      BY <1>5 DEF Tick, collection
    <2>2. Moved
      BY <2>1, MovedByFault DEF marks
    <2>3. TimesOK'
      <3>1. since \in [Resources -> Nat] /\ faults \subseteq Nat
            /\ last_refresh \in Nat
        BY DEF TypeInv, CloudTypeOK, CollectionOK
      <3>2. /\ \A r \in Resources : since[r] <= now + 1
            /\ \A z \in faults : z <= now + 1
            /\ last_refresh <= now + 1
        BY <1>0, <3>1 DEF TimesOK
      <3> QED BY <2>1, <3>2 DEF TimesOK, caches, marks
    <2>4. \A o \in Threads : Collecting(o) =>
            now' <= call[o].began + LONGEST_CALL
      BY <1>0, <2>1, Numbers
    <2>5. now <= now'
      BY <1>0, <2>1
    <2> QED BY <2>1, <2>2, <2>3, <2>4, <2>5, WorldKeeps
  <1>6. CASE Quiet \/ UNCHANGED vars
    BY <1>2, <1>6 DEF Quiet, vars, collection
  <1> QED BY <1>1, <1>3, <1>4, <1>5, <1>6 DEF Next

LEMMA CacheHolds == Spec => [](TypeInv /\ (overlapped \/ Alone) /\ CacheInv)
  <1>1. Init => (overlapped \/ Alone) /\ CacheInv
    <2>1. Init => Alone
      BY DEF Init, CacheInit, Alone, Collecting, At, NoCall
    <2>2. Init => CacheInv
      <3> SUFFICES ASSUME Init PROVE CacheInv
        OBVIOUS
      <3>1. TimesOK
        BY DEF Init, CloudInit, CacheInit, TimesOK
      <3>2. EntriesOK
        BY DEF Init, CacheInit, EntriesOK, EntryOK, NoEntry
      <3>3. NoCall.stage \in Resting
        BY DEF NoCall, Resting
      <3>4. \A t \in Threads : CallOK(call[t])
        BY <3>3, RestOK DEF Init, CacheInit
      <3> QED BY <3>1, <3>2, <3>4 DEF CacheInv
    <2> QED BY <2>1, <2>2
  <1>2. TypeInv /\ TypeInv' /\ (overlapped \/ Alone) /\ CacheInv /\ [Next]_vars
          => (overlapped \/ Alone)' /\ CacheInv'
    BY AloneNext, CacheNext
  <1> QED BY <1>1, <1>2, TypeHolds, PTL DEF Spec

-----------------------------------------------------------------------------
(* What is answered.                                                       *)

AnswerOK(c) == c.triggered \subseteq c.possible /\ c.certain \subseteq c.triggered
AnswersOK == \A t \in Threads : AnswerOK(call[t])

\* At the query, what was asked for is all that was there for long, and
\* nothing that has long been gone.
LEMMA QueryIsRecent ==
  ASSUME TypeInv, CacheInv, NEW t \in Threads, At(t, "query")
  PROVE  LET gone == Settled(t) \ there
             found == Settled(t) \cap there
             V == call[t].volumes
             D == call[t].discovered
         IN /\ V \subseteq Volumes \ gone /\ D \subseteq AgentMetrics \ gone
            /\ ~call[t].unresolved => found \cap Volumes \subseteq V
            /\ FaultsForgotten(t) => found \cap AgentMetrics \subseteq D
  <1> PICK c \in Call : c = call[t]
    BY Numbers
  <1>1. /\ \A v \in Volumes : \/ Recent(c, c.volumes, v)
                              \/ c.unresolved /\ v \notin c.volumes
        /\ \A r \in AgentMetrics : Recent(c, c.discovered, r)
    BY DEF CacheInv, CallOK, At, Resolved
  <1>2. /\ c.volumes \subseteq Volumes /\ c.discovered \subseteq AgentMetrics
        /\ c.began \in Nat
    BY DEF Call
  <1>3. /\ Volumes \cap AgentMetrics = {} /\ Volumes \subseteq Resources
        /\ AgentMetrics \subseteq Resources
    BY CloudAssumption, Bounds DEF CloudAssumption
  <1>4. since \in [Resources -> Nat] /\ faults \subseteq Nat /\ Horizon \in Nat
    BY Numbers DEF TypeInv, CloudTypeOK, CollectionOK
  <1>5. ASSUME NEW r \in Settled(t), NEW ids, Recent(c, ids, r),
               r \notin AgentMetrics \ ids \/ FaultsForgotten(t)
        PROVE  r \in ids <=> r \in there
    <2>1. r \in Resources /\ since[r] + Horizon <= c.began
      BY DEF Settled
    <2>2. ASSUME NEW z \in Excuses(ids, r), c.began < z + Horizon
          PROVE  FALSE
      <3>1. z = since[r] \/ (z \in faults /\ FaultsForgotten(t))
        BY <1>5 DEF Excuses
      <3>2. z \in Nat /\ z + Horizon <= c.began
        BY <1>4, <2>1, <3>1 DEF FaultsForgotten
      <3> QED BY <1>2, <1>4, <2>2, <3>2
    <2> QED BY <1>5, <2>2 DEF Recent, Right
  <1>6. \A v \in Settled(t) \cap Volumes :
          /\ v \in c.volumes => v \in there
          /\ v \in there /\ ~c.unresolved => v \in c.volumes
    BY <1>1, <1>3, <1>5
  <1>7. \A r \in Settled(t) \cap AgentMetrics :
          /\ r \in c.discovered => r \in there
          /\ r \in there /\ FaultsForgotten(t) => r \in c.discovered
    BY <1>1, <1>5
  <1> QED BY <1>2, <1>6, <1>7

LEMMA AnswerIs ==
  ASSUME NEW o \in Threads, NEW c, call'[o] = c, AnswerOK(c)
  PROVE  AnswerOK(call[o])'
  BY DEF AnswerOK

LEMMA DataAnswer ==
  ASSUME TypeInv, CacheInv, NEW t \in Threads, GetMetricData(t)
  PROVE  \E d : call' = [call EXCEPT ![t] = d] /\ AnswerOK(d)
  <1> PICK V, D : V = call[t].volumes /\ D = call[t].discovered
    OBVIOUS
  <1> PICK found, gone : /\ found = Settled(t) \cap there
                         /\ gone = Settled(t) \ there
    OBVIOUS
  <1>1. V \subseteq Volumes /\ D \subseteq AgentMetrics
    BY Numbers DEF Call
  <1>2. /\ V \subseteq Volumes \ gone /\ D \subseteq AgentMetrics \ gone
        /\ ~call[t].unresolved => found \cap Volumes \subseteq V
        /\ FaultsForgotten(t) => found \cap AgentMetrics \subseteq D
    BY QueryIsRecent DEF GetMetricData
  <1> DEFINE answer(a, b, d) ==
        [[NoCall EXCEPT !.stage = "answered"] EXCEPT
           !.triggered = a, !.possible = b, !.certain = d]
             empty(a) ==
        [[NoCall EXCEPT !.stage = "answered"] EXCEPT !.triggered = a]
  <1>3. \A a, b, d : /\ answer(a, b, d).triggered = a
                     /\ answer(a, b, d).possible = b
                     /\ answer(a, b, d).certain = d
                     /\ empty(a).triggered = a
                     /\ empty(a).possible = {} /\ empty(a).certain = {}
    BY DEF NoCall
  <1>4. \/ \E m \in Measurements :
             call' = [call EXCEPT ![t] =
                       answer(Judge(Restricted(m, Queries(V, D))),
                              Possible(t, m), Certain(t, m))]
        \/ call' = [call EXCEPT ![t] = empty(Judge(<<>>))]
    BY DEF GetMetricData
  <1> HIDE DEF answer, empty
  <1>5. ASSUME NEW m \in Measurements
        PROVE  /\ Judge(Restricted(m, Queries(V, D))) \subseteq Possible(t, m)
               /\ Certain(t, m) \subseteq Judge(Restricted(m, Queries(V, D)))
    <2>1. Judge(Restricted(m, Queries(V, D))) \subseteq Possible(t, m)
      <3>1. Possible(t, m) = Over(m, Volumes \ gone, AgentMetrics \ gone)
        BY DEF Possible
      <3> PICK W \in SUBSET Volumes, B \in SUBSET AgentMetrics :
            W = Volumes \ gone /\ B = AgentMetrics \ gone
        OBVIOUS
      <3>2. Judge(Restricted(m, Queries(V, D))) \subseteq Over(m, W, B)
        BY <1>1, <1>2, JudgeBetween
      <3> QED BY <3>1, <3>2
    <2>2. Certain(t, m) \subseteq Judge(Restricted(m, Queries(V, D)))
      <3> PICK W \in SUBSET Volumes, B \in SUBSET AgentMetrics :
            /\ W = IF call[t].unresolved THEN {} ELSE found \cap Volumes
            /\ B = IF FaultsForgotten(t) THEN found \cap AgentMetrics ELSE {}
        OBVIOUS
      <3>1. Certain(t, m) = Over(m, W, B)
        BY DEF Certain
      <3>2. W \subseteq V /\ B \subseteq D
        BY <1>2
      <3>3. Over(m, W, B) \subseteq Judge(Restricted(m, Queries(V, D)))
        BY <1>1, <3>2, JudgeBetween
      <3> QED BY <3>1, <3>3
    <2> QED BY <2>1, <2>2
  <1>6. CASE \E m \in Measurements :
               call' = [call EXCEPT ![t] =
                         answer(Judge(Restricted(m, Queries(V, D))),
                                Possible(t, m), Certain(t, m))]
    <2> PICK m \in Measurements :
          call' = [call EXCEPT ![t] =
                    answer(Judge(Restricted(m, Queries(V, D))),
                           Possible(t, m), Certain(t, m))]
      BY <1>6
    <2> PICK a, b, d : /\ a = Judge(Restricted(m, Queries(V, D)))
                       /\ b = Possible(t, m) /\ d = Certain(t, m)
      OBVIOUS
    <2>1. call' = [call EXCEPT ![t] = answer(a, b, d)]
      OBVIOUS
    <2>2. a \subseteq b /\ d \subseteq a
      BY <1>5
    <2>3. AnswerOK(answer(a, b, d))
      BY <1>3, <2>2 DEF AnswerOK
    <2> QED BY <2>1, <2>3
  <1>7. CASE call' = [call EXCEPT ![t] = empty(Judge(<<>>))]
    BY <1>3, <1>7, JudgeNothing DEF AnswerOK
  <1> QED BY <1>4, <1>6, <1>7

\* Every other step leaves what was answered alone, or forgets it.
LEMMA OtherAnswer ==
  ASSUME TypeInv, NEW t \in Threads, AnswerOK(call[t]),
         Collect(t) \/ (CollectionStep(t) /\ ~GetMetricData(t))
  PROVE  \E d : call' = [call EXCEPT ![t] = d] /\ AnswerOK(d)
  <1> PICK c \in Call : c = call[t]
    BY Numbers
  <1>0. call \in [Threads -> Call] /\ AnswerOK(c)
    BY Numbers
  <1>1. CASE Respond(t) \/ KeyError(t)
    <2>1. AnswerOK(NoCall)
      BY DEF AnswerOK, NoCall
    <2> QED BY <1>1, <2>1 DEF Respond, KeyError
  <1>2. CASE Collect(t)
    <2>1. AnswerOK([NoCall EXCEPT !.stage = "refresh", !.began = now])
      BY DEF AnswerOK, NoCall
    <2> QED BY <1>2, <2>1 DEF Collect
  <1>3. CASE RefreshCaches(t) \/ ClearCwagent(t) \/ ClearVolumes(t)
             \/ StampRefresh(t) \/ FindVolumes(t) \/ StoreVolumes(t)
             \/ FindCwagent(t) \/ StoreCwagent(t)
    <2> PICK s : Goto(t, s)
      BY <1>3 DEF RefreshCaches, ClearCwagent, ClearVolumes, StampRefresh,
                  FindVolumes, StoreVolumes, FindCwagent, StoreCwagent, Proceed
    <2>1. call' = [call EXCEPT ![t] = [c EXCEPT !.stage = s]]
      BY <1>0 DEF Goto
    <2>2. AnswerOK([c EXCEPT !.stage = s])
      BY <1>0 DEF AnswerOK, Call
    <2> QED BY <2>1, <2>2
  <1>4. CASE GetVolumes(t) /\ ~KeyError(t)
    <2> PICK d : d = [c EXCEPT !.stage = "cwagent", !.volumes = volume_cache.ids]
      OBVIOUS
    <2>1. call' = [call EXCEPT ![t] = d]
      BY <1>0, <1>4 DEF GetVolumes
    <2>2. AnswerOK(d)
      BY <1>0 DEF AnswerOK, Call
    <2> QED BY <2>1, <2>2
  <1>5. CASE DescribeInstance(t)
    <2> PICK d : /\ call' = [call EXCEPT ![t] = d]
                 /\ \/ d = [c EXCEPT !.stage = "store_volumes",
                                     !.volumes = there \cap Volumes]
                    \/ d = [c EXCEPT !.stage = "cwagent", !.unresolved = TRUE]
      BY <1>0, <1>5 DEF DescribeInstance
    <2>1. AnswerOK(d)
      BY <1>0 DEF AnswerOK, Call
    <2> QED BY <2>1
  <1>6. CASE GetCwagent(t) /\ ~KeyError(t)
    <2> PICK d : d = [c EXCEPT !.stage = "query",
                               !.discovered = cwagent_cache.ids]
      OBVIOUS
    <2>1. call' = [call EXCEPT ![t] = d]
      BY <1>0, <1>6 DEF GetCwagent
    <2>2. AnswerOK(d)
      BY <1>0 DEF AnswerOK, Call
    <2> QED BY <2>1, <2>2
  <1>7. CASE ListMetrics(t)
    <2> DEFINE s == IF c.next < Len(CWAGENT) THEN "list_metrics"
                    ELSE "store_cwagent"
               d(found) == [c EXCEPT !.stage = s, !.next = @ + 1,
                                     !.discovered = @ \cup found]
    <2>1. \A found : AnswerOK(d(found))
      BY <1>0 DEF AnswerOK, Call
    <2>2. \/ call' = [call EXCEPT ![t] = d({CWAGENT[c.next]} \cap there)]
          \/ call' = [call EXCEPT ![t] = d({})]
      BY <1>0, <1>7 DEF ListMetrics
    <2> HIDE DEF d
    <2> QED BY <2>1, <2>2
  <1> QED BY <1>1, <1>2, <1>3, <1>4, <1>5, <1>6, <1>7 DEF CollectionStep

LEMMA AnswersNext ==
  ASSUME TypeInv, CacheInv, AnswersOK, [Next]_vars
  PROVE  AnswersOK'
  <1>0. call \in [Threads -> Call]
    BY Numbers
  <1>1. ASSUME NEW t \in Threads, Collection(t)
        PROVE  AnswersOK'
    <2> PICK d : call' = [call EXCEPT ![t] = d] /\ AnswerOK(d)
      BY <1>1, DataAnswer, OtherAnswer DEF Collection, AnswersOK
    <2>1. ASSUME NEW o \in Threads
          PROVE  AnswerOK(call[o])'
      <3> PICK c : c = IF o = t THEN d ELSE call[o]
        OBVIOUS
      <3>1. call'[o] = c /\ AnswerOK(c)
        BY <1>0 DEF AnswersOK
      <3> QED BY <3>1, AnswerIs
    <2> QED BY <2>1 DEF AnswersOK
  <1>2. ASSUME UNCHANGED call
        PROVE  AnswersOK'
    BY <1>2 DEF AnswersOK, AnswerOK
  <1>3. ASSUME NEW t \in Threads, Inventory(t)
        PROVE  UNCHANGED call
    BY <1>3 DEF Inventory, collection
  <1>4. CASE (CloudChange /\ UNCHANGED <<collection, listing>>) \/ Tick \/ Quiet
             \/ UNCHANGED vars
    BY <1>2, <1>4 DEF collection, vars, Tick, Quiet
  <1> QED BY <1>1, <1>2, <1>3, <1>4 DEF Next

LEMMA AnswersHold == Spec => []AnswersOK
  <1>1. Init => AnswersOK
    BY DEF Init, CacheInit, AnswersOK, AnswerOK, NoCall
  <1>2. TypeInv /\ CacheInv /\ AnswersOK /\ [Next]_vars => AnswersOK'
    BY AnswersNext
  <1> QED BY <1>1, <1>2, CacheHolds, PTL DEF Spec

\* Whatever threads share the caches, however discoveries, clears and failures
\* interleave and volumes and metrics come and go, an alarm has its cause in
\* what CloudWatch holds of the instance as it was within the horizon.
THEOREM AlarmsHaveCause == Spec => []NoFalseAlarm
  <1>1. AnswersOK => NoFalseAlarm
    BY DEF AnswersOK, AnswerOK, NoFalseAlarm
  <1> QED BY <1>1, AnswersHold, PTL

\* And a feature that volumes and metrics which have been there for longer
\* take over its threshold is reported, unless a call that should have found
\* them failed: within the horizon for list_metrics, in the very collection
\* for describe_instances and get_metric_data.
THEOREM OverloadsAreReported == Spec => []OverloadIsReported
  <1>1. AnswersOK => OverloadIsReported
    BY DEF AnswersOK, AnswerOK, OverloadIsReported
  <1> QED BY <1>1, AnswersHold, PTL
=============================================================================
