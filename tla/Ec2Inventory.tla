---------------------------- MODULE Ec2Inventory ----------------------------
(***************************************************************************)
(* The listing of EC2 instances: backend/aws/ec2_service.py under          *)
(* backend/api/instances.py.  describe_instances answers page by page, and *)
(* instances change state between two pages; any call of EC2 may fail.     *)
(* Of an instance only the identifier and the state are kept.              *)
(***************************************************************************)
EXTENDS AwsCloud

CONSTANTS
  Listers,                  \* threads that serve these requests
  UnknownId,                \* an identifier no instance has
  StateNames,               \* what clients may write for a state
  Cleaned,                  \* each of them after strip() and lower()
  StateQueries              \* the lists of names they send, as sets

ASSUME InventoryAssumption ==
  /\ UnknownId \notin Instances /\ IsFiniteSet(Listers)
  /\ Cleaned \in [StateNames -> STRING]
  /\ StateQueries \subseteq SUBSET StateNames

VARIABLE listing            \* the request of each thread

InventoryOps == {"list_instances", "summarize_instances", "get_instance"}
Item == [id : Instances, state : _VALID_STATES]

\* items is what the pages read so far gave.  wanted and began are history:
\* the states asked for, and the changes EC2 had seen by then.  A request that
\* raises (400, 404, 502) is answered at once.
Listing ==
  [op : InventoryOps \cup {"none"}, id : Instances \cup {UnknownId},
   filter : SUBSET _VALID_STATES, page : Nat, items : SUBSET Item,
   ok : BOOLEAN, wanted : SUBSET _VALID_STATES, began : Nat]

NoListing ==
  [op |-> "none", id |-> UnknownId, filter |-> {}, page |-> 0, items |-> {},
   ok |-> FALSE, wanted |-> {}, began |-> 0]

InventoryInit == listing = [t \in Listers |-> NoListing]

-----------------------------------------------------------------------------
Free(t) == listing[t].op = "none"

List(t, l) == listing' = [listing EXCEPT ![t] = l] /\ UNCHANGED cloud

\* _normalize_states: no state, or nothing but blanks, is no filter.
Normalized(states) == {Cleaned[s] : s \in states} \ {""}

\* History: the states named, whatever the spelling; all if none is.
Wanted(states) ==
  LET named == {s \in _VALID_STATES : \E n \in states : Cleaned[n] = s} IN
  IF named = {} THEN _VALID_STATES ELSE named

Asked(op) == [NoListing EXCEPT !.op = op, !.wanted = _VALID_STATES,
                               !.began = changes]

\* Mutant: an unknown state is passed on to EC2.
RequestListUnchecked(t) ==
  \E states \in StateQueries :
    /\ Free(t)
    /\ List(t, [Asked("list_instances") EXCEPT
                 !.filter = Normalized(states), !.page = 1,
                 !.wanted = Wanted(states)])

RequestList(t) ==
  \E states \in StateQueries :
    LET filter == Normalized(states) IN
    /\ Free(t)
    /\ \/ /\ filter \subseteq _VALID_STATES
          /\ List(t, [Asked("list_instances") EXCEPT
                       !.filter = filter, !.page = 1, !.wanted = Wanted(states)])
       \/ ~(filter \subseteq _VALID_STATES) /\ List(t, NoListing)

RequestSummary(t) ==
  /\ Free(t)
  /\ List(t, [Asked("summarize_instances") EXCEPT !.page = 1])

RequestInstance(t) ==
  \E id \in Instances \cup {UnknownId} :
    Free(t) /\ List(t, [Asked("get_instance") EXCEPT !.id = id])

-----------------------------------------------------------------------------
\* What a call of EC2 returns of some instances: those that match now.
Described(ids, filter) ==
  {[id |-> i, state |-> ec2[i]] :
     i \in {j \in ids : filter = {} \/ ec2[j] \in filter}}

Answer(l) == [l EXCEPT !.ok = TRUE]

\* Mutant: the rest is not asked for.
FetchFirstPage(t) ==
  /\ listing[t].page = 1 /\ ~listing[t].ok
  /\ List(t, Answer([listing[t] EXCEPT !.page = 2,
                       !.items = Described(Pages[1], listing[t].filter)]))

\* _fetch_instances: the next page, after which the caller answers if it was
\* the last.
FetchPage(t) ==
  LET l == listing[t]
      read == [l EXCEPT !.page = @ + 1,
                        !.items = @ \cup Described(Pages[l.page], l.filter)]
  IN
  /\ l.page \in DOMAIN Pages /\ ~l.ok
  /\ \/ l.page < Len(Pages) /\ List(t, read)
     \/ l.page = Len(Pages) /\ List(t, Answer(read))
     \/ List(t, NoListing)

GetInstance(t) ==
  LET l == listing[t] IN
  /\ l.op = "get_instance" /\ ~l.ok
  /\ \/ /\ l.id \in Instances
        /\ List(t, Answer([l EXCEPT !.items = Described({l.id}, {})]))
     \/ List(t, NoListing)

\* Mutant: the summary counts pages, not instances.
CountByStateOnce(items) ==
  [s \in {x.state : x \in items} |-> 1]

\* What summarize_instances answers: Counter over the states.
CountByState(items) ==
  [s \in {x.state : x \in items} |->
     Cardinality({x \in items : x.state = s})]

AnswerListing(t) ==
  listing[t].ok /\ List(t, NoListing)

InventoryStep(t) == FetchPage(t) \/ GetInstance(t) \/ AnswerListing(t)
InventoryRequest(t) ==
  RequestList(t) \/ RequestSummary(t) \/ RequestInstance(t)

-----------------------------------------------------------------------------
(* What a client may rely on.                                              *)

Unchanged(i, l) == changed[i] <= l.began

\* A list is read in several calls while instances change, and the filter is
\* applied to each page at its own time.  Even so, of every instance that did
\* not change since the request began a successful answer is right: it is
\* listed, once, with its state, if and only if its state was asked for
\* (_fetch_instances, list_instances, get_instance).
ListingIsTrue ==
  \A t \in Listers : LET l == listing[t] IN
    l.ok =>
      /\ \A x, y \in l.items : x.id = y.id => x = y
      /\ \A x \in l.items : x.state \in l.wanted
      /\ \A i \in Instances : Unchanged(i, l) =>
           ([id |-> i, state |-> ec2[i]] \in l.items
              <=> /\ ec2[i] \in l.wanted
                  /\ l.op = "get_instance" => l.id = i)

\* A summary counts no state below the instances that kept it meanwhile nor
\* above those that may have been in it (summarize_instances).
SummaryIsTrue ==
  \A t \in Listers :
    LET l == listing[t]
        count == CountByState(l.items)
        kept(s) == {i \in Instances : Unchanged(i, l) /\ ec2[i] = s}
        moved == {i \in Instances : ~Unchanged(i, l)}
        counted == [s \in _VALID_STATES |->
                      IF s \in DOMAIN count THEN count[s] ELSE 0]
    IN
    l.op = "summarize_instances" /\ l.ok =>
      /\ \A s \in _VALID_STATES :
           /\ counted[s] >= Cardinality(kept(s))
           /\ counted[s] <= Cardinality(kept(s)) + Cardinality(moved)
      /\ SumFunctionOnSet(counted, _VALID_STATES) = Cardinality(Instances)
=============================================================================
