---------------------------- MODULE RateLimiter ----------------------------
(***************************************************************************)
(* assert_not_rate_limited of backend/services/rate_limiter.py, which      *)
(* register, login and change-password call before they touch the          *)
(* database.  The buckets are deques shared by the threads of the server   *)
(* without a lock: one operation on a deque is atomic, two are not.  An    *)
(* action is one such operation.                                           *)
(***************************************************************************)
EXTENDS Integers, Sequences, FiniteSets

CONSTANTS
  Threads,                  \* threads that serve requests
  Keys,                     \* what is limited: route, address and e-mail
  WINDOW_SECONDS, MAX_REQUESTS_PER_WINDOW,
  MaxCalls, MaxTime         \* bounds of the model

ASSUME SetsAssumption == IsFiniteSet(Threads) /\ Keys # {}
ASSUME LimitsAssumption ==
  /\ WINDOW_SECONDS \in Nat /\ MAX_REQUESTS_PER_WINDOW \in Nat \ {0}
  /\ MaxCalls \in Nat /\ MaxTime \in Nat

VARIABLES
  now,          \* the clock
  requests,     \* _REQUESTS: the times in the bucket of each key
  call,         \* where each thread is in assert_not_rate_limited
  calls,        \* calls begun so far (bounded by MaxCalls)
  \* history:
  admitted,     \* the times of the requests let through, per key
  overlapped,   \* keys two calls have worked on at once
  failed        \* keys a call has met an IndexError on

vars == <<now, requests, call, calls, admitted, overlapped, failed>>

Stage == {"idle", "loop", "first", "popleft", "limit", "append"}
Call == [stage : Stage, key : Keys, now : Nat]
Idle == [stage |-> "idle", key |-> CHOOSE k \in Keys : TRUE, now |-> 0]

Init ==
  /\ now = 0 /\ calls = 0
  /\ requests = [k \in Keys |-> <<>>]
  /\ call = [t \in Threads |-> Idle]
  /\ admitted = [k \in Keys |-> <<>>]
  /\ overlapped = {} /\ failed = {}

-----------------------------------------------------------------------------
At(t, stage) == call[t].stage = stage
Bucket(t) == requests[call[t].key]
Goto(t, stage) == call' = [call EXCEPT ![t].stage = stage]

Enter(t, k) ==
  /\ At(t, "idle") /\ calls < MaxCalls
  /\ calls' = calls + 1
  /\ call' = [call EXCEPT ![t] = [stage |-> "loop", key |-> k, now |-> now]]
  /\ overlapped' =
       IF \E o \in Threads \ {t} : ~At(o, "idle") /\ call[o].key = k
       THEN overlapped \cup {k} ELSE overlapped
  /\ UNCHANGED <<now, requests, admitted, failed>>

\* An exception of the deque leaves the handler.
IndexError(t) ==
  /\ Goto(t, "idle")
  /\ failed' = failed \cup {call[t].key}
  /\ UNCHANGED <<now, requests, calls, admitted, overlapped>>

Proceed(t, stage) ==
  /\ Goto(t, stage)
  /\ UNCHANGED <<now, requests, calls, admitted, overlapped, failed>>

\* Mutant: the loop does not test the bucket.
NonEmptyUntested(t) == At(t, "loop") /\ Proceed(t, "first")

\* while bucket and ...
NonEmpty(t) ==
  /\ At(t, "loop")
  /\ \/ Bucket(t) = <<>> /\ Proceed(t, "limit")
     \/ Bucket(t) # <<>> /\ Proceed(t, "first")

\* Mutant: a request of exactly WINDOW_SECONDS ago no longer counts.
ExpiredAtEdge(time, t) == time <= call[t].now - WINDOW_SECONDS

Expired(time, t) == time < call[t].now - WINDOW_SECONDS

\* ... bucket[0] < cutoff
First(t) ==
  /\ At(t, "first")
  /\ \/ Bucket(t) = <<>> /\ IndexError(t)
     \/ /\ Bucket(t) # <<>> /\ Expired(Head(Bucket(t)), t)
        /\ Proceed(t, "popleft")
     \/ /\ Bucket(t) # <<>> /\ ~Expired(Head(Bucket(t)), t)
        /\ Proceed(t, "limit")

\* Mutant: the loop looks at the oldest entry and does not take it out.
PopLeftKeeps(t) == At(t, "popleft") /\ Proceed(t, "loop")

PopLeft(t) ==
  /\ At(t, "popleft")
  /\ \/ Bucket(t) = <<>> /\ IndexError(t)
     \/ /\ Bucket(t) # <<>>
        /\ requests' = [requests EXCEPT ![call[t].key] = Tail(@)]
        /\ Goto(t, "loop")
        /\ UNCHANGED <<now, calls, admitted, overlapped, failed>>

\* Mutant: the limit is exceeded by one.
FullLate(t) == Len(Bucket(t)) > MAX_REQUESTS_PER_WINDOW

Full(t) == Len(Bucket(t)) >= MAX_REQUESTS_PER_WINDOW

TooManyRequests(t) == At(t, "limit") /\ Full(t) /\ Proceed(t, "idle")
BelowLimit(t) == At(t, "limit") /\ ~Full(t) /\ Proceed(t, "append")

\* Mutants: the newest time is put first; the cutoff is put in the bucket.
AdmitFirst(t) ==
  /\ At(t, "append")
  /\ requests' = [requests EXCEPT ![call[t].key] = <<call[t].now>> \o @]
  /\ admitted' = [admitted EXCEPT ![call[t].key] = Append(@, call[t].now)]
  /\ Goto(t, "idle")
  /\ UNCHANGED <<now, calls, overlapped, failed>>

AdmitCutoff(t) ==
  /\ At(t, "append")
  /\ requests' = [requests EXCEPT
       ![call[t].key] = Append(@, call[t].now - WINDOW_SECONDS)]
  /\ Goto(t, "idle")
  /\ UNCHANGED <<now, calls, admitted, overlapped, failed>>

\* The request is let through, with the time its call began.
Admit(t) ==
  /\ At(t, "append")
  /\ requests' = [requests EXCEPT ![call[t].key] = Append(@, call[t].now)]
  /\ admitted' = [admitted EXCEPT ![call[t].key] = Append(@, call[t].now)]
  /\ Goto(t, "idle")
  /\ UNCHANGED <<now, calls, overlapped, failed>>

Tick ==
  /\ now < MaxTime /\ now' = now + 1
  /\ UNCHANGED <<requests, call, calls, admitted, overlapped, failed>>

\* No call is made any more.
Quiet == (\A t \in Threads : At(t, "idle")) /\ UNCHANGED vars

ThreadStep(t) ==
  \/ NonEmpty(t) \/ First(t) \/ PopLeft(t)
  \/ TooManyRequests(t) \/ BelowLimit(t) \/ Admit(t)

Next ==
  \/ \E t \in Threads : ThreadStep(t) \/ \E k \in Keys : Enter(t, k)
  \/ Tick \/ Quiet

Spec == Init /\ [][Next]_vars

\* A thread inside a call goes on; nobody has to call.
FairSpec == Spec /\ \A t \in Threads : WF_vars(ThreadStep(t))

-----------------------------------------------------------------------------
TypeOK ==
  /\ now \in Nat /\ calls \in Nat
  /\ requests \in [Keys -> Seq(Nat)]
  /\ call \in [Threads -> Call]
  /\ admitted \in [Keys -> Seq(Nat)]
  /\ overlapped \subseteq Keys /\ failed \subseteq Keys

\* Requests of key k let through from time a to time b, both included.
AdmittedIn(k, a, b) ==
  Cardinality({i \in 1 .. Len(admitted[k]) : admitted[k][i] \in a .. b})

\* The limit, where calls come one at a time: no WINDOW_SECONDS, both ends
\* included, see more than MAX_REQUESTS_PER_WINDOW requests of a key.
LimitHoldsAlone ==
  \A k \in Keys \ overlapped, a \in 0 .. now :
    AdmittedIn(k, a, a + WINDOW_SECONDS) <= MAX_REQUESTS_PER_WINDOW

\* And it turns nobody away early: a call alone on its key is refused only
\* when that many requests were let through in the window that ends with it.
RefusedOnlyWhenFull ==
  [][\A t \in Threads :
       TooManyRequests(t) /\ call[t].key \notin overlapped =>
         AdmittedIn(call[t].key, call[t].now - WINDOW_SECONDS, call[t].now)
           = MAX_REQUESTS_PER_WINDOW]_vars

\* Threads race between the test of the length and the append, so a bucket
\* may pass the limit, but by fewer entries than there are threads.
BucketBounded ==
  \A k \in Keys :
    Len(requests[k]) < MAX_REQUESTS_PER_WINDOW + Cardinality(Threads)

\* A call raises IndexError only after two calls worked on its key at once:
\* the test for an empty bucket protects a call that is alone.
ErrorNeedsOverlap == failed \subseteq overlapped

\* Every call ends, in admission, a 429 or an IndexError: the loop that drops
\* old entries takes out what it tested, whatever other threads append to the
\* bucket or take from it meanwhile.
CallsEnd == \A t \in Threads : ~At(t, "idle") ~> At(t, "idle")
=============================================================================
