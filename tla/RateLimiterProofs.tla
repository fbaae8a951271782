------------------------- MODULE RateLimiterProofs -------------------------
(***************************************************************************)
(* The rate limiter for any number of threads, keys, calls and any limit:  *)
(* how far a race can push a bucket past the limit, that IndexError takes  *)
(* two calls, and, where the calls on a key come one at a time, that the   *)
(* limit is kept: no window sees more requests than it allows, and a call  *)
(* is refused only when it would have.                                     *)
(***************************************************************************)
EXTENDS RateLimiter, SetLemmas

\* Threads that have found bucket k below the limit and not yet appended.
Appending(k) == {t \in Threads : call[t].stage = "append" /\ call[t].key = k}

\* The entries of a bucket and those on their way: whoever starts on the way
\* last has seen less than the limit, and all the others may be behind it.
Counted ==
  \A k \in Keys : Len(requests[k]) + Cardinality(Appending(k))
                    < MAX_REQUESTS_PER_WINDOW + Cardinality(Threads)

\* A call that is alone on its key still finds what it tested for.
AloneSeesEntries ==
  \A t \in Threads :
    /\ ~At(t, "idle") /\ call[t].key \notin overlapped
    => /\ \A o \in Threads \ {t} : At(o, "idle") \/ call[o].key # call[t].key
       /\ call[t].stage \in {"first", "popleft"} => Bucket(t) # <<>>

-----------------------------------------------------------------------------
\* The steps of a thread as one: it goes on to a stage, and leaves its key.
LEMMA GotoType ==
  ASSUME TypeOK, NEW t \in Threads, NEW stage \in Stage, Goto(t, stage)
  PROVE  /\ call' \in [Threads -> Call]
         /\ \A o \in Threads : /\ call'[o].key = call[o].key
                               /\ call'[o].stage = IF o = t THEN stage
                                                   ELSE call[o].stage
  BY DEF TypeOK, Call, Goto

LEMMA Stages == /\ "idle" \in Stage /\ "loop" \in Stage /\ "first" \in Stage
                /\ "popleft" \in Stage /\ "limit" \in Stage
                /\ "append" \in Stage
  BY DEF Stage

LEMMA Typed ==
  ASSUME TypeOK, NEW t \in Threads
  PROVE  /\ call[t] \in Call /\ call[t].key \in Keys /\ call[t].now \in Nat
         /\ Bucket(t) \in Seq(Nat)
  BY DEF TypeOK, Call, Bucket

LEMMA InitType == Init => TypeOK
  <1> SUFFICES ASSUME Init PROVE TypeOK
    OBVIOUS
  <1>1. Idle \in Call
    BY SetsAssumption, Stages DEF SetsAssumption, Idle, Call
  <1> QED BY <1>1 DEF Init, TypeOK

LEMMA NextType == TypeOK /\ [Next]_vars => TypeOK'
  <1> SUFFICES ASSUME TypeOK, [Next]_vars PROVE TypeOK'
    OBVIOUS
  <1>1. ASSUME NEW t \in Threads, NEW k \in Keys, Enter(t, k) PROVE TypeOK'
    <2>1. [stage |-> "loop", key |-> k, now |-> now] \in Call
      BY Stages DEF Call, TypeOK
    <2> QED BY <1>1, <2>1 DEF Enter, TypeOK
  <1>2. ASSUME NEW t \in Threads, NEW stage \in Stage, Proceed(t, stage)
        PROVE  TypeOK'
    BY <1>2, GotoType DEF Proceed, TypeOK
  <1>3. ASSUME NEW t \in Threads, IndexError(t) PROVE TypeOK'
    BY <1>3, GotoType, Stages, Typed DEF IndexError, TypeOK
  <1>4. ASSUME NEW t \in Threads, PopLeft(t) PROVE TypeOK'
    <2>1. CASE Bucket(t) = <<>> /\ IndexError(t)
      BY <1>3, <2>1
    <2>2. CASE /\ Bucket(t) # <<>> /\ Goto(t, "loop")
               /\ requests' = [requests EXCEPT ![call[t].key] = Tail(@)]
               /\ UNCHANGED <<now, calls, admitted, overlapped, failed>>
      <3>1. Tail(requests[call[t].key]) \in Seq(Nat)
        BY <2>2, Typed DEF Bucket
      <3>2. requests' \in [Keys -> Seq(Nat)]
        BY <2>2, <3>1 DEF TypeOK
      <3> QED BY <2>2, <3>2, GotoType, Stages DEF TypeOK
    <2> QED BY <1>4, <2>1, <2>2 DEF PopLeft
  <1>5. ASSUME NEW t \in Threads, Admit(t) PROVE TypeOK'
    <2>1. /\ requests' \in [Keys -> Seq(Nat)]
          /\ admitted' \in [Keys -> Seq(Nat)]
      BY <1>5, Typed DEF Admit, TypeOK
    <2> QED BY <1>5, <2>1, GotoType, Stages DEF Admit, TypeOK
  <1>6. ASSUME NEW t \in Threads, ThreadStep(t) PROVE TypeOK'
    BY <1>2, <1>3, <1>4, <1>5, <1>6, Stages
    DEF ThreadStep, NonEmpty, First, TooManyRequests, BelowLimit
  <1>7. CASE Tick \/ UNCHANGED vars
    BY <1>7 DEF Tick, vars, TypeOK
  <1> QED BY <1>1, <1>6, <1>7 DEF Next, Quiet

\* Every variable of the limiter keeps its type.
THEOREM RateLimiterTyped == Spec => []TypeOK
  BY InitType, NextType, PTL DEF Spec

-----------------------------------------------------------------------------
LEMMA Finite ==
  ASSUME NEW k
  PROVE  /\ IsFiniteSet(Appending(k)) /\ Cardinality(Appending(k)) \in Nat
         /\ Cardinality(Appending(k)) <= Cardinality(Threads)
         /\ Cardinality(Threads) \in Nat
  <1>1. Appending(k) \in SUBSET Threads /\ IsFiniteSet(Threads)
    BY SetsAssumption DEF Appending, SetsAssumption
  <1> QED BY <1>1, FS_Subset, FS_CardinalityType

\* Nothing is counted more if no bucket grows and no thread joins in.
LEMMA CountShrinks ==
  ASSUME Counted, NEW k \in Keys, Len(requests[k]) \in Nat,
         Len(requests'[k]) \in Nat, Len(requests'[k]) <= Len(requests[k]),
         Appending(k)' \subseteq Appending(k)
  PROVE  Len(requests'[k]) + Cardinality(Appending(k)')
           < MAX_REQUESTS_PER_WINDOW + Cardinality(Threads)
  <1>1. Cardinality(Appending(k)') <= Cardinality(Appending(k))
        /\ Cardinality(Appending(k)') \in Nat
    BY Finite, FS_Subset, FS_CardinalityType
  <1> QED BY <1>1, Finite, LimitsAssumption DEF Counted, LimitsAssumption

LEMMA InitCounted == Init => Counted
  <1> SUFFICES ASSUME Init, NEW k \in Keys
               PROVE  Len(requests[k]) + Cardinality(Appending(k))
                        < MAX_REQUESTS_PER_WINDOW + Cardinality(Threads)
    BY DEF Counted
  <1>1. Appending(k) = {} /\ Len(requests[k]) = 0
    BY DEF Init, Appending, Idle
  <1>2. Cardinality({}) = 0
    BY FS_EmptySet
  <1> QED BY <1>1, <1>2, Finite, LimitsAssumption DEF LimitsAssumption

\* A thread that goes on to any stage but "append" joins no bucket.
LEMMA GotoCounted ==
  ASSUME TypeOK, Counted, NEW t \in Threads, NEW stage \in Stage,
         stage # "append", Goto(t, stage),
         \A k \in Keys : Len(requests'[k]) \in Nat
                         /\ Len(requests'[k]) <= Len(requests[k])
  PROVE  Counted'
  <1>1. ASSUME NEW k \in Keys PROVE Appending(k)' \subseteq Appending(k)
    BY GotoType DEF Appending
  <1>2. \A k \in Keys : Len(requests[k]) \in Nat
    BY DEF TypeOK
  <1> QED BY <1>1, <1>2, CountShrinks DEF Counted

LEMMA NextCounted == TypeOK /\ Counted /\ [Next]_vars => Counted'
  <1> SUFFICES ASSUME TypeOK, Counted, [Next]_vars PROVE Counted'
    OBVIOUS
  <1>0. \A k \in Keys : requests[k] \in Seq(Nat) /\ Len(requests[k]) \in Nat
    BY DEF TypeOK
  <1>1. ASSUME NEW t \in Threads, NEW l \in Keys, Enter(t, l) PROVE Counted'
    <2>1. \A k \in Keys : Appending(k)' \subseteq Appending(k)
      BY <1>1 DEF Enter, Appending, TypeOK
    <2> QED BY <1>0, <1>1, <2>1, CountShrinks DEF Enter, Counted
  <1>2. ASSUME NEW t \in Threads, NEW stage \in Stage, stage # "append",
               Proceed(t, stage)
        PROVE  Counted'
    BY <1>0, <1>2, GotoCounted DEF Proceed
  <1>3. ASSUME NEW t \in Threads, IndexError(t) PROVE Counted'
    BY <1>0, <1>3, GotoCounted, Stages DEF IndexError
  <1>4. ASSUME NEW t \in Threads, PopLeft(t) PROVE Counted'
    <2>1. CASE /\ Bucket(t) # <<>> /\ Goto(t, "loop")
               /\ requests' = [requests EXCEPT ![call[t].key] = Tail(@)]
      <3>1. Len(Tail(Bucket(t))) \in Nat
            /\ Len(Tail(Bucket(t))) <= Len(Bucket(t))
        BY <2>1, Typed
      <3>2. \A k \in Keys : Len(requests'[k]) \in Nat
                            /\ Len(requests'[k]) <= Len(requests[k])
        BY <1>0, <2>1, <3>1 DEF Bucket, TypeOK
      <3> QED BY <2>1, <3>2, GotoCounted, Stages
    <2> QED BY <1>3, <1>4, <2>1 DEF PopLeft
  <1>5. ASSUME NEW t \in Threads, BelowLimit(t) PROVE Counted'
    <2>0. PICK key \in Keys : key = call[t].key
      BY Typed
    <2>1. UNCHANGED requests /\ Goto(t, "append")
      BY <1>5 DEF BelowLimit, Proceed
    <2>2. \A k \in Keys \ {key} : Appending(k)' \subseteq Appending(k)
      BY <2>0, <2>1, GotoType, Stages DEF Appending
    <2>3. Len(requests[key]) < MAX_REQUESTS_PER_WINDOW
      BY <1>0, <1>5, <2>0, LimitsAssumption
      DEF BelowLimit, Full, Bucket, LimitsAssumption
    <2>4. Cardinality(Appending(key)') <= Cardinality(Threads)
          /\ Cardinality(Appending(key)') \in Nat
      BY SetsAssumption, FS_Subset, FS_CardinalityType
      DEF Appending, SetsAssumption
    <2>5. Len(requests'[key]) + Cardinality(Appending(key)')
            < MAX_REQUESTS_PER_WINDOW + Cardinality(Threads)
      <3>1. Len(requests'[key]) = Len(requests[key])
            /\ Len(requests[key]) \in Nat
        BY <1>0, <2>1
      <3>2. Cardinality(Threads) \in Nat /\ MAX_REQUESTS_PER_WINDOW \in Nat
        BY Finite, LimitsAssumption DEF LimitsAssumption
      <3> QED BY <2>3, <2>4, <3>1, <3>2
    <2> QED BY <1>0, <2>1, <2>2, <2>5, CountShrinks DEF Counted
  <1>6. ASSUME NEW t \in Threads, Admit(t) PROVE Counted'
    <2>0. PICK key \in Keys : key = call[t].key
      BY Typed
    <2>1. /\ call[t].stage = "append" /\ key \in Keys /\ Goto(t, "idle")
          /\ requests' = [requests EXCEPT ![key] = Append(@, call[t].now)]
      BY <1>6, <2>0 DEF Admit, At
    <2>2. \A k \in Keys : Appending(k)' \subseteq Appending(k) \ {t}
      BY <2>0, <2>1, GotoType, Stages DEF Appending
    <2>3. Len(requests'[key]) = Len(requests[key]) + 1
      BY <1>0, <2>1, Typed DEF TypeOK
    <2>4. t \in Appending(key)
      BY <2>0, <2>1 DEF Appending
    <2>5. Cardinality(Appending(key)') <= Cardinality(Appending(key)) - 1
          /\ Cardinality(Appending(key)') \in Nat
      <3>1. /\ IsFiniteSet(Appending(key) \ {t})
            /\ Cardinality(Appending(key) \ {t})
                 = Cardinality(Appending(key)) - 1
        BY <2>4, Finite, FS_RemoveElement
      <3>2. Appending(key)' \subseteq Appending(key) \ {t}
        BY <2>1, <2>2
      <3> QED BY <3>1, <3>2, FS_Subset, FS_CardinalityType
    <2>6. Len(requests'[key]) + Cardinality(Appending(key)')
            < MAX_REQUESTS_PER_WINDOW + Cardinality(Threads)
      BY <1>0, <2>1, <2>3, <2>5, Finite, LimitsAssumption
      DEF Counted, LimitsAssumption
    <2>7. \A k \in Keys \ {key} : requests'[k] = requests[k]
      BY <2>1 DEF TypeOK
    <2> QED BY <1>0, <2>2, <2>6, <2>7, CountShrinks DEF Counted
  <1>7. ASSUME NEW t \in Threads, ThreadStep(t) PROVE Counted'
    BY <1>2, <1>3, <1>4, <1>5, <1>6, <1>7, Stages
    DEF ThreadStep, NonEmpty, First, TooManyRequests
  <1>8. CASE Tick \/ UNCHANGED vars
    BY <1>8 DEF Tick, vars, Counted, Appending
  <1> QED BY <1>1, <1>7, <1>8 DEF Next, Quiet

\* Nothing stands between the test of the length and the append.  Whatever
\* the limit, the number of threads and the way they interleave, a bucket
\* passes the limit by fewer entries than there are threads.
THEOREM LimitIsBounded == Spec => []BucketBounded
  <1>1. TypeOK /\ Counted => BucketBounded
    <2> SUFFICES ASSUME TypeOK, Counted, NEW k \in Keys
                 PROVE  Len(requests[k])
                          < MAX_REQUESTS_PER_WINDOW + Cardinality(Threads)
      BY DEF BucketBounded
    <2>1. Len(requests[k]) \in Nat
      BY DEF TypeOK
    <2> QED BY <2>1, Finite, LimitsAssumption DEF Counted, LimitsAssumption
  <1> QED BY <1>1, InitType, NextType, InitCounted, NextCounted, PTL DEF Spec

-----------------------------------------------------------------------------
\* The bucket of a call alone on its key is changed by nobody else.
LEMMA GotoAlone ==
  ASSUME TypeOK, AloneSeesEntries, NEW t \in Threads, NEW stage \in Stage,
         Goto(t, stage), ~At(t, "idle"), UNCHANGED overlapped,
         \A k \in Keys \ {call[t].key} : requests'[k] = requests[k],
         stage \in {"first", "popleft"} => requests'[call[t].key] # <<>>
  PROVE  AloneSeesEntries'
  <1> SUFFICES ASSUME NEW o \in Threads, ~At(o, "idle")',
                      call'[o].key \notin overlapped'
               PROVE  /\ \A p \in Threads \ {o} :
                           At(p, "idle")' \/ call'[p].key # call'[o].key
                      /\ call'[o].stage \in {"first", "popleft"} =>
                           Bucket(o)' # <<>>
    BY DEF AloneSeesEntries
  <1>1. call[o].key \notin overlapped /\ call[o].key \in Keys
        /\ ~At(o, "idle") /\ call'[o].key = call[o].key
    BY GotoType, Typed DEF At
  <1>2. \A p \in Threads \ {o} : At(p, "idle") \/ call[p].key # call[o].key
    BY <1>1 DEF AloneSeesEntries
  <1>3. \A p \in Threads \ {o} :
          At(p, "idle")' \/ call'[p].key # call'[o].key
    BY <1>1, <1>2, GotoType DEF At
  <1>4. CASE o = t
    BY <1>1, <1>3, <1>4, GotoType DEF Bucket
  <1>5. CASE o # t
    <2>1. call[o].key # call[t].key
      BY <1>2, <1>5
    <2>2. Bucket(o)' = Bucket(o) /\ call'[o].stage = call[o].stage
      BY <1>1, <1>5, <2>1, GotoType DEF Bucket
    <2> QED BY <1>1, <1>3, <2>2 DEF AloneSeesEntries
  <1> QED BY <1>4, <1>5

LEMMA NextAlone ==
  TypeOK /\ AloneSeesEntries /\ ErrorNeedsOverlap /\ [Next]_vars
    => AloneSeesEntries' /\ ErrorNeedsOverlap'
  <1> SUFFICES ASSUME TypeOK, AloneSeesEntries, ErrorNeedsOverlap, [Next]_vars
               PROVE  AloneSeesEntries' /\ ErrorNeedsOverlap'
    OBVIOUS
  <1>1. ASSUME NEW t \in Threads, NEW k \in Keys, Enter(t, k)
        PROVE  AloneSeesEntries' /\ ErrorNeedsOverlap'
    <2>1. /\ call' \in [Threads -> Call]
          /\ call'[t].stage = "loop" /\ call'[t].key = k
          /\ \A o \in Threads \ {t} : call'[o] = call[o]
          /\ overlapped \subseteq overlapped' /\ UNCHANGED <<requests, failed>>
          /\ k \notin overlapped' =>
               \A o \in Threads \ {t} : At(o, "idle") \/ call[o].key # k
      BY <1>1, NextType DEF Enter, TypeOK
    <2>2. ASSUME NEW o \in Threads, ~At(o, "idle")',
                 call'[o].key \notin overlapped'
          PROVE  /\ \A p \in Threads \ {o} :
                      At(p, "idle")' \/ call'[p].key # call'[o].key
                 /\ call'[o].stage \in {"first", "popleft"} =>
                      Bucket(o)' # <<>>
      <3>1. CASE o = t
        BY <2>1, <2>2, <3>1 DEF At
      <3>2. CASE o # t
        BY <2>1, <2>2, <3>2 DEF At, Bucket, AloneSeesEntries
      <3> QED BY <3>1, <3>2
    <2> QED BY <2>1, <2>2 DEF AloneSeesEntries, ErrorNeedsOverlap
  <1>2. ASSUME NEW t \in Threads, NEW stage \in Stage, Proceed(t, stage),
               ~At(t, "idle"), stage \in {"first", "popleft"} => Bucket(t) # <<>>
        PROVE  AloneSeesEntries' /\ ErrorNeedsOverlap'
    BY <1>2, GotoAlone DEF Proceed, Bucket, ErrorNeedsOverlap
  <1>3. ASSUME NEW t \in Threads, IndexError(t), Bucket(t) = <<>>,
               call[t].stage \in {"first", "popleft"}
        PROVE  AloneSeesEntries' /\ ErrorNeedsOverlap'
    <2>1. call[t].key \in overlapped
      BY <1>3 DEF AloneSeesEntries, At
    <2>2. AloneSeesEntries'
      BY <1>3, GotoAlone, Stages DEF IndexError, At
    <2> QED BY <1>3, <2>1, <2>2 DEF IndexError, ErrorNeedsOverlap
  <1>4. ASSUME NEW t \in Threads, PopLeft(t)
        PROVE  AloneSeesEntries' /\ ErrorNeedsOverlap'
    <2>1. CASE Bucket(t) = <<>> /\ IndexError(t)
      BY <1>3, <1>4, <2>1 DEF PopLeft, At
    <2>2. CASE /\ Goto(t, "loop")
               /\ requests' = [requests EXCEPT ![call[t].key] = Tail(@)]
               /\ UNCHANGED <<overlapped, failed>>
      BY <1>4, <2>2, GotoAlone, Stages
      DEF PopLeft, At, TypeOK, ErrorNeedsOverlap
    <2> QED BY <1>4, <2>1, <2>2 DEF PopLeft
  <1>5. ASSUME NEW t \in Threads, Admit(t)
        PROVE  AloneSeesEntries' /\ ErrorNeedsOverlap'
    BY <1>5, GotoAlone, Stages DEF Admit, At, TypeOK, ErrorNeedsOverlap
  <1>6. ASSUME NEW t \in Threads, ThreadStep(t)
        PROVE  AloneSeesEntries' /\ ErrorNeedsOverlap'
    <2>1. CASE NonEmpty(t)
      BY <1>2, <2>1, Stages DEF NonEmpty, At
    <2>2. CASE First(t)
      BY <1>2, <1>3, <2>2, Stages DEF First, At
    <2>3. CASE TooManyRequests(t) \/ BelowLimit(t)
      BY <1>2, <2>3, Stages DEF TooManyRequests, BelowLimit, At
    <2> QED BY <1>4, <1>5, <1>6, <2>1, <2>2, <2>3 DEF ThreadStep
  <1>7. CASE Tick \/ UNCHANGED vars
    BY <1>7 DEF Tick, vars, AloneSeesEntries, ErrorNeedsOverlap, At, Bucket
  <1> QED BY <1>1, <1>6, <1>7 DEF Next, Quiet

\* The test "while bucket" protects a call from IndexError as long as no
\* other call is in the function with the same key.
THEOREM ErrorTakesTwo == Spec => []ErrorNeedsOverlap
  <1>1. Init => AloneSeesEntries /\ ErrorNeedsOverlap
    BY DEF Init, Idle, AloneSeesEntries, ErrorNeedsOverlap, At
  <1> QED BY <1>1, InitType, NextType, NextAlone, PTL DEF Spec

-----------------------------------------------------------------------------
(* The limit itself.  The bucket of a key whose calls come one at a time   *)
(* is the end of the list of admitted requests; what was dropped of it is  *)
(* older than any window that ends now or later.  So the request           *)
(* MAX_REQUESTS_PER_WINDOW before one that is admitted has been dropped,   *)
(* and that is more than a window ago.                                     *)

\* A is the list of admitted requests, B the bucket, n the time.
Ordered(A, B, n) ==
  /\ Len(B) <= Len(A) /\ Len(B) <= MAX_REQUESTS_PER_WINDOW
  /\ \A j \in 1 .. Len(B) : B[j] = A[Len(A) - Len(B) + j]
  /\ \A i, j \in 1 .. Len(A) : i <= j => A[i] <= A[j]
  /\ \A i \in 1 .. Len(A) : A[i] <= n
  /\ \A i \in 1 .. Len(A) - Len(B) : A[i] + WINDOW_SECONDS < n
  /\ \A i \in 1 .. Len(A) - MAX_REQUESTS_PER_WINDOW :
       A[i] + WINDOW_SECONDS < A[i + MAX_REQUESTS_PER_WINDOW]

\* The same, of a call that began at time c.
Seen(A, B, c) ==
  /\ \A i \in 1 .. Len(A) : A[i] <= c
  /\ \A i \in 1 .. Len(A) - Len(B) : A[i] + WINDOW_SECONDS < c

HeadExpired(B, c) == B # <<>> /\ B[1] < c - WINDOW_SECONDS

\* What a call knows of its bucket at each stage, if it is alone.
Tested(stage, B, c) ==
  /\ stage = "popleft" => HeadExpired(B, c)
  /\ stage \in {"limit", "append"} => ~HeadExpired(B, c)
  /\ stage = "append" => Len(B) < MAX_REQUESTS_PER_WINDOW

InOrder(k) == Ordered(admitted[k], requests[k], now)

Knows(t) ==
  /\ call[t].now <= now
  /\ Seen(admitted[call[t].key], requests[call[t].key], call[t].now)
  /\ Tested(call[t].stage, requests[call[t].key], call[t].now)

WindowInv ==
  /\ TypeOK /\ AloneSeesEntries /\ ErrorNeedsOverlap
  /\ \A k \in Keys \ overlapped : InOrder(k)
  /\ \A t \in Threads :
       call[t].stage # "idle" /\ call[t].key \notin overlapped => Knows(t)

-----------------------------------------------------------------------------
(* The two lists, when time passes, an entry is dropped or one is added    *)

LEMMA Limits ==
  /\ WINDOW_SECONDS \in Nat /\ MAX_REQUESTS_PER_WINDOW \in Nat
  /\ MAX_REQUESTS_PER_WINDOW > 0
  BY LimitsAssumption DEF LimitsAssumption

LEMMA OrderLater ==
  ASSUME NEW A \in Seq(Nat), NEW B \in Seq(Nat), NEW n \in Nat, NEW m \in Nat,
         n <= m, Ordered(A, B, n)
  PROVE  Ordered(A, B, m)
  <1>1. Len(A) \in Nat /\ Len(B) \in Nat /\ \A i \in 1 .. Len(A) : A[i] \in Nat
    OBVIOUS
  <1>2. \A i \in 1 .. Len(A) : A[i] <= m
    BY <1>1 DEF Ordered
  <1>3. \A i \in 1 .. Len(A) - Len(B) : A[i] + WINDOW_SECONDS < m
    <2> SUFFICES ASSUME NEW i \in 1 .. Len(A) - Len(B)
                 PROVE  A[i] + WINDOW_SECONDS < m
      OBVIOUS
    <2>1. A[i] \in Nat /\ A[i] + WINDOW_SECONDS < n
      BY <1>1 DEF Ordered
    <2> QED BY <2>1, Limits
  <1> QED BY <1>2, <1>3 DEF Ordered

LEMMA OneMore ==
  ASSUME NEW d \in Nat, NEW i \in 1 .. d + 1
  PROVE  i = d + 1 \/ i \in 1 .. d
  OBVIOUS

\* What the loop takes out is older than the window.
LEMMA OrderAfterPop ==
  ASSUME NEW A, NEW B, NEW T, NEW n \in Nat, NEW c \in Nat, c <= n,
         Len(A) \in Nat, Len(B) \in Nat, Len(B) > 0, Len(T) = Len(B) - 1,
         \A i \in 1 .. Len(A) : A[i] \in Nat,
         \A j \in 1 .. Len(T) : T[j] = B[j + 1],
         Ordered(A, B, n), Seen(A, B, c), HeadExpired(B, c)
  PROVE  Ordered(A, T, n) /\ Seen(A, T, c)
  <1> PICK d \in Int : d = Len(A) - Len(B)
    <2>1. Len(A) - Len(B) \in Int
      OBVIOUS
    <2> QED BY <2>1, Zenon
  <1>1. d \in Nat /\ d + 1 \in 1 .. Len(A) /\ Len(A) - Len(T) = d + 1
    <2>1. Len(B) <= Len(A)
      BY DEF Ordered
    <2> QED BY <2>1
  <1>2. B[1] = A[d + 1]
    BY DEF Ordered
  <1>3. \A i \in 1 .. d + 1 : /\ A[i] + WINDOW_SECONDS < c
                              /\ A[i] + WINDOW_SECONDS < n
    <2> SUFFICES ASSUME NEW i \in 1 .. d + 1
                 PROVE  A[i] + WINDOW_SECONDS < c /\ A[i] + WINDOW_SECONDS < n
      OBVIOUS
    <2>0. i \in 1 .. Len(A) /\ A[i] \in Nat
      BY <1>1
    <2>1. CASE i = d + 1
      BY <1>2, <2>0, <2>1, Limits DEF HeadExpired
    <2>2. CASE i \in 1 .. d
      <3>1. i \in 1 .. Len(A) - Len(B)
        BY <2>2
      <3>2. A[i] + WINDOW_SECONDS < c
        BY <3>1 DEF Seen
      <3> QED BY <2>0, <3>2, Limits
    <2> QED BY <1>1, <2>1, <2>2, OneMore
  <1>4. \A j \in 1 .. Len(T) : T[j] = A[Len(A) - Len(T) + j]
    <2> SUFFICES ASSUME NEW j \in 1 .. Len(T)
                 PROVE  T[j] = A[Len(A) - Len(T) + j]
      OBVIOUS
    <2>1. T[j] = B[j + 1] /\ j + 1 \in 1 .. Len(B)
      OBVIOUS
    <2>2. B[j + 1] = A[Len(A) - Len(B) + (j + 1)]
      BY <2>1 DEF Ordered
    <2>3. Len(A) - Len(B) + (j + 1) = Len(A) - Len(T) + j
      OBVIOUS
    <2> QED BY <2>1, <2>2, <2>3
  <1>5. Len(T) <= Len(A) /\ Len(T) <= MAX_REQUESTS_PER_WINDOW
    BY Limits DEF Ordered
  <1>6. Ordered(A, T, n)
    BY <1>1, <1>3, <1>4, <1>5 DEF Ordered
  <1>7. Seen(A, T, c)
    BY <1>1, <1>3 DEF Seen
  <1> QED BY <1>6, <1>7

\* A request is let through when the one MAX_REQUESTS_PER_WINDOW before it has
\* left the bucket.
LEMMA OrderAfterAdmit ==
  ASSUME NEW A, NEW B, NEW A2, NEW B2, NEW n \in Nat, NEW c \in Nat, c <= n,
         Len(A) \in Nat, \A i \in 1 .. Len(A) : A[i] \in Nat,
         Len(A2) = Len(A) + 1, A2[Len(A) + 1] = c,
         \A i \in 1 .. Len(A) : A2[i] = A[i],
         Len(B) \in Nat, Len(B2) = Len(B) + 1, B2[Len(B) + 1] = c,
         \A i \in 1 .. Len(B) : B2[i] = B[i],
         Ordered(A, B, n), Seen(A, B, c), Len(B) < MAX_REQUESTS_PER_WINDOW
  PROVE  Ordered(A2, B2, n)
  <1>1. /\ Len(B2) <= Len(A2) /\ Len(B2) <= MAX_REQUESTS_PER_WINDOW
        /\ Len(A2) - Len(B2) = Len(A) - Len(B) /\ Len(B) <= Len(A)
    BY Limits DEF Ordered
  <1>2. \A j \in 1 .. Len(B2) : B2[j] = A2[Len(A2) - Len(B2) + j]
    <2> SUFFICES ASSUME NEW j \in 1 .. Len(B2)
                 PROVE  B2[j] = A2[Len(A2) - Len(B2) + j]
      OBVIOUS
    <2>1. CASE j = Len(B) + 1
      <3>1. Len(A2) - Len(B2) + j = Len(A) + 1
        BY <2>1
      <3> QED BY <2>1, <3>1
    <2>2. CASE j # Len(B) + 1
      <3>1. j \in 1 .. Len(B) /\ Len(A) - Len(B) + j \in 1 .. Len(A)
        BY <1>1, <2>2
      <3>2. B[j] = A[Len(A) - Len(B) + j]
        BY <3>1 DEF Ordered
      <3> QED BY <1>1, <3>1, <3>2
    <2> QED BY <2>1, <2>2
  <1>3. \A i, j \in 1 .. Len(A2) : i <= j => A2[i] <= A2[j]
    <2> SUFFICES ASSUME NEW i \in 1 .. Len(A2), NEW j \in 1 .. Len(A2), i <= j
                 PROVE  A2[i] <= A2[j]
      OBVIOUS
    <2>1. CASE i = Len(A) + 1
      <3>1. j = i /\ A2[i] = c
        BY <2>1
      <3> QED BY <3>1
    <2>2. CASE i # Len(A) + 1 /\ j = Len(A) + 1
      <3>1. i \in 1 .. Len(A)
        BY <2>2
      <3> QED BY <2>2, <3>1 DEF Seen
    <2>3. CASE i # Len(A) + 1 /\ j # Len(A) + 1
      <3>1. i \in 1 .. Len(A) /\ j \in 1 .. Len(A)
        BY <2>3
      <3>2. A[i] <= A[j]
        BY <3>1 DEF Ordered
      <3> QED BY <3>1, <3>2
    <2> QED BY <2>1, <2>2, <2>3
  <1>4. \A i \in 1 .. Len(A2) : A2[i] <= n
    <2> SUFFICES ASSUME NEW i \in 1 .. Len(A2) PROVE A2[i] <= n
      OBVIOUS
    <2>1. CASE i = Len(A) + 1
      BY <2>1
    <2>2. CASE i # Len(A) + 1
      <3>1. i \in 1 .. Len(A)
        BY <2>2
      <3> QED BY <3>1 DEF Ordered
    <2> QED BY <2>1, <2>2
  <1>5. \A i \in 1 .. Len(A2) - Len(B2) : A2[i] + WINDOW_SECONDS < n
    <2> SUFFICES ASSUME NEW i \in 1 .. Len(A) - Len(B)
                 PROVE  A2[i] + WINDOW_SECONDS < n
      BY <1>1
    <2>1. i \in 1 .. Len(A) /\ A[i] + WINDOW_SECONDS < n
      BY DEF Ordered
    <2> QED BY <2>1
  <1>6. \A i \in 1 .. Len(A2) - MAX_REQUESTS_PER_WINDOW :
          A2[i] + WINDOW_SECONDS < A2[i + MAX_REQUESTS_PER_WINDOW]
    <2> SUFFICES ASSUME NEW i \in 1 .. Len(A2) - MAX_REQUESTS_PER_WINDOW
                 PROVE  A2[i] + WINDOW_SECONDS < A2[i + MAX_REQUESTS_PER_WINDOW]
      OBVIOUS
    <2>0. i \in 1 .. Len(A)
      BY Limits
    <2>1. CASE i + MAX_REQUESTS_PER_WINDOW = Len(A) + 1
      <3>1. i \in 1 .. Len(A) - Len(B)
        BY <2>1, Limits
      <3>2. A[i] + WINDOW_SECONDS < c
        BY <3>1 DEF Seen
      <3> QED BY <2>0, <2>1, <3>2
    <2>2. CASE i + MAX_REQUESTS_PER_WINDOW # Len(A) + 1
      <3>1. /\ i \in 1 .. Len(A) - MAX_REQUESTS_PER_WINDOW
            /\ i + MAX_REQUESTS_PER_WINDOW \in 1 .. Len(A)
        BY <2>2, Limits
      <3>2. A[i] + WINDOW_SECONDS < A[i + MAX_REQUESTS_PER_WINDOW]
        BY <3>1 DEF Ordered
      <3> QED BY <2>0, <3>1, <3>2
    <2> QED BY <2>1, <2>2
  <1> QED BY <1>1, <1>2, <1>3, <1>4, <1>5, <1>6 DEF Ordered

LEMMA Appended ==
  ASSUME NEW A \in Seq(Nat), NEW c \in Nat
  PROVE  /\ Len(A) \in Nat /\ \A i \in 1 .. Len(A) : A[i] \in Nat
         /\ Len(Append(A, c)) = Len(A) + 1 /\ Append(A, c)[Len(A) + 1] = c
         /\ \A i \in 1 .. Len(A) : Append(A, c)[i] = A[i]
  OBVIOUS

LEMMA OrderAfterAppend ==
  ASSUME NEW A \in Seq(Nat), NEW B \in Seq(Nat), NEW n \in Nat, NEW c \in Nat,
         c <= n, Ordered(A, B, n), Seen(A, B, c),
         Len(B) < MAX_REQUESTS_PER_WINDOW
  PROVE  Ordered(Append(A, c), Append(B, c), n)
  <1>1. /\ Len(A) \in Nat /\ \A i \in 1 .. Len(A) : A[i] \in Nat
        /\ Len(Append(A, c)) = Len(A) + 1 /\ Append(A, c)[Len(A) + 1] = c
        /\ \A i \in 1 .. Len(A) : Append(A, c)[i] = A[i]
    BY Appended
  <1>2. /\ Len(B) \in Nat
        /\ Len(Append(B, c)) = Len(B) + 1 /\ Append(B, c)[Len(B) + 1] = c
        /\ \A i \in 1 .. Len(B) : Append(B, c)[i] = B[i]
    BY Appended
  <1> QED BY <1>1, <1>2, OrderAfterAdmit

-----------------------------------------------------------------------------
(* The steps of the limiter                                                *)

LEMMA SequencesType ==
  ASSUME TypeOK, NEW k \in Keys
  PROVE  /\ requests[k] \in Seq(Nat) /\ admitted[k] \in Seq(Nat)
         /\ now \in Nat
  BY DEF TypeOK

\* A step of a thread inside a call concerns its key only.
LEMMA ThreadMoves ==
  ASSUME WindowInv, NEW t \in Threads, call[t].stage # "idle",
         UNCHANGED <<now, overlapped>>,
         \A o \in Threads \ {t} : call'[o] = call[o],
         call'[t].key = call[t].key,
         \A k \in Keys \ {call[t].key} :
           requests'[k] = requests[k] /\ admitted'[k] = admitted[k],
         call[t].key \notin overlapped =>
           /\ Ordered(admitted'[call[t].key], requests'[call[t].key], now)
           /\ call'[t].stage # "idle" => Knows(t)'
  PROVE  /\ (\A k \in Keys \ overlapped : InOrder(k))'
         /\ (\A o \in Threads :
               call[o].stage # "idle" /\ call[o].key \notin overlapped
                 => Knows(o))'
  <1>0. TypeOK /\ AloneSeesEntries /\ now \in Nat
    BY DEF WindowInv, TypeOK
  <1>1. ASSUME NEW k \in Keys, k \notin overlapped
        PROVE  Ordered(admitted'[k], requests'[k], now')
    BY <1>1 DEF WindowInv, InOrder
  <1>2. ASSUME NEW o \in Threads, call'[o].stage # "idle",
               call'[o].key \notin overlapped
        PROVE  Knows(o)'
    <2>1. CASE o = t
      BY <1>2, <2>1
    <2>2. CASE o # t
      <3>1. /\ call'[o] = call[o] /\ Knows(o) /\ call[o].key \in Keys
        BY <1>0, <1>2, <2>2, Typed DEF WindowInv
      <3>2. call[o].key # call[t].key
        BY <1>0, <1>2, <2>2, <3>1 DEF AloneSeesEntries, At
      <3> QED BY <3>1, <3>2 DEF Knows
    <2> QED BY <2>1, <2>2
  <1> QED BY <1>1, <1>2 DEF InOrder

\* A step to another stage, with the bucket as it was.
LEMMA ProceedMoves ==
  ASSUME WindowInv, NEW t \in Threads, call[t].stage # "idle",
         NEW stage \in Stage, Goto(t, stage),
         UNCHANGED <<now, requests, admitted, overlapped>>,
         call[t].key \notin overlapped /\ Knows(t) /\ stage # "idle" =>
           Tested(stage, requests[call[t].key], call[t].now)
  PROVE  /\ (\A k \in Keys \ overlapped : InOrder(k))'
         /\ (\A o \in Threads :
               call[o].stage # "idle" /\ call[o].key \notin overlapped
                 => Knows(o))'
  <1>0. TypeOK /\ call[t].key \in Keys
    BY Typed DEF WindowInv
  <1>1. /\ call'[t].key = call[t].key /\ call'[t].now = call[t].now
        /\ call'[t].stage = stage
        /\ \A o \in Threads \ {t} : call'[o] = call[o]
    BY <1>0 DEF Goto, TypeOK, Call
  <1>2. ASSUME call[t].key \notin overlapped
        PROVE  /\ Ordered(admitted'[call[t].key], requests'[call[t].key], now)
               /\ stage # "idle" => Knows(t)'
    <2>1. InOrder(call[t].key) /\ Knows(t)
      BY <1>0, <1>2 DEF WindowInv
    <2> QED BY <1>1, <1>2, <2>1 DEF InOrder, Knows
  <1> QED BY <1>1, <1>2, ThreadMoves

LEMMA PopLeftMoves ==
  ASSUME WindowInv, NEW t \in Threads, call[t].stage = "popleft",
         Bucket(t) # <<>>, Goto(t, "loop"),
         requests' = [requests EXCEPT ![call[t].key] = Tail(@)],
         UNCHANGED <<now, admitted, overlapped>>
  PROVE  /\ (\A k \in Keys \ overlapped : InOrder(k))'
         /\ (\A o \in Threads :
               call[o].stage # "idle" /\ call[o].key \notin overlapped
                 => Knows(o))'
  <1> PICK key \in Keys : key = call[t].key
    BY Typed DEF WindowInv
  <1> PICK B, T : B = requests[key] /\ T = Tail(B)
    OBVIOUS
  <1>0. TypeOK /\ now \in Nat /\ call[t].now \in Nat
    BY Typed DEF WindowInv, TypeOK
  <1>1. /\ call'[t].key = key /\ call'[t].now = call[t].now
        /\ call'[t].stage = "loop"
        /\ \A o \in Threads \ {t} : call'[o] = call[o]
    BY <1>0 DEF Goto, TypeOK, Call
  <1>2. /\ requests'[key] = T
        /\ \A k \in Keys \ {key} : requests'[k] = requests[k]
    BY <1>0 DEF TypeOK
  <1>3. /\ Len(B) \in Nat /\ Len(B) > 0 /\ Len(T) = Len(B) - 1
        /\ \A j \in 1 .. Len(T) : T[j] = B[j + 1]
    <2>1. B \in Seq(Nat) /\ B # <<>>
      BY <1>0, SequencesType DEF Bucket
    <2> QED BY <2>1
  <1>4. /\ Len(admitted[key]) \in Nat
        /\ \A i \in 1 .. Len(admitted[key]) : admitted[key][i] \in Nat
    BY <1>0, SequencesType
  <1>5. ASSUME key \notin overlapped
        PROVE  Ordered(admitted'[key], requests'[key], now) /\ Knows(t)'
    <2>1. InOrder(key) /\ Knows(t)
      BY <1>5 DEF WindowInv
    <2>2. /\ Ordered(admitted[key], B, now) /\ call[t].now <= now
          /\ Seen(admitted[key], B, call[t].now) /\ HeadExpired(B, call[t].now)
      BY <2>1 DEF InOrder, Knows, Tested
    <2>3. Ordered(admitted[key], T, now) /\ Seen(admitted[key], T, call[t].now)
      BY <1>0, <1>3, <1>4, <2>2, OrderAfterPop
    <2>4. Tested("loop", T, call[t].now)
      BY DEF Tested
    <2> QED BY <1>1, <1>2, <2>2, <2>3, <2>4 DEF Knows
  <1> QED BY <1>1, <1>2, <1>5, ThreadMoves

LEMMA AdmitMoves ==
  ASSUME WindowInv, NEW t \in Threads, call[t].stage = "append",
         Admit(t)
  PROVE  /\ (\A k \in Keys \ overlapped : InOrder(k))'
         /\ (\A o \in Threads :
               call[o].stage # "idle" /\ call[o].key \notin overlapped
                 => Knows(o))'
  <1> PICK key \in Keys, c \in Nat : key = call[t].key /\ c = call[t].now
    BY Typed DEF WindowInv
  <1>0. /\ TypeOK /\ now \in Nat /\ Goto(t, "idle")
        /\ UNCHANGED <<now, overlapped>>
    BY DEF WindowInv, TypeOK, Admit
  <1>1. /\ call'[t].key = key /\ call'[t].stage = "idle"
        /\ \A o \in Threads \ {t} : call'[o] = call[o]
    BY <1>0 DEF Goto, TypeOK, Call
  <1>2. /\ requests'[key] = Append(requests[key], c)
        /\ admitted'[key] = Append(admitted[key], c)
        /\ \A k \in Keys \ {key} :
              requests'[k] = requests[k] /\ admitted'[k] = admitted[k]
    BY <1>0 DEF TypeOK, Admit
  <1>3. admitted[key] \in Seq(Nat) /\ requests[key] \in Seq(Nat)
    BY <1>0, SequencesType
  <1>6. ASSUME key \notin overlapped
        PROVE  Ordered(Append(admitted[key], c), Append(requests[key], c), now)
    <2>1. InOrder(key) /\ Knows(t)
      BY <1>6 DEF WindowInv
    <2>2. /\ Ordered(admitted[key], requests[key], now) /\ c <= now
          /\ Seen(admitted[key], requests[key], c)
          /\ Len(requests[key]) < MAX_REQUESTS_PER_WINDOW
      BY <2>1 DEF InOrder, Knows, Tested
    <2> QED BY <1>0, <1>3, <2>2, OrderAfterAppend
  <1> QED BY <1>0, <1>1, <1>2, <1>6, ThreadMoves

LEMMA StepMoves ==
  ASSUME WindowInv, NEW t \in Threads, ThreadStep(t)
  PROVE  /\ (\A k \in Keys \ overlapped : InOrder(k))'
         /\ (\A o \in Threads :
               call[o].stage # "idle" /\ call[o].key \notin overlapped
                 => Knows(o))'
  <1>0. /\ TypeOK /\ Bucket(t) \in Seq(Nat) /\ call[t].now \in Nat
        /\ Bucket(t) = requests[call[t].key]
    BY Typed DEF WindowInv, Bucket
  <1>1. CASE NonEmpty(t)
    <2>1. /\ call[t].stage # "idle"
          /\ UNCHANGED <<now, requests, admitted, overlapped>>
      BY <1>1 DEF NonEmpty, Proceed, At
    <2>2. CASE Bucket(t) = <<>>
      <3>1. Tested("limit", requests[call[t].key], call[t].now)
        BY <1>0, <2>2 DEF Tested, HeadExpired
      <3>2. Goto(t, "limit")
        BY <1>1, <2>2 DEF NonEmpty, Proceed
      <3> QED BY <2>1, <3>1, <3>2, ProceedMoves, Stages
    <2>3. CASE Bucket(t) # <<>>
      <3>1. Tested("first", requests[call[t].key], call[t].now)
        BY DEF Tested
      <3>2. Goto(t, "first")
        BY <1>1, <2>3 DEF NonEmpty, Proceed
      <3> QED BY <2>1, <3>1, <3>2, ProceedMoves, Stages
    <2> QED BY <2>2, <2>3
  <1>2. CASE First(t)
    <2>1. call[t].stage # "idle"
      BY <1>2 DEF First, At
    <2>2. CASE IndexError(t)
      BY <2>1, <2>2, ProceedMoves, Stages DEF IndexError
    <2>3. CASE Expired(Head(Bucket(t)), t) /\ Bucket(t) # <<>>
               /\ Proceed(t, "popleft")
      <3>1. Tested("popleft", requests[call[t].key], call[t].now)
        BY <1>0, <2>3 DEF Tested, HeadExpired, Expired
      <3> QED BY <2>1, <2>3, <3>1, ProceedMoves, Stages DEF Proceed
    <2>4. CASE ~Expired(Head(Bucket(t)), t) /\ Bucket(t) # <<>>
               /\ Proceed(t, "limit")
      <3>1. Tested("limit", requests[call[t].key], call[t].now)
        BY <1>0, <2>4 DEF Tested, HeadExpired, Expired
      <3> QED BY <2>1, <2>4, <3>1, ProceedMoves, Stages DEF Proceed
    <2> QED BY <1>2, <2>2, <2>3, <2>4 DEF First
  <1>3. CASE PopLeft(t)
    <2>1. call[t].stage = "popleft" /\ call[t].stage # "idle"
      BY <1>3 DEF PopLeft, At
    <2>2. CASE IndexError(t)
      BY <2>1, <2>2, ProceedMoves, Stages DEF IndexError
    <2> QED BY <1>3, <2>1, <2>2, PopLeftMoves DEF PopLeft
  <1>4. CASE TooManyRequests(t)
    BY <1>4, ProceedMoves, Stages DEF TooManyRequests, Proceed, At
  <1>5. CASE BelowLimit(t)
    <2>1. /\ call[t].stage = "limit" /\ call[t].stage # "idle"
          /\ Goto(t, "append")
          /\ UNCHANGED <<now, requests, admitted, overlapped>>
          /\ Len(Bucket(t)) < MAX_REQUESTS_PER_WINDOW
      BY <1>0, <1>5, Limits DEF BelowLimit, Proceed, At, Full
    <2>2. Knows(t) => Tested("append", requests[call[t].key], call[t].now)
      BY <1>0, <2>1 DEF Knows, Tested
    <2> QED BY <2>1, <2>2, ProceedMoves, Stages
  <1>6. CASE Admit(t)
    BY <1>6, AdmitMoves DEF Admit, At
  <1> QED BY <1>1, <1>2, <1>3, <1>4, <1>5, <1>6 DEF ThreadStep

LEMMA InitWindow == Init => WindowInv
  <1> SUFFICES ASSUME Init PROVE WindowInv
    OBVIOUS
  <1>1. TypeOK /\ AloneSeesEntries /\ ErrorNeedsOverlap
    BY InitType DEF Init, Idle, AloneSeesEntries, ErrorNeedsOverlap, At
  <1>2. \A k \in Keys : InOrder(k)
    BY Limits DEF Init, InOrder, Ordered
  <1> QED BY <1>1, <1>2 DEF Init, Idle, WindowInv

LEMMA NextWindow == WindowInv /\ [Next]_vars => WindowInv'
  <1> SUFFICES ASSUME WindowInv, [Next]_vars PROVE WindowInv'
    OBVIOUS
  <1>0. TypeOK /\ now \in Nat
    BY DEF WindowInv, TypeOK
  <1>1. TypeOK' /\ AloneSeesEntries' /\ ErrorNeedsOverlap'
    BY NextType, NextAlone DEF WindowInv
  <1>2. ASSUME NEW t \in Threads, NEW k \in Keys, Enter(t, k) PROVE WindowInv'
    <2>1. /\ UNCHANGED <<now, requests, admitted>>
          /\ overlapped \subseteq overlapped'
          /\ call'[t].key = k /\ call'[t].now = now /\ call'[t].stage = "loop"
          /\ \A o \in Threads \ {t} : call'[o] = call[o]
      BY <1>0, <1>2 DEF Enter, TypeOK
    <2>2. \A l \in Keys \ overlapped' : InOrder(l)'
      BY <2>1 DEF WindowInv, InOrder
    <2>3. ASSUME k \notin overlapped' PROVE Knows(t)'
      <3>1. Ordered(admitted[k], requests[k], now)
        BY <2>1, <2>3 DEF WindowInv, InOrder
      <3>2. Seen(admitted[k], requests[k], now)
        BY <3>1 DEF Ordered, Seen
      <3>3. Tested("loop", requests[k], now)
        BY DEF Tested
      <3> QED BY <1>0, <2>1, <3>2, <3>3 DEF Knows
    <2>4. \A o \in Threads \ {t} :
            call'[o].stage # "idle" /\ call'[o].key \notin overlapped'
              => Knows(o)'
      BY <2>1 DEF WindowInv, Knows
    <2> QED BY <1>1, <2>1, <2>2, <2>3, <2>4 DEF WindowInv
  <1>3. ASSUME NEW t \in Threads, ThreadStep(t) PROVE WindowInv'
    BY <1>1, <1>3, StepMoves DEF WindowInv
  <1>4. CASE Tick
    <2>1. now' = now + 1 /\ UNCHANGED <<requests, call, admitted, overlapped>>
      BY <1>4 DEF Tick
    <2>2. ASSUME NEW k \in Keys, k \notin overlapped PROVE InOrder(k)'
      <3>1. Ordered(admitted[k], requests[k], now)
        BY <2>2 DEF WindowInv, InOrder
      <3>2. Ordered(admitted[k], requests[k], now + 1)
        BY <1>0, <3>1, OrderLater, SequencesType
      <3> QED BY <2>1, <3>2 DEF InOrder
    <2>3. ASSUME NEW t \in Threads, Knows(t) PROVE Knows(t)'
      <3>1. call[t].now \in Nat
        BY <1>0, Typed
      <3> QED BY <1>0, <2>1, <2>3, <3>1 DEF Knows
    <2> QED BY <1>1, <2>1, <2>2, <2>3 DEF WindowInv
  <1>5. CASE UNCHANGED vars
    BY <1>5, <1>1 DEF vars, WindowInv, InOrder, Knows
  <1> QED BY <1>2, <1>3, <1>4, <1>5 DEF Next, Quiet

-----------------------------------------------------------------------------
(* How many requests a window sees                                         *)

LEMMA Interval ==
  ASSUME NEW m \in Nat, NEW n \in Nat, n > 0
  PROVE  /\ IsFiniteSet(m .. m + n - 1) /\ Cardinality(m .. m + n - 1) = n
         /\ IsFiniteSet(m + 1 .. m + n) /\ Cardinality(m + 1 .. m + n) = n
  <1>1. m + n - 1 \in Int /\ m + n \in Int /\ m + 1 \in Int /\ m \in Int
    OBVIOUS
  <1>2. /\ IsFiniteSet(m .. m + n - 1)
        /\ Cardinality(m .. m + n - 1)
             = IF m > m + n - 1 THEN 0 ELSE m + n - 1 - m + 1
    BY <1>1, FS_Interval
  <1>3. /\ IsFiniteSet(m + 1 .. m + n)
        /\ Cardinality(m + 1 .. m + n)
             = IF m + 1 > m + n THEN 0 ELSE m + n - (m + 1) + 1
    BY <1>1, FS_Interval
  <1> QED BY <1>2, <1>3

\* Of MAX_REQUESTS_PER_WINDOW + 1 requests in a row, the last is more than a
\* window after the first: what a window sees begins with some request m and
\* ends before m + MAX_REQUESTS_PER_WINDOW.
LEMMA WindowHolds ==
  ASSUME TypeOK, NEW k \in Keys, InOrder(k), NEW a \in Nat
  PROVE  AdmittedIn(k, a, a + WINDOW_SECONDS) <= MAX_REQUESTS_PER_WINDOW
  <1> DEFINE S == {i \in 1 .. Len(admitted[k]) :
                     admitted[k][i] \in a .. a + WINDOW_SECONDS}
  <1>0. /\ Len(admitted[k]) \in Nat
        /\ \A i \in 1 .. Len(admitted[k]) : admitted[k][i] \in Nat
    BY SequencesType
  <1>1. CASE S = {}
    <2>1. Cardinality(S) = 0
      BY <1>1, FS_EmptySet, Zenon
    <2> QED BY <2>1, Limits DEF AdmittedIn
  <1>2. CASE S # {}
    <2> PICK m \in S : \A i \in S : m <= i
      <3>1. S \subseteq Nat
        BY <1>0
      <3> HIDE DEF S
      <3> QED BY <1>2, <3>1, LeastExists
    <2>1. m \in Nat
      BY <1>0
    <2>2. ASSUME NEW i \in S PROVE i \in m .. m + MAX_REQUESTS_PER_WINDOW - 1
      <3> SUFFICES ASSUME i >= m + MAX_REQUESTS_PER_WINDOW PROVE FALSE
        BY <1>0, Limits
      <3>1. /\ m \in 1 .. Len(admitted[k]) - MAX_REQUESTS_PER_WINDOW
            /\ m + MAX_REQUESTS_PER_WINDOW \in 1 .. Len(admitted[k])
            /\ i \in 1 .. Len(admitted[k])
        BY <1>0, Limits
      <3>2. admitted[k][m] + WINDOW_SECONDS
              < admitted[k][m + MAX_REQUESTS_PER_WINDOW]
        BY <3>1 DEF InOrder, Ordered
      <3>3. admitted[k][m + MAX_REQUESTS_PER_WINDOW] <= admitted[k][i]
        BY <3>1 DEF InOrder, Ordered
      <3>4. /\ admitted[k][m] >= a /\ admitted[k][i] <= a + WINDOW_SECONDS
            /\ admitted[k][m] \in Nat /\ admitted[k][i] \in Nat
            /\ admitted[k][m + MAX_REQUESTS_PER_WINDOW] \in Nat
        BY <1>0, <3>1
      <3> QED BY <3>2, <3>3, <3>4, Limits
    <2>3. /\ IsFiniteSet(m .. m + MAX_REQUESTS_PER_WINDOW - 1)
          /\ Cardinality(m .. m + MAX_REQUESTS_PER_WINDOW - 1)
               = MAX_REQUESTS_PER_WINDOW
      BY <2>1, Interval, Limits
    <2>4. S \subseteq m .. m + MAX_REQUESTS_PER_WINDOW - 1
      BY <2>2
    <2>5. Cardinality(S) <= MAX_REQUESTS_PER_WINDOW
      <3> HIDE DEF S
      <3> QED BY <2>3, <2>4, FS_Subset
    <2> QED BY <2>5 DEF AdmittedIn
  <1> QED BY <1>1, <1>2

LEMMA Places ==
  ASSUME NEW d \in Nat, NEW n \in Nat, n > 0
  PROVE  /\ d + 1 \in 1 .. d + n
         /\ \A i \in 1 .. d : i \in 1 .. d + n
         /\ \A i \in d + 1 .. d + n : i \in 1 .. d + n /\ d + 1 <= i
         /\ \A i \in 1 .. d + n : i \in 1 .. d \/ i \in d + 1 .. d + n
  OBVIOUS

LEMMA InTheWindow ==
  ASSUME NEW c \in Nat, NEW x \in Nat, NEW y \in Nat,
         ~(x < c - WINDOW_SECONDS), x <= y, y <= c
  PROVE  y \in c - WINDOW_SECONDS .. c
  BY Limits

\* A full bucket that starts with an entry of the window is the window.
LEMMA RefusedSees ==
  ASSUME TypeOK, NEW t \in Threads, NEW k \in Keys, k = call[t].key,
         InOrder(k), Knows(t), TooManyRequests(t)
  PROVE  AdmittedIn(k, call[t].now - WINDOW_SECONDS, call[t].now)
           = MAX_REQUESTS_PER_WINDOW
  <1> DEFINE S == {i \in 1 .. Len(admitted[k]) :
               admitted[k][i] \in call[t].now - WINDOW_SECONDS .. call[t].now}
  <1>0. /\ Len(admitted[k]) \in Nat /\ Len(requests[k]) \in Nat
        /\ \A i \in 1 .. Len(admitted[k]) : admitted[k][i] \in Nat
        /\ call[t].now \in Nat
    BY SequencesType, Typed
  <1>1. Len(requests[k]) = MAX_REQUESTS_PER_WINDOW
        /\ Len(requests[k]) <= Len(admitted[k])
    BY <1>0, Limits DEF TooManyRequests, Full, Bucket, InOrder, Ordered
  <1> PICK d \in Nat : d = Len(admitted[k]) - Len(requests[k])
    BY <1>0, <1>1
  <1>2. Len(admitted[k]) = d + MAX_REQUESTS_PER_WINDOW
    BY <1>0, <1>1
  <1>3. /\ d + 1 \in 1 .. Len(admitted[k])
        /\ \A i \in 1 .. d : i \in 1 .. Len(admitted[k])
        /\ \A i \in d + 1 .. d + MAX_REQUESTS_PER_WINDOW :
              i \in 1 .. Len(admitted[k]) /\ d + 1 <= i
        /\ \A i \in 1 .. Len(admitted[k]) :
              i \in 1 .. d \/ i \in d + 1 .. d + MAX_REQUESTS_PER_WINDOW
    BY <1>2, Places, Limits
  <1>4. ~(admitted[k][d + 1] < call[t].now - WINDOW_SECONDS)
    <2>1. requests[k][1] = admitted[k][d + 1]
      BY <1>1, Limits DEF InOrder, Ordered
    <2>2. ~HeadExpired(requests[k], call[t].now)
      BY DEF Knows, Tested, TooManyRequests, At
    <2>3. requests[k] # <<>>
      BY <1>1, Limits
    <2> QED BY <2>1, <2>2, <2>3 DEF HeadExpired
  <1>5. ASSUME NEW i \in 1 .. d PROVE i \notin S
    <2>1. admitted[k][i] + WINDOW_SECONDS < call[t].now
      BY DEF Knows, Seen
    <2>2. admitted[k][i] \in Nat
      BY <1>0, <1>3
    <2> QED BY <1>0, <2>1, <2>2, Limits
  <1>6. ASSUME NEW i \in d + 1 .. d + MAX_REQUESTS_PER_WINDOW PROVE i \in S
    <2>1. i \in 1 .. Len(admitted[k]) /\ d + 1 <= i
      BY <1>3
    <2>2. admitted[k][d + 1] <= admitted[k][i]
      BY <1>3, <2>1 DEF InOrder, Ordered
    <2>3. admitted[k][i] <= call[t].now
      BY <2>1 DEF Knows, Seen
    <2>4. admitted[k][i] \in Nat /\ admitted[k][d + 1] \in Nat
      BY <1>0, <1>3, <2>1
    <2>5. admitted[k][i] \in call[t].now - WINDOW_SECONDS .. call[t].now
      BY <1>0, <1>4, <2>2, <2>3, <2>4, InTheWindow
    <2> QED BY <2>1, <2>5
  <1>7. S = d + 1 .. d + MAX_REQUESTS_PER_WINDOW
    <2>1. \A i \in S : i \in 1 .. Len(admitted[k])
      OBVIOUS
    <2> HIDE DEF S
    <2>2. ASSUME NEW i \in S PROVE i \in d + 1 .. d + MAX_REQUESTS_PER_WINDOW
      BY <1>3, <1>5, <2>1
    <2> QED BY <1>6, <2>2
  <1>8. Cardinality(d + 1 .. d + MAX_REQUESTS_PER_WINDOW)
          = MAX_REQUESTS_PER_WINDOW
    BY Interval, Limits
  <1> QED BY <1>7, <1>8 DEF AdmittedIn

\* No stretch of WINDOW_SECONDS, both ends included, sees more requests of a
\* key let through than the limit, as long as no two calls with that key
\* were in assert_not_rate_limited at once.
THEOREM LimitHolds == Spec => []LimitHoldsAlone
  <1>1. WindowInv => LimitHoldsAlone
    <2> SUFFICES ASSUME WindowInv, NEW k \in Keys \ overlapped,
                        NEW a \in 0 .. now
                 PROVE  AdmittedIn(k, a, a + WINDOW_SECONDS)
                          <= MAX_REQUESTS_PER_WINDOW
      BY DEF LimitHoldsAlone
    <2>1. TypeOK /\ InOrder(k) /\ a \in Nat
      BY DEF WindowInv, TypeOK
    <2> QED BY <2>1, WindowHolds
  <1> QED BY <1>1, InitWindow, NextWindow, PTL DEF Spec

\* And nobody is turned away early: a call alone on its key gets a 429 only
\* when the window that ends with it holds as many requests as the limit.
THEOREM RefusalsAreDue == Spec => RefusedOnlyWhenFull
  <1> DEFINE Due ==
        \A t \in Threads :
          TooManyRequests(t) /\ call[t].key \notin overlapped =>
            AdmittedIn(call[t].key, call[t].now - WINDOW_SECONDS, call[t].now)
              = MAX_REQUESTS_PER_WINDOW
  <1>1. WindowInv => Due
    <2> SUFFICES ASSUME WindowInv, NEW t \in Threads, TooManyRequests(t),
                        call[t].key \notin overlapped
                 PROVE  AdmittedIn(call[t].key, call[t].now - WINDOW_SECONDS,
                                   call[t].now) = MAX_REQUESTS_PER_WINDOW
      OBVIOUS
    <2>1. call[t].key \in Keys /\ TypeOK
      BY Typed DEF WindowInv
    <2>2. InOrder(call[t].key) /\ Knows(t)
      BY <2>1 DEF WindowInv, TooManyRequests, At
    <2> QED BY <2>1, <2>2, RefusedSees
  <1>2. Spec => []WindowInv
    BY InitWindow, NextWindow, PTL DEF Spec
  <1>3. WindowInv /\ [Next]_vars => [Due]_vars
    BY <1>1
  <1> QED BY <1>2, <1>3, PTL DEF Spec, RefusedOnlyWhenFull
=============================================================================
