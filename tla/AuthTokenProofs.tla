-------------------------- MODULE AuthTokenProofs --------------------------
(***************************************************************************)
(* Refresh tokens: a completed "revoke all" is final, a rotation revokes   *)
(* what it replaces, and a token is rotated no more often than there are   *)
(* threads, for any number of threads.                                     *)
(*                                                                         *)
(* All three speak of committed rows only.  What makes them inductive is   *)
(* what the sessions in flight may still write: Pending(s) relates the     *)
(* tokens a session has read, will revoke and will insert to the rows as   *)
(* they are now, and it survives every commit of another session because   *)
(* rows only ever move towards their end (Grows).  Counted adds to the     *)
(* exchanges of a token that were made those that are on their way.        *)
(*                                                                         *)
(* With the same invariant, every step of the service is a step of the     *)
(* abstract Sessions under the mapping of SessionRefinement, or leaves it  *)
(* alone.                                                                  *)
(***************************************************************************)
EXTENDS AuthProofs, SessionRefinement, FiniteSetTheorems

Dead(t) == refresh_tokens[t].revoked \/ refresh_tokens[t].expires <= now

\* The tokens of S are rows that belong to one user.
OneAccount(S) ==
  \A t, x \in S :
    Issued(t) /\ refresh_tokens[t].user = refresh_tokens[x].user

Pending(s) ==
  /\ s.stage # "ready" => s.issue = NoToken /\ s.seen = {} /\ s.revoke = {}
  /\ s.issue \in Tokens => s.revoke \subseteq {s.token}
  /\ OneAccount(s.revoke)
  /\ s.token \in Tokens => Issued(s.token)
  /\ s.op = "login" => s.token = NoToken
  /\ s.stage = "token_read" =>
       s.token \in Tokens /\ refresh_tokens[s.token].user = s.user
  /\ s.issue \in Tokens =>
       /\ ~Issued(s.issue) /\ s.user \in Users
       /\ s.token \in Tokens => /\ s.token \in s.revoke
                                /\ refresh_tokens[s.token].user = s.user
  /\ \A t \in s.seen : Issued(t) /\ (t \in s.revoke \/ Dead(t))

\* No two sessions are about to insert the same token.
Alone(w, s) ==
  s.issue \in Tokens => \A v \in Workers \ {w} : sess[v].issue # s.issue

CutDead == \A t \in cut : Issued(t) /\ Dead(t)

ParentsRevoked ==
  \A t \in Tokens : parent[t] \in Tokens =>
    /\ Issued(t) /\ Issued(parent[t])
    /\ refresh_tokens[parent[t]].revoked
    /\ refresh_tokens[parent[t]].user = refresh_tokens[t].user

\* Session s has found token t live and may still exchange it.
Exchanges(s, t) ==
  /\ s.token = t
  /\ \/ s.stage = "token_read"
     \/ s.stage = "ready" /\ s.issue \in Tokens

Exchanging(t) == {w \in Workers : Exchanges(sess[w], t)}

\* The exchanges of a token, made or to come, are no more than the threads.
Counted ==
  \A t \in Tokens :
    Cardinality(Children(t)) + Cardinality(Exchanging(t))
      <= Cardinality(Workers)

TokenInv ==
  /\ TypeInv /\ CutDead /\ ParentsRevoked /\ Counted
  /\ \A w \in Workers : Pending(sess[w]) /\ Alone(w, sess[w])

\* Session r of worker w exchanges a token only if the session it replaces
\* did, or the request begins here and the token is live.
Entitled(w, r) ==
  \A t \in Tokens : Exchanges(r, t) =>
    Exchanges(sess[w], t) \/ (sess[w].stage = "begin" /\ Live(t))

\* What the lemmas on the handlers show of a step: it keeps TokenInv, and it
\* is a step of the abstract specification or changes nothing there.
SessionStep == [Abstract!Next]_(Abstract!vars)
TokenStep == TokenInv' /\ SessionStep

-----------------------------------------------------------------------------
\* Rows of refresh_tokens are never deleted or given to another user, never
\* come back to life, and only token x may be new.
Grows(x) ==
  \A t \in Tokens :
    /\ Issued(t) => /\ Issued(t)'
                    /\ refresh_tokens'[t].user = refresh_tokens[t].user
                    /\ refresh_tokens'[t].expires = refresh_tokens[t].expires
                    /\ refresh_tokens[t].revoked => refresh_tokens'[t].revoked
    /\ t # x /\ ~Issued(t) => ~Issued(t)'

LEMMA PendingKept ==
  ASSUME NEW s \in Session, Pending(s), NEW x, Grows(x), s.issue # x \/ x = NoToken,
         now \in Nat, now' \in Nat, now <= now', TypeOK
  PROVE  Pending(s)'
  <1>1. \A t \in Tokens : Issued(t) /\ Dead(t) => Issued(t)' /\ Dead(t)'
    BY DEF Grows, Dead, TypeOK, RefreshRow
  <1>2. \A t \in s.seen : t \in Tokens
    BY DEF Session
  <1>3. s.stage = "token_read" =>
          s.token \in Tokens /\ refresh_tokens'[s.token].user = s.user
    BY DEF Pending, Grows
  <1>4. s.issue \in Tokens => ~Issued(s.issue)'
    BY Members DEF Grows, Pending
  <1>5. OneAccount(s.revoke)'
    <2>1. s.revoke \subseteq Tokens /\ OneAccount(s.revoke)
      BY DEF Session, Pending
    <2> QED BY <2>1 DEF OneAccount, Grows
  <1> QED BY <1>1, <1>2, <1>3, <1>4, <1>5 DEF Pending, Grows

LEMMA NothingPending == Pending(NoSession) /\ NoSession.issue = NoToken
  BY Members DEF Pending, NoSession, OneAccount

\* Counting: children and exchanging threads of a token are finite sets.
LEMMA Finite ==
  ASSUME NEW t
  PROVE  /\ IsFiniteSet(Children(t)) /\ IsFiniteSet(Exchanging(t))
         /\ Cardinality(Children(t)) \in Nat
         /\ Cardinality(Exchanging(t)) \in Nat
         /\ Cardinality(Workers) \in Nat
  <1>1. Children(t) \in SUBSET Tokens /\ Exchanging(t) \in SUBSET Workers
    BY DEF Children, Exchanging
  <1>2. IsFiniteSet(Tokens) /\ IsFiniteSet(Workers)
    BY FiniteAssumption DEF FiniteAssumption
  <1>3. IsFiniteSet(Children(t)) /\ IsFiniteSet(Exchanging(t))
    BY <1>1, <1>2, FS_Subset
  <1> QED BY <1>2, <1>3, FS_CardinalityType

\* A token that is live has not been exchanged.
LEMMA LiveHasNoChildren ==
  ASSUME TypeOK, ParentsRevoked, NEW t \in Tokens, Live(t)
  PROVE  Children(t) = {}
  BY DEF Children, ParentsRevoked, Live

\* While no token is inserted, a thread joins in only for a live one.
LEMMA CountMove ==
  ASSUME TypeOK, ParentsRevoked, Counted, NEW w \in Workers, NEW r,
         Entitled(w, r), sess' = [sess EXCEPT ![w] = r], UNCHANGED parent
  PROVE  Counted'
  <1> SUFFICES ASSUME NEW t \in Tokens
               PROVE  Cardinality(Children(t)') + Cardinality(Exchanging(t)')
                        <= Cardinality(Workers)
    BY DEF Counted
  <1>0. sess \in [Workers -> Session] /\ IsFiniteSet(Workers)
    BY FiniteAssumption DEF TypeOK, FiniteAssumption
  <1>1. Children(t)' = Children(t)
    BY DEF Children
  <1>2. \A v \in Exchanging(t)' :
          v \in Exchanging(t) \/ (v = w /\ Exchanges(r, t))
    BY <1>0 DEF Exchanging, Exchanges
  <1>3. CASE Exchanging(t)' \subseteq Exchanging(t)
    <2>1. Cardinality(Exchanging(t)') <= Cardinality(Exchanging(t))
          /\ Cardinality(Exchanging(t)') \in Nat
      BY <1>3, Finite, FS_Subset, FS_CardinalityType
    <2> QED BY <1>1, <2>1, Finite DEF Counted
  <1>4. CASE ~(Exchanging(t)' \subseteq Exchanging(t))
    <2>1. Live(t)
      BY <1>2, <1>4 DEF Entitled, Exchanging
    <2>2. Cardinality(Children(t)) = 0
      BY <2>1, LiveHasNoChildren, FS_EmptySet
    <2>3. Exchanging(t)' \in SUBSET Workers
      BY DEF Exchanging
    <2>4. Cardinality(Exchanging(t)') <= Cardinality(Workers)
          /\ Cardinality(Exchanging(t)') \in Nat
      BY <1>0, <2>3, FS_Subset, FS_CardinalityType
    <2> QED BY <1>1, <2>2, <2>4
  <1> QED BY <1>3, <1>4

\* The commit of an exchange turns one that was to come into one made.
LEMMA CountWrite ==
  ASSUME TypeOK, Counted, NEW w \in Workers, NEW s \in Session, Write(s),
         s.issue \in Tokens => sess[w] = s /\ s.stage = "ready",
         NEW r, r.stage # "token_read", r.stage # "ready",
         sess' = [sess EXCEPT ![w] = r]
  PROVE  Counted'
  <1> SUFFICES ASSUME NEW t \in Tokens
               PROVE  Cardinality(Children(t)') + Cardinality(Exchanging(t)')
                        <= Cardinality(Workers)
    BY DEF Counted
  <1>0. sess \in [Workers -> Session] /\ parent \in [Tokens -> TokenRef]
    BY DEF TypeOK
  <1>1. parent' = [c \in Tokens |-> IF c = s.issue THEN s.token ELSE parent[c]]
    BY DEF Write
  <1>2. Exchanging(t)' \subseteq Exchanging(t) \ {w}
    BY <1>0 DEF Exchanging, Exchanges
  <1>3. CASE s.issue \in Tokens /\ s.token = t
    <2>1. w \in Exchanging(t)
      BY <1>3 DEF Exchanging, Exchanges
    <2>2. Children(t)' \subseteq Children(t) \cup {s.issue}
      BY <1>1 DEF Children
    <2>3. /\ IsFiniteSet(Exchanging(t) \ {w})
          /\ Cardinality(Exchanging(t) \ {w}) = Cardinality(Exchanging(t)) - 1
      BY <2>1, Finite, FS_RemoveElement
    <2>4. /\ IsFiniteSet(Children(t) \cup {s.issue})
          /\ Cardinality(Children(t) \cup {s.issue})
               <= Cardinality(Children(t)) + 1
      <3>1. /\ IsFiniteSet(Children(t) \cup {s.issue})
            /\ \/ Cardinality(Children(t) \cup {s.issue})
                    = Cardinality(Children(t))
               \/ Cardinality(Children(t) \cup {s.issue})
                    = Cardinality(Children(t)) + 1
        BY Finite, FS_AddElement
      <3> QED BY <3>1, Finite
    <2>5. Cardinality(Exchanging(t)') <= Cardinality(Exchanging(t)) - 1
          /\ Cardinality(Exchanging(t)') \in Nat
      BY <1>2, <2>3, FS_Subset, FS_CardinalityType
    <2>6. Cardinality(Children(t)') <= Cardinality(Children(t)) + 1
          /\ Cardinality(Children(t)') \in Nat
      BY <2>2, <2>4, Finite, FS_Subset, FS_CardinalityType
    <2> QED BY <2>5, <2>6, Finite DEF Counted
  <1>4. CASE ~(s.issue \in Tokens /\ s.token = t)
    <2>1. Children(t)' \subseteq Children(t)
      BY <1>1, <1>4 DEF Children
    <2>2. Cardinality(Children(t)') <= Cardinality(Children(t))
          /\ Cardinality(Children(t)') \in Nat
      BY <2>1, Finite, FS_Subset, FS_CardinalityType
    <2>3. Exchanging(t)' \subseteq Exchanging(t)
      BY <1>2
    <2>4. Cardinality(Exchanging(t)') <= Cardinality(Exchanging(t))
          /\ Cardinality(Exchanging(t)') \in Nat
      BY <2>3, Finite, FS_Subset, FS_CardinalityType
    <2> QED BY <2>2, <2>4, Finite DEF Counted
  <1> QED BY <1>3, <1>4

-----------------------------------------------------------------------------
(* Steps of the abstract specification                                     *)

LEMMA HeldToken ==
  ASSUME NEW v \in Workers, sess[v] \in Session
  PROVE  /\ Held[v] \in TokenRef
         /\ \A t \in Tokens : Held[v] = t <=> Exchanges(sess[v], t)
  BY Members DEF Held, Refreshing, Exchanges, Session, TokenRef

\* While the rows stay, a session lets its token go, goes on with it, or is
\* presented with a live one.
LEMMA MoveSession ==
  ASSUME TypeOK, TypeOK', NEW w \in Workers, NEW r, Entitled(w, r),
         sess' = [sess EXCEPT ![w] = r], UNCHANGED <<refresh_tokens, now>>
  PROVE  SessionStep
  <1>0. sess \in [Workers -> Session] /\ r \in Session /\ sess'[w] = r
    BY DEF TypeOK
  <1>1. UNCHANGED <<Owner, OpenTokens>>
    BY DEF Owner, OpenTokens, Issued
  <1>2. PICK h : h = IF Refreshing(r) THEN r.token ELSE NoToken
    OBVIOUS
  <1>3. Held' = [Held EXCEPT ![w] = h]
    BY <1>0, <1>2 DEF Held, Refreshing
  <1>4. h \in TokenRef /\ \A t \in Tokens : h = t <=> Exchanges(r, t)
    BY <1>0, <1>2, Members
    DEF Held, Refreshing, Exchanges, Session, TokenRef
  <1>5. /\ Held[w] \in TokenRef
        /\ \A t \in Tokens : Held[w] = t <=> Exchanges(sess[w], t)
    BY <1>0, HeldToken
  <1>6. CASE h = NoToken
    BY <1>1, <1>3, <1>6
    DEF SessionStep, Abstract!Next, Abstract!LetGo, Abstract!vars
  <1>7. CASE h = Held[w]
    <2>1. Held' = Held
      BY <1>3, <1>7 DEF Held
    <2> QED BY <1>1, <2>1 DEF SessionStep, Abstract!vars
  <1>8. CASE h \in Tokens /\ h # Held[w]
    <2>1. Live(h)
      BY <1>4, <1>5, <1>8 DEF Entitled
    <2>2. Held[w] = NoToken
      BY <1>4, <1>5, <1>8 DEF Entitled, Exchanges, TokenRef
    <2>3. h \in OpenTokens
      BY <1>8, <2>1 DEF OpenTokens, Live
    <2> QED BY <1>1, <1>3, <1>8, <2>2, <2>3
            DEF SessionStep, Abstract!Next, Abstract!Present
  <1> QED BY <1>4, <1>6, <1>7, <1>8 DEF TokenRef

\* A commit opens a session, exchanges the one the worker holds, or ends
\* sessions of one user.
LEMMA WriteSession ==
  ASSUME TypeOK, NEW w \in Workers, NEW s \in Session, Pending(s), Write(s),
         s.issue \in Tokens => sess[w] = s /\ s.stage = "ready",
         s.revoke = {} \/ sess[w] = s,
         NEW r, r.token = NoToken, sess' = [sess EXCEPT ![w] = r]
  PROVE  SessionStep
  <1>0. /\ sess \in [Workers -> Session]
        /\ refresh_tokens \in [Tokens -> RefreshRow]
        /\ s.issue \in TokenRef /\ s.token \in TokenRef
        /\ s.revoke \subseteq Tokens
    BY DEF TypeOK, Session
  <1>1. Held' = [Held EXCEPT ![w] = NoToken]
    BY <1>0 DEF Held, Refreshing
  <1>2. \A t \in Tokens :
          /\ t # s.issue => /\ Owner'[t] = Owner[t]
                            /\ t \in OpenTokens'
                                 <=> t \in OpenTokens /\ t \notin s.revoke
          /\ t = s.issue => /\ Owner'[t] = s.user /\ Owner[t] = NoUser
                            /\ t \in OpenTokens' /\ t \notin OpenTokens
    <2> SUFFICES ASSUME NEW t \in Tokens
                 PROVE  /\ t # s.issue =>
                             /\ Owner'[t] = Owner[t]
                             /\ t \in OpenTokens'
                                  <=> t \in OpenTokens /\ t \notin s.revoke
                        /\ t = s.issue =>
                             /\ Owner'[t] = s.user /\ Owner[t] = NoUser
                             /\ t \in OpenTokens' /\ t \notin OpenTokens
      OBVIOUS
    <2>1. refresh_tokens'[t] =
            IF t = s.issue
            THEN [user |-> s.user, revoked |-> FALSE,
                  expires |-> s.at + REFRESH_TOKEN_EXPIRES]
            ELSE IF t \in s.revoke
                 THEN [refresh_tokens[t] EXCEPT !.revoked = TRUE]
                 ELSE refresh_tokens[t]
      BY DEF Write
    <2>2. refresh_tokens[t] \in RefreshRow
      BY <1>0
    <2>3. CASE t = s.issue
      <3>1. ~Issued(t) /\ s.user # NoUser
        BY <2>3, Members DEF Pending
      <3> QED BY <2>1, <2>3, <3>1 DEF Owner, OpenTokens, Issued
    <2>4. CASE t # s.issue /\ t \in s.revoke
      <3>1. refresh_tokens'[t].user = refresh_tokens[t].user
            /\ refresh_tokens'[t].revoked
        BY <2>1, <2>2, <2>4 DEF RefreshRow
      <3> QED BY <2>4, <3>1 DEF Owner, OpenTokens, Issued
    <2>5. CASE t # s.issue /\ t \notin s.revoke
      BY <2>1, <2>5 DEF Owner, OpenTokens, Issued
    <2> QED BY <2>3, <2>4, <2>5
  <1>3. OpenTokens \subseteq Tokens /\ OpenTokens' \subseteq Tokens
    BY DEF OpenTokens
  <1>4. Owner \in [Tokens -> UserRef] /\ Owner' = [t \in Tokens |-> Owner'[t]]
    BY <1>0 DEF Owner, RefreshRow
  <1>5. CASE s.issue \in Tokens
    <2>1. Owner' = [Owner EXCEPT ![s.issue] = s.user]
          /\ Abstract!Unused(s.issue)
      BY <1>2, <1>4, <1>5 DEF Abstract!Unused
    <2>2. OpenTokens' = (OpenTokens \ s.revoke) \cup {s.issue}
      BY <1>2, <1>3, <1>5
    <2>3. CASE s.token \in Tokens
      <3>1. Held[w] = s.token /\ s.token # NoToken
        BY <1>5, <2>3, Members DEF Held, Refreshing
      <3>2. s.revoke = {s.token} /\ Owner[s.token] = s.user
        BY <1>5, <2>3 DEF Pending, Owner
      <3>3. Abstract!Exchange(w, s.issue)
        BY <1>1, <2>1, <2>2, <3>1, <3>2 DEF Abstract!Exchange
      <3> QED BY <1>5, <3>3 DEF SessionStep, Abstract!Next
    <2>4. CASE s.token = NoToken
      <3>1. s.revoke = {}
        BY <1>0, <1>5, <2>4, Members DEF Pending
      <3>2. Held' = Held
        BY <1>1, <1>5, <2>4 DEF Held, Refreshing
      <3>3. s.user \in Users
        BY <1>5 DEF Pending
      <3>4. Abstract!Open(s.user, s.issue)
        BY <2>1, <2>2, <3>1, <3>2 DEF Abstract!Open
      <3> QED BY <1>5, <3>3, <3>4 DEF SessionStep, Abstract!Next
    <2> QED BY <1>0, <2>3, <2>4 DEF TokenRef
  <1>6. CASE s.issue \notin Tokens
    <2>1. Owner' = Owner
      BY <1>2, <1>4, <1>6
    <2>2. OpenTokens' = OpenTokens \ s.revoke
      BY <1>2, <1>3, <1>6
    <2>3. CASE s.revoke = {}
      BY <1>1, <2>1, <2>2, <2>3
      DEF SessionStep, Abstract!Next, Abstract!LetGo
    <2>4. CASE s.revoke # {}
      <3> PICK x \in s.revoke : TRUE
        BY <2>4
      <3> DEFINE u == refresh_tokens[x].user
                 ended == OpenTokens \cap s.revoke
      <3>1. u \in Users
        BY <1>0 DEF Pending, OneAccount, Issued, RefreshRow, UserRef
      <3>2. Held' = Held
        <4>1. ~Refreshing(sess[w])
          BY <1>0, <1>6, <2>4 DEF Pending, Refreshing, TokenRef
        <4> QED BY <1>1, <4>1 DEF Held
      <3>3. ended \in SUBSET {t \in OpenTokens : Owner[t] = u}
        BY <1>3 DEF Pending, OneAccount, Owner
      <3>4. OpenTokens' = OpenTokens \ ended
        BY <2>2
      <3> HIDE DEF u, ended
      <3>5. Abstract!End(u)
        BY <2>1, <3>2, <3>3, <3>4 DEF Abstract!End
      <3> QED BY <3>1, <3>5 DEF SessionStep, Abstract!Next
    <2> QED BY <2>3, <2>4
  <1> QED BY <1>5, <1>6

\* A worker whose session goes from one state to another while the tables
\* stay as they are keeps TokenInv if the new session does its part.
LEMMA MoveTokens ==
  ASSUME TokenInv, TypeInv', NEW w \in Workers, NEW s, Pending(s),
         Alone(w, s), Entitled(w, s), sess' = [sess EXCEPT ![w] = s],
         UNCHANGED <<refresh_tokens, parent, cut, now>>
  PROVE  TokenStep
  <1>1. sess \in [Workers -> Session]
    BY DEF TokenInv, TypeInv, TypeOK
  <1>2. CutDead' /\ ParentsRevoked'
    BY DEF TokenInv, CutDead, ParentsRevoked, Issued, Dead
  <1>3. ASSUME NEW v \in Workers PROVE Pending(sess[v])' /\ Alone(v, sess[v])'
    <2>1. sess'[v] = IF v = w THEN s ELSE sess[v]
      BY <1>1
    <2>2. Pending(sess'[v])
      BY <2>1 DEF TokenInv
    <2>3. Pending(sess[v])'
      BY <2>2 DEF Pending, OneAccount, Issued, Dead
    <2>4. Alone(v, sess[v])'
      BY <1>1, <2>1 DEF Alone, TokenInv
    <2> QED BY <2>3, <2>4
  <1>4. Counted'
    BY CountMove DEF TokenInv, TypeInv
  <1>5. SessionStep
    BY MoveSession DEF TokenInv, TypeInv
  <1> QED BY <1>2, <1>3, <1>4, <1>5 DEF TokenInv, TokenStep

LEMMA StepTokens ==
  ASSUME TokenInv, TypeInv', NEW w \in Workers, NEW s, Pending(s),
         Alone(w, s), Entitled(w, s), Step(w, s)
  PROVE  TokenStep
  BY MoveTokens DEF Step, tables, history

LEMMA CloseTokens ==
  ASSUME TokenInv, TypeInv', NEW w \in Workers, Close(w),
         UNCHANGED <<refresh_tokens, parent, cut, now>>
  PROVE  TokenStep
  <1>1. Alone(w, NoSession) /\ Entitled(w, NoSession)
    BY NothingPending, Members DEF Alone, Entitled, Exchanges, NoSession
  <1> QED BY <1>1, NothingPending, MoveTokens DEF Close

\* What a transaction does to the rows.
LEMMA WriteGrows ==
  ASSUME TypeOK, NEW s \in Session, Pending(s), Write(s)
  PROVE  /\ Grows(s.issue)
         /\ \A t \in s.revoke : t # s.issue => refresh_tokens'[t].revoked
         /\ s.issue \in Tokens =>
              Issued(s.issue)' /\ refresh_tokens'[s.issue].user = s.user
  <1>1. refresh_tokens' = [t \in Tokens |->
          IF t = s.issue
          THEN [user |-> s.user, revoked |-> FALSE,
                expires |-> s.at + REFRESH_TOKEN_EXPIRES]
          ELSE IF t \in s.revoke
               THEN [refresh_tokens[t] EXCEPT !.revoked = TRUE]
               ELSE refresh_tokens[t]]
    BY DEF Write
  <1>2. \A t \in Tokens : refresh_tokens[t] \in RefreshRow
    BY DEF TypeOK
  <1>3. ASSUME NEW t \in Tokens, t # s.issue
        PROVE  /\ refresh_tokens'[t].user = refresh_tokens[t].user
               /\ refresh_tokens'[t].expires = refresh_tokens[t].expires
               /\ refresh_tokens[t].revoked => refresh_tokens'[t].revoked
               /\ t \in s.revoke => refresh_tokens'[t].revoked
    <2>1. CASE t \in s.revoke
      <3>1. refresh_tokens'[t] = [refresh_tokens[t] EXCEPT !.revoked = TRUE]
        BY <1>1, <1>3, <2>1
      <3> QED BY <1>2, <3>1 DEF RefreshRow
    <2>2. CASE t \notin s.revoke
      BY <1>1, <1>3, <2>2
    <2> QED BY <2>1, <2>2
  <1>4. s.issue \in Tokens => refresh_tokens'[s.issue].user = s.user
                              /\ Issued(s.issue)' /\ ~Issued(s.issue)
    BY <1>1, Members DEF Pending, Issued
  <1>5. Grows(s.issue)
    BY <1>3, <1>4 DEF Grows, Issued
  <1>6. \A t \in s.revoke : t \in Tokens
    BY DEF Session
  <1> QED BY <1>3, <1>4, <1>5, <1>6

\* A transaction keeps TokenInv; its session has nothing pending afterwards.
LEMMA WriteTokens ==
  ASSUME TokenInv, TypeInv', NEW w \in Workers, NEW s \in Session, Pending(s),
         Alone(w, s), Write(s), UNCHANGED now,
         s.issue \in Tokens => sess[w] = s /\ s.stage = "ready",
         s.revoke = {} \/ sess[w] = s,
         NEW r, sess' = [sess EXCEPT ![w] = r],
         r.stage # "token_read", r.stage # "ready", r.op # "login",
         r.issue = NoToken, r.token = NoToken, r.seen = {}, r.revoke = {}
  PROVE  TokenStep
  <1>0. TypeOK /\ sess \in [Workers -> Session] /\ now \in Nat
        /\ parent \in [Tokens -> TokenRef]
    BY DEF TokenInv, TypeInv, TypeOK
  <1>1. /\ Grows(s.issue)
        /\ \A t \in s.revoke : t # s.issue => refresh_tokens'[t].revoked
        /\ s.issue \in Tokens =>
             Issued(s.issue)' /\ refresh_tokens'[s.issue].user = s.user
    BY <1>0, WriteGrows
  <1>2. \A t \in Tokens : Issued(t) /\ Dead(t) => Issued(t)' /\ Dead(t)'
    BY <1>0, <1>1 DEF Grows, Dead
  <1>3. CutDead'
    <2>1. ASSUME NEW t \in s.seen PROVE Issued(t)' /\ Dead(t)'
      <3>1. t \in Tokens /\ Issued(t) /\ (t \in s.revoke \/ Dead(t))
        BY DEF Session, Pending
      <3>2. t # s.issue
        BY <3>1 DEF Pending
      <3> QED BY <1>1, <1>2, <3>1, <3>2 DEF Grows, Dead
    <2>2. cut' = cut \cup s.seen /\ cut \subseteq Tokens
      BY <1>0 DEF Write, TypeOK
    <2> QED BY <1>2, <2>1, <2>2 DEF TokenInv, CutDead
  <1>4. ParentsRevoked'
    <2> SUFFICES ASSUME NEW t \in Tokens, parent'[t] \in Tokens
                 PROVE  /\ refresh_tokens'[t].user # NoUser
                        /\ refresh_tokens'[parent'[t]].user # NoUser
                        /\ refresh_tokens'[parent'[t]].revoked
                        /\ refresh_tokens'[parent'[t]].user
                             = refresh_tokens'[t].user
      BY DEF ParentsRevoked, Issued
    <2>1. CASE t = s.issue
      <3>1. parent'[t] = s.token
        BY <1>0, <2>1 DEF Write
      <3>2. s.token \in s.revoke /\ Issued(s.token)
            /\ refresh_tokens[s.token].user = s.user /\ s.token # s.issue
        BY <2>1, <3>1 DEF Pending
      <3> QED BY <1>1, <2>1, <3>1, <3>2 DEF Grows, Issued
    <2>2. CASE t # s.issue
      <3>1. parent'[t] = parent[t]
        BY <1>0, <2>2 DEF Write
      <3> QED BY <1>1, <3>1 DEF TokenInv, ParentsRevoked, Grows, Issued
    <2> QED BY <2>1, <2>2
  <1>5. ASSUME NEW v \in Workers PROVE Pending(sess[v])' /\ Alone(v, sess[v])'
    <2>1. CASE v = w
      <3>1. sess'[v] = r
        BY <1>0, <2>1
      <3>2. Pending(r)' /\ Alone(v, r)'
        BY Members DEF Pending, Alone, OneAccount
      <3> QED BY <3>1, <3>2 DEF Pending, Alone, OneAccount
    <2>2. CASE v # w
      <3>1. sess'[v] = sess[v] /\ sess[v] \in Session /\ Pending(sess[v])
            /\ Alone(v, sess[v])
        BY <1>0, <2>2 DEF TokenInv
      <3>2. sess[v].issue # s.issue \/ s.issue = NoToken
        BY <2>2 DEF Alone, Session, TokenRef
      <3>3. \A q \in Session :
              Pending(q) /\ (q.issue # s.issue \/ s.issue = NoToken)
                => Pending(q)'
        BY <1>0, <1>1, PendingKept
      <3>4. Alone(v, sess[v])'
        BY <1>0, <3>1, Members DEF Alone
      <3> QED BY <3>1, <3>2, <3>3, <3>4 DEF Pending, Issued, Dead
    <2> QED BY <2>1, <2>2
  <1>6. Counted'
    BY <1>0, CountWrite DEF TokenInv
  <1>7. SessionStep
    BY <1>0, WriteSession
  <1> QED BY <1>3, <1>4, <1>5, <1>6, <1>7 DEF TokenInv, TokenStep

LEMMA RejectTokens ==
  ASSUME TokenInv, TypeInv', NEW w \in Workers, NEW s \in Session, Pending(s),
         Alone(w, s), s.issue = NoToken, s.revoke = {}, Reject(w, s)
  PROVE  TokenStep
  <1>0. sess' = [sess EXCEPT ![w] = NoSession] /\ UNCHANGED now
    BY DEF Reject, Close
  <1>1. CASE Write(s)
    <2>1. /\ NoSession.stage = "idle" /\ NoSession.op = "none"
          /\ NoSession.issue = NoToken /\ NoSession.token = NoToken
          /\ NoSession.seen = {} /\ NoSession.revoke = {}
      BY DEF NoSession
    <2> QED BY <1>0, <1>1, <2>1, WriteTokens, Members
  <1>2. CASE UNCHANGED <<tables, history>>
    BY <1>0, <1>2, CloseTokens DEF tables, history, Close
  <1> QED BY <1>1, <1>2 DEF Reject

\* Before it is ready a session has inserted and cut nothing: it may change
\* its other fields freely and stay Pending.
LEMMA NotReady ==
  ASSUME TokenInv, NEW w \in Workers, sess[w].stage # "ready",
         NEW r \in Session, r.issue = sess[w].issue, r.seen = sess[w].seen,
         r.token = sess[w].token, r.op = sess[w].op, r.stage # "token_read",
         \/ r.revoke = sess[w].revoke
         \/ r.stage = "ready" /\ OneAccount(r.revoke)
  PROVE  Pending(r) /\ Alone(w, r) /\ r.issue = NoToken /\ Entitled(w, r)
  <1>1. Pending(r) /\ Alone(w, r) /\ r.issue = NoToken
    BY Members DEF TokenInv, Pending, Alone, OneAccount
  <1>2. Entitled(w, r)
    BY <1>1, Members DEF Entitled, Exchanges
  <1> QED BY <1>1, <1>2

LEMMA NotReadyRefuses ==
  ASSUME TokenInv, TypeInv', NEW w \in Workers, sess[w].stage # "ready",
         Refuse(w, sess[w])
  PROVE  TokenStep
  <1>1. sess[w] \in Session
    BY DEF TokenInv, TypeInv, TypeOK
  <1>2. sess[w].issue = NoToken /\ sess[w].revoke = {}
    BY DEF TokenInv, Pending
  <1> QED BY <1>1, <1>2, RejectTokens DEF TokenInv, Refuse

LEMMA NotReadySteps ==
  ASSUME TokenInv, TypeInv', NEW w \in Workers, sess[w].stage # "ready",
         NEW r, r.issue = sess[w].issue, r.seen = sess[w].seen,
         r.token = sess[w].token, r.op = sess[w].op, r.stage # "token_read",
         \/ r.revoke = sess[w].revoke
         \/ r.stage = "ready" /\ OneAccount(r.revoke),
         Step(w, r)
  PROVE  TokenStep
  <1>1. sess'[w] = r /\ sess'[w] \in Session
    BY DEF Step, TokenInv, TypeInv, TypeOK
  <1> QED BY <1>1, NotReady, StepTokens

\* A new session that inserts a fresh token.
LEMMA FreshIssue ==
  ASSUME TokenInv, TypeInv', NEW w \in Workers, sess[w].stage # "ready",
         NEW t \in Tokens, Fresh(t), NEW r, Step(w, r),
         r.issue = t, r.seen = sess[w].seen, r.token = sess[w].token,
         r.op = sess[w].op, r.stage = "ready", r.user \in Users,
         r.revoke \subseteq {r.token},
         r.token \in Tokens => /\ r.token \in r.revoke
                               /\ refresh_tokens[r.token].user = r.user
                               /\ sess[w].stage = "token_read"
  PROVE  TokenStep
  <1>1. sess'[w] = r /\ sess'[w] \in Session
    BY DEF Step, TokenInv, TypeInv, TypeOK
  <1>2. Pending(r)
    <2>1. r.token \in Tokens => Issued(r.token)
      BY DEF TokenInv, Pending
    <2>2. OneAccount(r.revoke)
      BY <1>1, <2>1 DEF Session, OneAccount
    <2> QED BY <2>1, <2>2 DEF TokenInv, Pending, Fresh
  <1>3. Alone(w, r)
    BY DEF Alone, Fresh
  <1>4. Entitled(w, r)
    BY DEF Entitled, Exchanges
  <1> QED BY <1>1, <1>2, <1>3, <1>4, StepTokens

LEMMA PublicTokens ==
  ASSUME TokenInv, TypeInv', NEW w \in Workers, PublicStep(w)
  PROVE  TokenStep
  <1> DEFINE s == sess[w]
  <1>0. s \in Session /\ Pending(s) /\ Alone(w, s) /\ ArgumentsOK(s)
    BY DEF TokenInv, TypeInv, TypeOK
  <1>1. CASE RegisterUser(w)
    <2>1. s.stage # "ready"
      BY <1>1 DEF RegisterUser, InStage
    <2> DEFINE r == [s EXCEPT !.stage = "ready", !.event = "register",
                              !.row = NewUser(s.password)]
    <2>2. r.issue = s.issue /\ r.seen = s.seen /\ r.token = s.token
          /\ r.op = s.op /\ r.stage # "token_read" /\ r.revoke = s.revoke
      BY <1>0 DEF Session
    <2> HIDE DEF r
    <2> QED BY <1>1, <2>1, <2>2, NotReadyRefuses, NotReadySteps
            DEF RegisterUser, r
  <1>2. CASE Login(w)
    <2> DEFINE db == users[s.user]
               Loaded(row, event) ==
                 [s EXCEPT !.loaded = db, !.row = row, !.event = event]
    <2>1. s.stage = "begin" /\ s.op = "login" /\ s.user \in Users
          /\ s.token = NoToken
      BY <1>0, <1>2 DEF Login, InStage, ArgumentsOK, AccountOps, Pending
    <2>2. db \in UserRow /\ Missed(db) \in UserRow /\ Unlocked(db) \in UserRow
      BY <2>1, Rows, LoginRows DEF TokenInv, TypeInv
    <2>3. ASSUME NEW row \in UserRow, NEW event \in Event
          PROVE  /\ Loaded(row, event) \in Session
                 /\ Pending(Loaded(row, event)) /\ Alone(w, Loaded(row, event))
                 /\ Loaded(row, event).issue = NoToken
                 /\ Loaded(row, event).revoke = {}
      <3> DEFINE r == Loaded(row, event)
      <3>1. r \in Session
        BY <1>0, <2>2 DEF Session
      <3>2. r.issue = s.issue /\ r.seen = s.seen /\ r.token = s.token
            /\ r.op = s.op /\ r.stage = "begin" /\ r.revoke = s.revoke
        BY <1>0, <2>1 DEF Session
      <3>3. s.revoke = {}
        BY <1>0, <2>1 DEF Pending
      <3> HIDE DEF r
      <3> QED BY <2>1, <3>1, <3>2, <3>3, NotReady DEF r
    <2>4. CASE Refuse(w, [s EXCEPT !.event = "login_failure"])
      <3> DEFINE r == [s EXCEPT !.event = "login_failure"]
      <3>1. r \in Session
        BY <1>0, Events DEF Session
      <3>2. r.issue = s.issue /\ r.seen = s.seen /\ r.token = s.token
            /\ r.op = s.op /\ r.stage = "begin" /\ r.revoke = s.revoke
        BY <1>0, <2>1 DEF Session
      <3>3. Reject(w, r)
        BY <2>4 DEF Refuse
      <3> HIDE DEF r
      <3>4. Pending(r) /\ Alone(w, r) /\ r.issue = NoToken /\ r.revoke = {}
        BY <1>0, <2>1, <3>1, <3>2, NotReady DEF Pending
      <3> QED BY <3>1, <3>3, <3>4, RejectTokens
    <2>5. ASSUME NEW row \in UserRow, NEW event \in Event,
                 Reject(w, Loaded(row, event))
          PROVE  TokenStep
      BY <2>3, <2>5, RejectTokens
    <2>6. ASSUME NEW t \in Tokens, Fresh(t),
                 Step(w, [Loaded(Unlocked(db), "login_success") EXCEPT
                          !.stage = "ready", !.issue = t, !.at = now])
          PROVE  TokenStep
      <3> DEFINE r == [Loaded(Unlocked(db), "login_success") EXCEPT
                       !.stage = "ready", !.issue = t, !.at = now]
      <3>1. r.issue = t /\ r.seen = s.seen /\ r.token = s.token
            /\ r.op = s.op /\ r.stage = "ready" /\ r.user = s.user
            /\ r.revoke = {}
        BY <1>0, <2>1 DEF Session, Pending
      <3>2. Step(w, r)
        BY <2>6
      <3> HIDE DEF r
      <3> QED BY <2>1, <2>6, <3>1, <3>2, FreshIssue, Members
    <2> HIDE DEF db, Loaded
    <2> QED BY <1>2, <2>2, <2>4, <2>5, <2>6, Events
            DEF Login, Refuse, db, Loaded
  <1>3. CASE RefreshToken(w)
    <2> DEFINE r == [s EXCEPT !.stage = "token_read",
                              !.user = refresh_tokens[s.token].user]
    <2>1. s.stage = "begin" /\ s.token \in Tokens /\ s.op = "refresh"
      BY <1>0, <1>3 DEF RefreshToken, InStage, ArgumentsOK
    <2>2. r.issue = s.issue /\ r.seen = s.seen /\ r.token = s.token
          /\ r.op = s.op /\ r.stage = "token_read" /\ r.revoke = s.revoke
          /\ r.user = refresh_tokens[s.token].user
      BY <1>0 DEF Session
    <2> HIDE DEF r
    <2>3. Pending(r) /\ Alone(w, r)
      BY <1>0, <2>1, <2>2, Members DEF Pending, Alone
    <2>4. CASE Live(s.token) /\ Step(w, r)
      <3>1. r \in Session
        BY <2>4 DEF Step, TokenInv, TypeInv, TypeOK
      <3>2. Entitled(w, r)
        BY <2>1, <2>2, <2>4 DEF Entitled, Exchanges
      <3> QED BY <2>3, <2>4, <3>1, <3>2, StepTokens
    <2> QED BY <1>3, <2>1, <2>4, NotReadyRefuses DEF RefreshToken, r
  <1>4. CASE RefreshUser(w)
    <2> DEFINE db == users[s.user]
    <2>1. s.stage = "token_read" /\ s.token \in Tokens /\ s.user \in Users
          /\ refresh_tokens[s.token].user = s.user
      BY <1>0, <1>4 DEF RefreshUser, InStage, ArgumentsOK, Pending
    <2>2. ASSUME NEW t \in Tokens, Fresh(t),
                 Step(w, [s EXCEPT !.stage = "ready", !.loaded = db, !.row = db,
                                   !.revoke = {s.token}, !.issue = t,
                                   !.at = now, !.event = "token_refresh"])
          PROVE  TokenStep
      <3> DEFINE r == [s EXCEPT !.stage = "ready", !.loaded = db, !.row = db,
                                !.revoke = {s.token}, !.issue = t,
                                !.at = now, !.event = "token_refresh"]
      <3>1. r.issue = t /\ r.seen = s.seen /\ r.token = s.token
            /\ r.op = s.op /\ r.stage = "ready" /\ r.user = s.user
            /\ r.revoke = {s.token}
        BY <1>0 DEF Session
      <3>2. Step(w, r)
        BY <2>2
      <3> HIDE DEF r
      <3> QED BY <2>1, <2>2, <3>1, <3>2, FreshIssue
    <2> QED BY <1>4, <2>1, <2>2, NotReadyRefuses DEF RefreshUser
  <1>5. CASE Logout(w)
    <2> DEFINE q == [s EXCEPT !.stage = "ready"]
               r == [s EXCEPT !.stage = "ready", !.revoke = {s.token},
                              !.event = "logout"]
    <2>1. s.stage # "ready" /\ Issued(s.token)
      BY <1>0, <1>5 DEF Logout, InStage, ArgumentsOK, Pending
    <2>2. /\ r.issue = s.issue /\ r.seen = s.seen /\ r.token = s.token
          /\ r.op = s.op /\ r.stage # "token_read"
          /\ q.issue = s.issue /\ q.seen = s.seen /\ q.token = s.token
          /\ q.op = s.op /\ q.stage # "token_read" /\ q.revoke = s.revoke
          /\ r.stage = "ready" /\ r.revoke = {s.token}
      BY <1>0 DEF Session
    <2>3. Step(w, q) \/ Step(w, r)
      BY <1>5 DEF Logout
    <2> HIDE DEF q, r
    <2>4. OneAccount(r.revoke)
      BY <2>1, <2>2 DEF OneAccount
    <2> QED BY <2>1, <2>2, <2>3, <2>4, NotReadySteps
  <1>6. CASE RequestLink(w)
    <2>1. s.stage # "ready"
      BY <1>6 DEF RequestLink
    <2>2. CASE Step(w, [s EXCEPT !.stage = "ready"])
      <3> DEFINE r == [s EXCEPT !.stage = "ready"]
      <3>1. r.issue = s.issue /\ r.seen = s.seen /\ r.token = s.token
            /\ r.op = s.op /\ r.stage # "token_read" /\ r.revoke = s.revoke
        BY <1>0 DEF Session
      <3>2. Step(w, r)
        BY <2>2
      <3> HIDE DEF r
      <3> QED BY <2>1, <3>1, <3>2, NotReadySteps
    <2>3. ASSUME NEW k \in Links,
                 Step(w, [s EXCEPT !.stage = "ready", !.new_link = k,
                                   !.at = now, !.event = s.op])
          PROVE  TokenStep
      <3> DEFINE r == [s EXCEPT !.stage = "ready", !.new_link = k,
                                !.at = now, !.event = s.op]
      <3>1. r.issue = s.issue /\ r.seen = s.seen /\ r.token = s.token
            /\ r.op = s.op /\ r.stage # "token_read" /\ r.revoke = s.revoke
        BY <1>0 DEF Session
      <3>2. Step(w, r)
        BY <2>3
      <3> HIDE DEF r
      <3> QED BY <2>1, <3>1, <3>2, NotReadySteps
    <2> QED BY <1>6, <2>2, <2>3 DEF RequestLink
  <1>7. CASE SendEmail(w)
    BY <1>7, CloseTokens DEF SendEmail, tables, history
  <1>8. CASE ConfirmLink(w)
    <2> DEFINE r == [s EXCEPT !.stage = "link_read",
                              !.user = links[s.link].user]
    <2>1. s.stage # "ready"
      BY <1>8 DEF ConfirmLink
    <2>2. r.issue = s.issue /\ r.seen = s.seen /\ r.token = s.token
          /\ r.op = s.op /\ r.stage # "token_read" /\ r.revoke = s.revoke
      BY <1>0 DEF Session
    <2>3. Refuse(w, s) \/ Step(w, r)
      BY <1>8 DEF ConfirmLink
    <2> HIDE DEF r
    <2> QED BY <2>1, <2>2, <2>3, NotReadyRefuses, NotReadySteps
  <1>9. CASE ConfirmLinkUser(w)
    <2> DEFINE db == users[s.user]
               Loaded == [s EXCEPT !.stage = "ready", !.redeem = {s.link},
                                   !.loaded = db, !.row = db]
               q == [Loaded EXCEPT !.row.is_verified = TRUE,
                                   !.event = "verify_email_success"]
               r == [Loaded EXCEPT !.loaded.password = NoPassword,
                                   !.row.password = s.new_password,
                                   !.event = "password_reset_success"]
    <2>1. s.stage # "ready"
      BY <1>9 DEF ConfirmLinkUser, InStage
    <2>2. /\ r.issue = s.issue /\ r.seen = s.seen /\ r.token = s.token
          /\ r.op = s.op /\ r.stage # "token_read" /\ r.revoke = s.revoke
          /\ q.issue = s.issue /\ q.seen = s.seen /\ q.token = s.token
          /\ q.op = s.op /\ q.stage # "token_read" /\ q.revoke = s.revoke
      BY <1>0 DEF Session
    <2>3. Step(w, q) \/ Step(w, r)
      BY <1>9 DEF ConfirmLinkUser
    <2> HIDE DEF q, r
    <2> QED BY <2>1, <2>2, <2>3, NotReadySteps
  <1> QED BY <1>1, <1>2, <1>3, <1>4, <1>5, <1>6, <1>7, <1>8, <1>9
          DEF PublicStep

-----------------------------------------------------------------------------
(* "Revoke all": each token of the user that is in the table at the SELECT *)
(* (and not kept) is live and in the list to revoke, or dead already.      *)

LEMMA RevokeAllTokens ==
  ASSUME TokenInv, TypeInv', NEW w \in Workers, sess[w].stage # "ready",
         sess[w].user \in Users, NEW keep, NEW event, NEW r, Step(w, r),
         r.stage = "ready", r.issue = sess[w].issue, r.token = sess[w].token,
         r.op = sess[w].op,
         r.seen = RevokeAllOf(sess[w], keep, event).seen,
         r.revoke = RevokeAllOf(sess[w], keep, event).revoke
  PROVE  TokenStep
  <1> DEFINE s == sess[w]
             live == {t \in TokensOf(s.user) : Live(t)} \ keep
             e == IF live = {} THEN "none" ELSE event
  <1>0. s \in Session /\ Pending(s) /\ NoUser \notin Users /\ TypeOK
    BY ConstantsAssumption
    DEF TokenInv, TypeInv, TypeOK, ConstantsAssumption
  <1>1. RevokeAllOf(s, keep, event)
          = [s EXCEPT !.seen = TokensOf(s.user) \ keep, !.revoke = live,
                      !.revoke_event = e]
    BY DEF RevokeAllOf
  <1>2. r.seen = TokensOf(s.user) \ keep /\ r.revoke = live
    BY <1>0, <1>1 DEF Session
  <1>3. ASSUME NEW t \in r.seen
        PROVE  Issued(t) /\ (t \in r.revoke \/ Dead(t))
    <2>1. t \in Tokens /\ refresh_tokens[t].user = s.user
      BY <1>2 DEF TokensOf
    <2>2. refresh_tokens[t] \in RefreshRow /\ now \in Nat
      BY <1>0, <2>1 DEF TypeOK
    <2>3. Issued(t)
      BY <1>0, <2>1 DEF Issued
    <2>4. ~Live(t) => Dead(t)
      BY <2>2, <2>3 DEF Live, Dead, RefreshRow
    <2> QED BY <1>2, <2>3, <2>4
  <1>4. r.issue = NoToken
    BY <1>0 DEF Pending
  <1>5. Pending(r) /\ Alone(w, r)
    <2>1. OneAccount(r.revoke)
      BY <1>0, <1>2 DEF OneAccount, TokensOf, Issued
    <2> QED BY <1>0, <1>3, <1>4, <2>1, Members DEF Pending, Alone
  <1>6. Entitled(w, r)
    BY <1>4, Members DEF Entitled, Exchanges
  <1> QED BY <1>5, <1>6, StepTokens

LEMMA BearerTokens ==
  ASSUME TokenInv, TypeInv', NEW w \in Workers, BearerStep(w)
  PROVE  TokenStep
  <1> DEFINE s == sess[w]
             Same(r) == /\ r.issue = s.issue /\ r.seen = s.seen
                        /\ r.token = s.token /\ r.op = s.op
                        /\ r.stage # "token_read"
                        /\ r.revoke = s.revoke
  <1>0. s \in Session /\ ArgumentsOK(s)
    BY DEF TokenInv, TypeInv, TypeOK
  <1>r. ASSUME s.stage # "ready", Refuse(w, s) PROVE TokenStep
    BY <1>r, NotReadyRefuses
  <1>s. ASSUME s.stage # "ready", NEW r, Same(r), Step(w, r) PROVE TokenStep
    BY <1>s, NotReadySteps
  <1>1. CASE Authenticate(w)
    <2> DEFINE r == [s EXCEPT !.stage = "authed", !.user = s.actor,
                              !.loaded = users[s.actor],
                              !.row = users[s.actor]]
    <2>1. Same(r)
      BY <1>0 DEF Session
    <2>2. s.stage # "ready" /\ (Refuse(w, s) \/ Step(w, r))
      BY <1>1 DEF Authenticate
    <2> QED BY <1>r, <1>s, <2>1, <2>2
  <1>2. CASE PatchMe(w)
    <2> DEFINE r == [s EXCEPT !.stage = "ready", !.event = "profile_updated"]
    <2>1. Same(r)
      BY <1>0 DEF Session
    <2>2. s.stage # "ready" /\ Step(w, r)
      BY <1>2 DEF PatchMe, InStage
    <2> QED BY <1>s, <2>1, <2>2
  <1>3. CASE ChangePassword(w)
    <2> DEFINE q == RevokeAllOf(s, {}, "session_revoked")
               r == [q EXCEPT !.stage = "ready",
                              !.row.password = s.new_password,
                              !.event = "password_changed"]
    <2>1. s.stage = "authed" /\ s.user \in Users
      BY <1>0, <1>3 DEF ChangePassword, InStage, ArgumentsOK
    <2>2. q \in Session /\ q.op = s.op /\ q.token = s.token
          /\ q.issue = s.issue
      BY <1>0, RevokeAllType, Events
    <2>3. Refuse(w, s) \/ Step(w, r)
      BY <1>3 DEF ChangePassword
    <2>4. q = RevokeAllOf(s, {}, "session_revoked")
      OBVIOUS
    <2> HIDE DEF q
    <2>5. r.stage = "ready" /\ r.issue = s.issue /\ r.token = s.token
          /\ r.op = s.op /\ r.seen = q.seen /\ r.revoke = q.revoke
      BY <2>2 DEF Session
    <2> HIDE DEF r
    <2> QED BY <1>r, <2>1, <2>3, <2>4, <2>5, RevokeAllTokens
  <1>4. CASE DeactivateMe(w)
    <2> DEFINE q == RevokeAllOf(s, {}, "account_deactivated")
               r == [q EXCEPT !.stage = "ready", !.row.is_active = FALSE,
                              !.row.deactivated = TRUE,
                              !.event = "account_deactivated"]
    <2>1. s.stage = "authed" /\ s.user \in Users
      BY <1>0, <1>4 DEF DeactivateMe, InStage, ArgumentsOK
    <2>2. q \in Session /\ q.op = s.op /\ q.token = s.token
          /\ q.issue = s.issue
      BY <1>0, RevokeAllType, Events
    <2>3. Step(w, r)
      BY <1>4 DEF DeactivateMe
    <2>4. q = RevokeAllOf(s, {}, "account_deactivated")
      OBVIOUS
    <2> HIDE DEF q
    <2>5. r.stage = "ready" /\ r.issue = s.issue /\ r.token = s.token
          /\ r.op = s.op /\ r.seen = q.seen /\ r.revoke = q.revoke
      BY <2>2 DEF Session
    <2> HIDE DEF r
    <2> QED BY <2>1, <2>3, <2>4, <2>5, RevokeAllTokens
  <1>5. CASE RevokeSession(w)
    <2> DEFINE r == [s EXCEPT !.stage = "ready", !.revoke = {s.token},
                              !.event = "session_revoked"]
    <2>1. /\ r.issue = s.issue /\ r.seen = s.seen /\ r.token = s.token
          /\ r.op = s.op /\ r.stage = "ready" /\ r.revoke = {s.token}
      BY <1>0 DEF Session
    <2>2. s.stage # "ready" /\ (Refuse(w, s) \/ Step(w, r))
      BY <1>5 DEF RevokeSession, InStage
    <2>3. OneAccount({s.token})
      BY <1>0, <1>5
      DEF RevokeSession, InStage, ArgumentsOK, TokenInv, Pending, OneAccount
    <2> HIDE DEF r
    <2> QED BY <1>r, <2>1, <2>2, <2>3, NotReadySteps
  <1>6. CASE RevokeAllSessions(w)
    <2> DEFINE q == RevokeAllOf(s, {s.token}, "session_revoked")
               r == [q EXCEPT !.stage = "ready"]
    <2>1. s.stage = "authed" /\ s.user \in Users
      BY <1>0, <1>6 DEF RevokeAllSessions, InStage, ArgumentsOK
    <2>2. q \in Session /\ q.op = s.op /\ q.token = s.token
          /\ q.issue = s.issue
      BY <1>0, RevokeAllType, Events
    <2>3. Refuse(w, s) \/ Step(w, r)
      BY <1>6 DEF RevokeAllSessions
    <2>4. q = RevokeAllOf(s, {s.token}, "session_revoked")
      OBVIOUS
    <2> HIDE DEF q
    <2>5. r.stage = "ready" /\ r.issue = s.issue /\ r.token = s.token
          /\ r.op = s.op /\ r.seen = q.seen /\ r.revoke = q.revoke
      BY <2>2 DEF Session
    <2> HIDE DEF r
    <2> QED BY <1>r, <2>1, <2>3, <2>4, <2>5, RevokeAllTokens
  <1>7. CASE LoadTarget(w)
    <2> DEFINE r == [s EXCEPT !.stage = "loaded"]
               q == [s EXCEPT !.stage = "loaded", !.user = s.target,
                              !.loaded = users[s.target],
                              !.row = users[s.target]]
    <2>1. Same(r) /\ Same(q)
      BY <1>0 DEF Session
    <2>2. s.stage # "ready" /\ (Refuse(w, s) \/ Step(w, r) \/ Step(w, q))
      BY <1>7 DEF LoadTarget
    <2> QED BY <1>r, <1>s, <2>1, <2>2
  <1>8. CASE AdminUpdateRole(w)
    <2> DEFINE role == IF s.payload.role = "keep" THEN s.row.role
                       ELSE s.payload.role
               r == [s EXCEPT !.stage = "role_done", !.row.role = role]
    <2>1. Same(r)
      BY <1>0 DEF Session
    <2>2. s.stage # "ready" /\ (Refuse(w, s) \/ Step(w, r))
      BY <1>8 DEF AdminUpdateRole, InStage
    <2> QED BY <1>r, <1>s, <2>1, <2>2
  <1>9. CASE AdminUpdateActive(w)
    <2> DEFINE u == Updated(s)
               r == [u EXCEPT !.row.is_active = TRUE,
                              !.row.deactivated = FALSE]
               q == [s EXCEPT !.stage = "revoke", !.row.is_active = FALSE,
                              !.row.deactivated = TRUE]
    <2>1. s.stage = "role_done"
      BY <1>9 DEF AdminUpdateActive, InStage
    <2>2. u \in Session
      BY <1>0, <2>1, UpdatedType
    <2>3. Same(u) /\ Same(q)
      BY <1>0 DEF Session, Updated
    <2>4. Refuse(w, s) \/ Step(w, u) \/ Step(w, r) \/ Step(w, q)
      BY <1>9 DEF AdminUpdateActive
    <2> HIDE DEF u
    <2>5. Same(r)
      BY <2>2, <2>3 DEF Session
    <2> QED BY <1>r, <1>s, <2>1, <2>3, <2>4, <2>5
  <1>10. CASE AdminUpdateRevoke(w)
    <2> DEFINE q == RevokeAllOf(s, {}, "admin_sessions_revoked")
               r == Updated(q)
    <2>1. s.stage = "revoke" /\ s.user \in Users
      BY <1>0, <1>10 DEF AdminUpdateRevoke, InStage, ArgumentsOK
    <2>2. q \in Session /\ q.op = s.op /\ q.token = s.token
          /\ q.issue = s.issue
      BY <1>0, RevokeAllType, Events
    <2>3. Step(w, r)
      BY <1>10 DEF AdminUpdateRevoke
    <2>4. q = RevokeAllOf(s, {}, "admin_sessions_revoked")
      OBVIOUS
    <2> HIDE DEF q
    <2>5. r.stage = "ready" /\ r.issue = s.issue /\ r.token = s.token
          /\ r.op = s.op /\ r.seen = q.seen /\ r.revoke = q.revoke
      BY <2>2 DEF Session, Updated
    <2> HIDE DEF r
    <2> QED BY <2>1, <2>3, <2>4, <2>5, RevokeAllTokens
  <1>11. CASE AdminUnlock(w)
    <2> DEFINE r == [s EXCEPT !.stage = "ready",
                              !.event = "admin_user_unlocked",
                              !.row.failed_attempts = 0,
                              !.row.locked_until = 0]
    <2>1. Same(r)
      BY <1>0 DEF Session
    <2>2. s.stage # "ready" /\ Step(w, r)
      BY <1>11 DEF AdminUnlock, InStage
    <2> QED BY <1>s, <2>1, <2>2
  <1>12. CASE AdminRevokeSessions(w)
    <2> DEFINE q == RevokeAllOf(s, {}, "admin_sessions_revoked")
               r == [q EXCEPT !.stage = "ready"]
    <2>1. s.stage = "loaded" /\ s.user \in Users
      BY <1>0, <1>12 DEF AdminRevokeSessions, InStage, ArgumentsOK
    <2>2. q \in Session /\ q.op = s.op /\ q.token = s.token
          /\ q.issue = s.issue
      BY <1>0, RevokeAllType, Events
    <2>3. Step(w, r)
      BY <1>12 DEF AdminRevokeSessions
    <2>4. q = RevokeAllOf(s, {}, "admin_sessions_revoked")
      OBVIOUS
    <2> HIDE DEF q
    <2>5. r.stage = "ready" /\ r.issue = s.issue /\ r.token = s.token
          /\ r.op = s.op /\ r.seen = q.seen /\ r.revoke = q.revoke
      BY <2>2 DEF Session
    <2> HIDE DEF r
    <2> QED BY <2>1, <2>3, <2>4, <2>5, RevokeAllTokens
  <1> QED BY <1>1, <1>2, <1>3, <1>4, <1>5, <1>6, <1>7, <1>8, <1>9, <1>10,
             <1>11, <1>12 DEF BearerStep

LEMMA CommitTokens ==
  ASSUME TokenInv, TypeInv', NEW w \in Workers, Commit(w)
  PROVE  TokenStep
  <1> DEFINE s == sess[w]
  <1>0. s \in Session /\ ArgumentsOK(s) /\ Pending(s) /\ Alone(w, s)
    BY DEF TokenInv, TypeInv, TypeOK
  <1>i. s.issue \in Tokens => s.stage = "ready"
    BY <1>0, Members DEF Pending
  <1>n. /\ NoSession.stage = "idle" /\ NoSession.op = "none"
        /\ NoSession.issue = NoToken /\ NoSession.token = NoToken
        /\ NoSession.seen = {} /\ NoSession.revoke = {}
    BY DEF NoSession
  <1>1. CASE Refuse(w, NoSession)
    <2>1. Alone(w, NoSession)
      BY NothingPending, Members DEF Alone
    <2> QED BY <1>1, <1>n, <2>1, NothingPending, NoSessionType, RejectTokens
            DEF Refuse
  <1>2. CASE /\ Write(s) /\ UNCHANGED now
             /\ s.new_link = NoLink /\ Close(w)
    BY <1>0, <1>2, <1>i, <1>n, WriteTokens DEF Close
  <1>3. CASE /\ Write(s) /\ UNCHANGED now
             /\ s.new_link # NoLink
             /\ sess' = [sess EXCEPT ![w] =
                   [NoSession EXCEPT !.op = s.op, !.stage = "mail",
                                     !.new_link = s.new_link]]
    <2> DEFINE r == [NoSession EXCEPT !.op = s.op, !.stage = "mail",
                                      !.new_link = s.new_link]
    <2>1. s.op # "login"
      BY <1>0, <1>3 DEF ArgumentsOK, LinkOps
    <2>2. r.stage = "mail" /\ r.op = s.op /\ r.issue = NoToken
          /\ r.token = NoToken /\ r.seen = {} /\ r.revoke = {}
      BY DEF NoSession
    <2>3. sess' = [sess EXCEPT ![w] = r]
      BY <1>3
    <2> HIDE DEF r
    <2> QED BY <1>0, <1>3, <1>i, <2>1, <2>2, <2>3, WriteTokens
  <1> QED BY <1>1, <1>2, <1>3 DEF Commit

-----------------------------------------------------------------------------
(* Clients and the clock.                                                  *)

\* A request presents only tokens that were issued, and has nothing pending.
LEMMA ReceiveTokens ==
  ASSUME TokenInv, TypeInv', NEW w \in Workers, NEW r, Receive(w, r),
         r.stage = "begin", r.issue = NoToken, r.seen = {}, r.revoke = {},
         r.token \in Tokens => Issued(r.token),
         r.op = "login" => r.token = NoToken
  PROVE  TokenStep
  <1>1. Pending(r) /\ Alone(w, r)
    BY Members DEF Pending, Alone, OneAccount
  <1>2. Entitled(w, r)
    BY DEF Entitled, Exchanges
  <1> QED BY <1>1, <1>2, MoveTokens DEF Receive, tables, history

\* The part every request starts with.
LEMMA PlainRequest ==
  ASSUME TokenInv, TypeInv', NEW w \in Workers, NEW op, NEW r, Receive(w, r),
         r.stage = Request(op).stage, r.issue = Request(op).issue,
         r.seen = Request(op).seen, r.token = Request(op).token,
         r.revoke = Request(op).revoke
  PROVE  TokenStep
  <1>1. Request(op).stage = "begin" /\ Request(op).issue = NoToken
        /\ Request(op).seen = {} /\ Request(op).token = NoToken
        /\ Request(op).revoke = {}
    BY DEF Request, NoSession
  <1> QED BY <1>1, ReceiveTokens, Members

\* A request that presents a refresh token.
LEMMA TokenRequest ==
  ASSUME TokenInv, TypeInv', NEW w \in Workers, NEW op, op # "login", NEW r,
         Receive(w, r), r.op = op, r.stage = Request(op).stage,
         r.issue = Request(op).issue, r.seen = Request(op).seen,
         r.revoke = Request(op).revoke, r.token \in Tokens => Issued(r.token)
  PROVE  TokenStep
  <1>1. Request(op).stage = "begin" /\ Request(op).issue = NoToken
        /\ Request(op).seen = {} /\ Request(op).revoke = {}
    BY DEF Request, NoSession
  <1> QED BY <1>1, ReceiveTokens

LEMMA ClientTokens ==
  ASSUME TokenInv, TypeInv', NEW w \in Workers, Client(w)
  PROVE  TokenStep
  <1>1. CASE ReceiveCredentials(w)
    <2> PICK u \in Users, pw \in Passwords, op \in {"register", "login"} :
          Receive(w, [Request(op) EXCEPT !.user = u, !.password = pw])
      BY <1>1 DEF ReceiveCredentials
    <2> DEFINE r == [Request(op) EXCEPT !.user = u, !.password = pw]
    <2>1. r.stage = Request(op).stage /\ r.issue = Request(op).issue
          /\ r.revoke = Request(op).revoke
          /\ r.seen = Request(op).seen /\ r.token = Request(op).token
      BY DEF Request, NoSession
    <2>2. Receive(w, r)
      OBVIOUS
    <2> HIDE DEF r
    <2> QED BY <2>1, <2>2, PlainRequest
  <1>2. CASE ReceiveRefreshToken(w)
    <2> PICK t \in Tokens, op \in {"refresh", "logout"} :
          Issued(t) /\ Receive(w, [Request(op) EXCEPT !.token = t])
      BY <1>2 DEF ReceiveRefreshToken
    <2> DEFINE r == [Request(op) EXCEPT !.token = t]
    <2>1. r.stage = Request(op).stage /\ r.issue = Request(op).issue
          /\ r.revoke = Request(op).revoke
          /\ r.seen = Request(op).seen /\ r.token = t /\ r.op = op
      BY DEF Request, NoSession
    <2>2. Receive(w, r) /\ Issued(t)
      OBVIOUS
    <2> HIDE DEF r
    <2> QED BY <2>1, <2>2, TokenRequest
  <1>3. CASE ReceiveAddress(w)
    <2> PICK u \in Users, op \in LinkOps :
          Receive(w, [Request(op) EXCEPT !.user = u])
      BY <1>3 DEF ReceiveAddress
    <2> DEFINE r == [Request(op) EXCEPT !.user = u]
    <2>1. r.stage = Request(op).stage /\ r.issue = Request(op).issue
          /\ r.revoke = Request(op).revoke
          /\ r.seen = Request(op).seen /\ r.token = Request(op).token
      BY DEF Request, NoSession
    <2>2. Receive(w, r)
      OBVIOUS
    <2> HIDE DEF r
    <2> QED BY <2>1, <2>2, PlainRequest
  <1>4. CASE ReceiveLink(w)
    <2>1. ASSUME NEW k, NEW op,
                 Receive(w, [Request(op) EXCEPT !.link = k])
          PROVE  TokenStep
      <3> DEFINE r == [Request(op) EXCEPT !.link = k]
      <3>1. r.stage = Request(op).stage /\ r.issue = Request(op).issue
            /\ r.revoke = Request(op).revoke
            /\ r.seen = Request(op).seen /\ r.token = Request(op).token
        BY DEF Request, NoSession
      <3>2. Receive(w, r)
        BY <2>1
      <3> HIDE DEF r
      <3> QED BY <3>1, <3>2, PlainRequest
    <2>2. ASSUME NEW k, NEW pw, NEW op,
                 Receive(w, [Request(op) EXCEPT !.link = k,
                                                !.new_password = pw])
          PROVE  TokenStep
      <3> DEFINE r == [Request(op) EXCEPT !.link = k, !.new_password = pw]
      <3>1. r.stage = Request(op).stage /\ r.issue = Request(op).issue
            /\ r.revoke = Request(op).revoke
            /\ r.seen = Request(op).seen /\ r.token = Request(op).token
        BY DEF Request, NoSession
      <3>2. Receive(w, r)
        BY <2>2
      <3> HIDE DEF r
      <3> QED BY <3>1, <3>2, PlainRequest
    <2> QED BY <1>4, <2>1, <2>2 DEF ReceiveLink
  <1>5. CASE ReceiveSelf(w)
    <2>1. ASSUME NEW u, NEW op, Receive(w, [Request(op) EXCEPT !.actor = u])
          PROVE  TokenStep
      <3> DEFINE r == [Request(op) EXCEPT !.actor = u]
      <3>1. r.stage = Request(op).stage /\ r.issue = Request(op).issue
            /\ r.revoke = Request(op).revoke
            /\ r.seen = Request(op).seen /\ r.token = Request(op).token
        BY DEF Request, NoSession
      <3>2. Receive(w, r)
        BY <2>1
      <3> HIDE DEF r
      <3> QED BY <3>1, <3>2, PlainRequest
    <2>2. ASSUME NEW u, NEW pw, NEW new,
                 Receive(w, [Request("change_password") EXCEPT
                             !.actor = u, !.password = pw,
                             !.new_password = new])
          PROVE  TokenStep
      <3> DEFINE op == "change_password"
                 r == [Request(op) EXCEPT !.actor = u, !.password = pw,
                                          !.new_password = new]
      <3>1. r.stage = Request(op).stage /\ r.issue = Request(op).issue
            /\ r.revoke = Request(op).revoke
            /\ r.seen = Request(op).seen /\ r.token = Request(op).token
        BY DEF Request, NoSession
      <3>2. Receive(w, r)
        BY <2>2
      <3> HIDE DEF r, op
      <3> QED BY <3>1, <3>2, PlainRequest
    <2>3. ASSUME NEW u, NEW t, t = NoToken \/ Issued(t),
                 NEW op \in {"revoke_session", "revoke_all"},
                 Receive(w, [Request(op) EXCEPT !.actor = u, !.token = t])
          PROVE  TokenStep
      <3> DEFINE r == [Request(op) EXCEPT !.actor = u, !.token = t]
      <3>1. r.stage = Request(op).stage /\ r.issue = Request(op).issue
            /\ r.revoke = Request(op).revoke
            /\ r.seen = Request(op).seen /\ r.token = t /\ r.op = op
        BY DEF Request, NoSession
      <3>2. Receive(w, r)
        BY <2>3
      <3> HIDE DEF r
      <3> QED BY <2>3, <3>1, <3>2, TokenRequest, Members
    <2> QED BY <1>5, <2>1, <2>2, <2>3 DEF ReceiveSelf
  <1>6. CASE ReceiveAdmin(w)
    <2>1. ASSUME NEW u, NEW target, NEW op,
                 Receive(w, [Request(op) EXCEPT !.actor = u,
                                                !.target = target])
          PROVE  TokenStep
      <3> DEFINE r == [Request(op) EXCEPT !.actor = u, !.target = target]
      <3>1. r.stage = Request(op).stage /\ r.issue = Request(op).issue
            /\ r.revoke = Request(op).revoke
            /\ r.seen = Request(op).seen /\ r.token = Request(op).token
        BY DEF Request, NoSession
      <3>2. Receive(w, r)
        BY <2>1
      <3> HIDE DEF r
      <3> QED BY <3>1, <3>2, PlainRequest
    <2>2. ASSUME NEW u, NEW target, NEW p,
                 Receive(w, [Request("admin_update") EXCEPT
                             !.actor = u, !.target = target, !.payload = p])
          PROVE  TokenStep
      <3> DEFINE op == "admin_update"
                 r == [Request(op) EXCEPT !.actor = u, !.target = target,
                                          !.payload = p]
      <3>1. r.stage = Request(op).stage /\ r.issue = Request(op).issue
            /\ r.revoke = Request(op).revoke
            /\ r.seen = Request(op).seen /\ r.token = Request(op).token
        BY DEF Request, NoSession
      <3>2. Receive(w, r)
        BY <2>2
      <3> HIDE DEF r, op
      <3> QED BY <3>1, <3>2, PlainRequest
    <2> QED BY <1>6, <2>1, <2>2 DEF ReceiveAdmin
  <1> QED BY <1>1, <1>2, <1>3, <1>4, <1>5, <1>6 DEF Client

\* Time only makes tokens die.
LEMMA TickTokens ==
  ASSUME TokenInv, TypeInv', UNCHANGED <<refresh_tokens, parent, cut, sess>>,
         now' \in Nat, now <= now'
  PROVE  TokenStep
  <1>1. TypeOK /\ now \in Nat
    BY DEF TokenInv, TypeInv, TypeOK
  <1>2. \A t \in Tokens : Dead(t) => Dead(t)'
    BY <1>1 DEF Dead, TypeOK, RefreshRow
  <1>3. CutDead' /\ ParentsRevoked'
    BY <1>1, <1>2
    DEF TokenInv, CutDead, ParentsRevoked, Issued, TypeOK
  <1>4. Grows(NoToken)
    BY DEF Grows, Issued
  <1>5. \A q \in Session : Pending(q) => Pending(q)'
    BY <1>1, <1>4, PendingKept
  <1>6. \A v \in Workers : Pending(sess[v])' /\ Alone(v, sess[v])'
    BY <1>5 DEF TokenInv, TypeInv, TypeOK, Alone, Pending, Issued, Dead
  <1>7. Counted'
    BY DEF TokenInv, Counted, Children, Exchanging, Exchanges
  <1>8. SessionStep
    BY DEF SessionStep, Abstract!vars, Owner, OpenTokens, Held, Issued
  <1> QED BY <1>3, <1>6, <1>7, <1>8 DEF TokenInv, TokenStep

-----------------------------------------------------------------------------
LEMMA InitTokens == Init => TokenInv
  <1> SUFFICES ASSUME Init PROVE TokenInv
    OBVIOUS
  <1>1. CutDead /\ ParentsRevoked
    BY Members DEF Init, CutDead, ParentsRevoked
  <1>2. \A w \in Workers : sess[w] = NoSession
    BY DEF Init
  <1>3. \A w \in Workers : Pending(sess[w]) /\ Alone(w, sess[w])
    BY <1>2, NothingPending, Members DEF Alone
  <1>4. Counted
    <2> SUFFICES ASSUME NEW t \in Tokens
                 PROVE  Cardinality(Children(t)) + Cardinality(Exchanging(t))
                          <= Cardinality(Workers)
      BY DEF Counted
    <2>1. Children(t) = {}
      BY Members DEF Init, Children
    <2>2. Exchanging(t) = {}
      BY <1>2 DEF Exchanging, Exchanges, NoSession
    <2> QED BY <2>1, <2>2, FS_EmptySet, Finite
  <1> QED BY <1>1, <1>3, <1>4, InitType DEF TokenInv

LEMMA NextTokens == TokenInv /\ [Next]_vars => TokenStep
  <1> SUFFICES ASSUME TokenInv, [Next]_vars PROVE TokenStep
    OBVIOUS
  <1>1. TypeInv'
    BY NextType DEF TokenInv
  <1>2. ASSUME NEW w \in Workers, Client(w) PROVE TokenStep
    BY <1>1, <1>2, ClientTokens
  <1>3. ASSUME NEW w \in Workers, Handle(w) PROVE TokenStep
    BY <1>1, <1>3, PublicTokens, BearerTokens, CommitTokens DEF Handle
  <1>4. now \in Nat
    BY DEF TokenInv, TypeInv, TypeOK
  <1>5. CASE Tick
    BY <1>1, <1>4, <1>5, TickTokens DEF Tick, tables, history
  <1>6. CASE UNCHANGED vars
    BY <1>1, <1>4, <1>6, TickTokens DEF vars, tables, history
  <1> QED BY <1>2, <1>3, <1>5, <1>6 DEF Next, Quiet

LEMMA TokensKept == TokenInv /\ [Next]_vars => TokenInv'
  BY NextTokens DEF TokenStep

\* "Log out everywhere" is final, for any number of threads, users and tokens
\* and whatever else commits in between: a refresh token that a completed
\* password change, deactivation or revoke-all has looked at is never
\* accepted again.
THEOREM CutIsFinal == Spec => []CutTokensStayDead
  <1>1. TokenInv => CutTokensStayDead
    <2> SUFFICES ASSUME TokenInv, NEW t \in cut PROVE Issued(t) /\ ~Live(t)
      BY DEF CutTokensStayDead
    <2>1. t \in Tokens /\ now \in Nat /\ refresh_tokens[t] \in RefreshRow
      BY DEF TokenInv, TypeInv, TypeOK
    <2> QED BY <2>1 DEF TokenInv, CutDead, Dead, Live, RefreshRow
  <1> QED BY <1>1, InitTokens, TokensKept, PTL DEF Spec

\* A refresh token that was exchanged for another is revoked and belongs to
\* the same user: no interleaving of refreshes, logouts, revocations and
\* logins separates the two halves of a rotation.
THEOREM RotationIsAtomic == Spec => []RotationRevokesParent
  <1>1. TokenInv => RotationRevokesParent
    <2> SUFFICES ASSUME TokenInv, NEW t \in Tokens, parent[t] # NoToken
                 PROVE  /\ refresh_tokens[parent[t]].revoked
                        /\ refresh_tokens[parent[t]].user
                             = refresh_tokens[t].user
      BY DEF RotationRevokesParent
    <2>1. parent[t] \in Tokens
      BY DEF TokenInv, TypeInv, TypeOK, TokenRef
    <2> QED BY <2>1 DEF TokenInv, ParentsRevoked
  <1> QED BY <1>1, InitTokens, TokensKept, PTL DEF Spec

\* refresh_tokens takes no lock between the check of a token and the commit of
\* its exchange; however refreshes interleave, a token is exchanged at most
\* once for every thread there is.
THEOREM RotationsAreBounded == Spec => []RotationsBounded
  <1>1. TokenInv => RotationsBounded
    <2> SUFFICES ASSUME TokenInv, NEW t \in Tokens
                 PROVE  Cardinality(Children(t)) <= Cardinality(Workers)
      BY DEF RotationsBounded
    <2> QED BY Finite DEF TokenInv, Counted
  <1> QED BY <1>1, InitTokens, TokensKept, PTL DEF Spec

\* The service implements the abstract specification of sessions, for any
\* number of users, tokens and threads and every request: what the tables
\* show is always some run in which sessions are opened, exchanged and ended
\* one at a time, though a handler reads and commits in two transactions.
THEOREM ServiceImplementsSessions == Spec => ImplementsSessions
  <1>1. Init => Abstract!Init
    <2> SUFFICES ASSUME Init PROVE Abstract!Init
      OBVIOUS
    <2>1. \A t \in Tokens : refresh_tokens[t].user = NoUser
      BY DEF Init, NoRefreshRow
    <2>2. \A w \in Workers : ~Refreshing(sess[w])
      BY DEF Init, NoSession, Refreshing
    <2> QED BY <2>1, <2>2 DEF Abstract!Init, Owner, OpenTokens, Held, Issued
  <1>2. TokenInv /\ [Next]_vars => [Abstract!Next]_(Abstract!vars)
    BY NextTokens DEF TokenStep, SessionStep
  <1> QED BY <1>1, <1>2, InitTokens, TokensKept, PTL
          DEF Spec, ImplementsSessions, Abstract!Spec
=============================================================================
