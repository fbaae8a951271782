------------------------- MODULE AuthRequestProofs -------------------------
(***************************************************************************)
(* What a commit writes: one-time tokens take effect at most once for      *)
(* every thread and only after they were mailed, the audit trail tells of  *)
(* exactly the rows there are, and an account is changed only by the kind  *)
(* of request that is meant to, for any number of threads.                 *)
(*                                                                         *)
(* A commit is the one action that writes, and it writes what its session  *)
(* has gathered over several statements.  So the invariant speaks of the   *)
(* sessions in flight: Tidy(s) says what a request of each kind may hold   *)
(* by the time it is ready, Linked(s) relates its one-time tokens to the   *)
(* rows as they are now, and RedeemCounted adds to the times a one-time    *)
(* token took effect those that are on their way.                          *)
(***************************************************************************)
EXTENDS AuthTokenProofs

IssueEvents == {"login_success", "token_refresh"}
RevokeEvents ==
  {"none", "session_revoked", "account_deactivated", "admin_sessions_revoked"}

\* The event to log is that of the row to insert, and of nothing else.
Logs(s) ==
  /\ s.event = "register" <=> s.stage = "ready" /\ s.op = "register"
  /\ s.event \in IssueEvents <=> s.issue # NoToken
  /\ s.event \in LinkOps <=> s.stage = "ready" /\ s.new_link # NoLink
  /\ s.event # "login_failure"
  /\ s.revoke_event \in RevokeEvents

\* What the row held differs in from the row loaded, and for whom.
Changes(s) ==
  /\ s.row.exists # s.loaded.exists => s.stage = "ready" /\ s.op = "register"
  /\ s.stage = "ready" /\ s.op = "register" =>
       s.row.exists /\ ~s.loaded.exists
  /\ s.row.password # s.loaded.password =>
       /\ s.stage = "ready"
       /\ \/ s.op = "change_password" /\ s.user = s.actor
          \/ s.op \in {"password_reset_confirm", "register"}
  /\ s.row.role # s.loaded.role =>
       s.op = "admin_update" /\ s.payload.role = s.row.role
  /\ s.row.is_active # s.loaded.is_active =>
       \/ s.op = "admin_update" /\ s.payload.is_active # "keep"
       \/ s.op = "deactivate_me" /\ s.user = s.actor

Tidy(s) ==
  /\ Logs(s) /\ Changes(s)
  /\ s.stage = "begin" => s.loaded = NoRow /\ s.row = NoRow
  /\ s.stage # "ready" => s.redeem = {} /\ s.event = "none"
                          /\ s.revoke_event = "none"
  /\ s.stage \notin {"ready", "mail"} => s.new_link = NoLink
  /\ s.redeem # {} => s.op \in ConfirmOps /\ s.redeem = {s.link}
  /\ s.op \in SelfOps /\ s.stage # "begin" => s.user = s.actor

\* A one-time token a request presents was mailed, and belongs to the user it
\* found; one it will insert is new, and one it will mail is there.
Linked(s) ==
  /\ s.op \in ConfirmOps => s.link \in mail
  /\ s.op \in ConfirmOps /\ s.stage \in {"link_read", "ready"} =>
       links[s.link].user = s.user /\ links[s.link].kind = KindOf(s.op)
  /\ s.stage = "ready" /\ s.new_link \in Links => ~Sent(s.new_link)
  /\ s.stage = "mail" => Sent(s.new_link)

\* No two sessions insert or mail the same one-time token.
AloneLink(w, s) ==
  s.new_link \in Links =>
    \A v \in Workers \ {w} : sess[v].new_link # s.new_link

LinkRows ==
  /\ \A k \in mail : Sent(k)
  /\ \A k \in Links : redeemed[k] > 0 => k \in mail /\ links[k].used

\* Session s has found one-time token k unused and may still use it.
Redeems(s, k) ==
  s.op \in ConfirmOps /\ s.link = k /\ s.stage \in {"link_read", "ready"}

Redeeming(k) == {w \in Workers : Redeems(sess[w], k)}

RedeemCounted ==
  \A k \in Links :
    redeemed[k] + Cardinality(Redeeming(k)) <= Cardinality(Workers)

RequestInv ==
  /\ TypeInv /\ LinkRows /\ RedeemCounted
  /\ \A w \in Workers :
       Tidy(sess[w]) /\ Linked(sess[w]) /\ AloneLink(w, sess[w])

\* The rows the audit trail tells of, with what counting them needs.
SentLinks == {k \in Links : Sent(k)}
IssuedTokens == {t \in Tokens : Issued(t)}

AuditInv ==
  /\ AuditMatchesTables
  /\ IsFiniteSet(SentLinks)
  /\ \A u \in SeedAdmins \cup SeedMembers : users[u].exists

-----------------------------------------------------------------------------
LEMMA OpsApart ==
  /\ ConfirmOps \cap LinkOps = {} /\ ConfirmOps \cap BearerOps = {}
  /\ LinkOps \cap BearerOps = {} /\ SelfOps \cap AdminOps = {}
  /\ SelfOps \subseteq BearerOps /\ AdminOps \subseteq BearerOps
  /\ \A op \in {"register", "login", "refresh", "logout", "none"} :
       op \notin ConfirmOps \cup LinkOps \cup BearerOps
  BY DEF ConfirmOps, LinkOps, BearerOps, SelfOps, AdminOps

LEMMA TidyNoSession ==
  /\ Tidy(NoSession) /\ Linked(NoSession)
  /\ \A w \in Workers : AloneLink(w, NoSession)
  /\ \A k \in Links : ~Redeems(NoSession, k)
  BY Members, OpsApart
  DEF NoSession, NoRow, NewUser, Tidy, Logs, Changes, Linked, AloneLink, Redeems,
      IssueEvents, RevokeEvents, LinkOps, SelfOps

LEMMA FiniteRedeeming ==
  ASSUME NEW k
  PROVE  /\ IsFiniteSet(Redeeming(k)) /\ Cardinality(Redeeming(k)) \in Nat
         /\ IsFiniteSet(Workers) /\ Cardinality(Workers) \in Nat
         /\ Cardinality(Redeeming(k)) <= Cardinality(Workers)
  <1>1. IsFiniteSet(Workers) /\ Redeeming(k) \subseteq Workers
    BY FiniteAssumption DEF FiniteAssumption, Redeeming
  <1> QED BY <1>1, FS_Subset, FS_CardinalityType

\* While no row of a one-time token is written, a session joins those that may
\* redeem one only if it is unused, and then nobody has.
LEMMA CountRedeemMove ==
  ASSUME RequestInv, TypeInv', NEW w \in Workers, NEW r,
         \A k \in Links : Redeems(r, k) => Redeems(sess[w], k) \/ ~links[k].used,
         sess' = [sess EXCEPT ![w] = r], UNCHANGED redeemed
  PROVE  RedeemCounted'
  <1> SUFFICES ASSUME NEW k \in Links
               PROVE  redeemed[k] + Cardinality(Redeeming(k)')
                        <= Cardinality(Workers)
    BY DEF RedeemCounted
  <1>0. sess \in [Workers -> Session] /\ redeemed[k] \in Nat
    BY DEF RequestInv, TypeInv, TypeOK
  <1>1. \A v \in Redeeming(k)' :
          v \in Redeeming(k) \/ (v = w /\ Redeems(r, k))
    BY <1>0 DEF Redeeming, Redeems
  <1>2. Redeeming(k)' \subseteq Workers
    BY DEF Redeeming
  <1>3. /\ Cardinality(Redeeming(k)') \in Nat
        /\ Cardinality(Redeeming(k)') <= Cardinality(Workers)
    BY <1>2, FiniteRedeeming, FS_Subset, FS_CardinalityType
  <1>4. CASE Redeeming(k)' \subseteq Redeeming(k)
    <2>1. Cardinality(Redeeming(k)') <= Cardinality(Redeeming(k))
      BY <1>4, FiniteRedeeming, FS_Subset
    <2> QED BY <1>0, <1>3, <2>1, FiniteRedeeming DEF RequestInv, RedeemCounted
  <1>5. CASE ~(Redeeming(k)' \subseteq Redeeming(k))
    <2>1. ~links[k].used
      BY <1>1, <1>5 DEF Redeeming
    <2>2. redeemed[k] = 0
      BY <1>0, <2>1 DEF RequestInv, LinkRows
    <2> QED BY <1>3, <2>2, FiniteRedeeming
  <1> QED BY <1>4, <1>5

\* A worker's session changes and the one-time tokens stay as they are.
LEMMA MoveRequest ==
  ASSUME RequestInv, TypeInv', NEW w \in Workers, NEW r,
         Tidy(r), Linked(r), AloneLink(w, r),
         \A k \in Links : Redeems(r, k) => Redeems(sess[w], k) \/ ~links[k].used,
         sess' = [sess EXCEPT ![w] = r], UNCHANGED <<links, redeemed>>,
         mail \subseteq mail', \A k \in mail' : Sent(k)
  PROVE  RequestInv'
  <1>0. sess \in [Workers -> Session]
    BY DEF RequestInv, TypeInv, TypeOK
  <1>1. ASSUME NEW v \in Workers
        PROVE  Tidy(sess[v])' /\ Linked(sess[v])' /\ AloneLink(v, sess[v])'
    <2>1. sess'[v] = IF v = w THEN r ELSE sess[v]
      BY <1>0
    <2>2. Tidy(sess'[v]) /\ Linked(sess'[v])
      BY <2>1 DEF RequestInv
    <2>3. Tidy(sess[v])'
      BY <2>2 DEF Tidy, Logs, Changes
    <2>4. Linked(sess[v])'
      BY <2>2 DEF Linked, Sent
    <2>5. AloneLink(v, sess[v])'
      BY <1>0, <2>1 DEF AloneLink, RequestInv
    <2> QED BY <2>3, <2>4, <2>5
  <1>2. LinkRows'
    BY DEF RequestInv, LinkRows, Sent
  <1>3. RedeemCounted'
    BY CountRedeemMove
  <1> QED BY <1>1, <1>2, <1>3 DEF RequestInv

\* What a transaction does to the one-time tokens: the one it inserts was not
\* there, and the others keep their owner and stay used once they are.
LEMMA WriteLinks ==
  ASSUME RequestInv, NEW s \in Session, ArgumentsOK(s), Tidy(s), Linked(s),
         s.stage # "mail", Write(s)
  PROVE  /\ s.new_link \in Links => s.op \in LinkOps /\ s.user \in Users
                                    /\ s.redeem = {} /\ ~Sent(s.new_link)
                                    /\ Sent(s.new_link)'
         /\ \A k \in Links :
              /\ Sent(k) => /\ Sent(k)' /\ links'[k].user = links[k].user
                            /\ links'[k].kind = links[k].kind
                            /\ links[k].used => links'[k].used
              /\ k # s.new_link /\ ~Sent(k) => ~Sent(k)'
              /\ k \in s.redeem => k \in mail /\ Sent(k) /\ links'[k].used
              /\ redeemed'[k] = redeemed[k] + One(k \in s.redeem)
  <1>0. links \in [Links -> LinkRow] /\ redeemed \in [Links -> Nat]
        /\ mail \subseteq Links
    BY DEF RequestInv, TypeInv, TypeOK
  <1>1. /\ links' = [k \in Links |->
             IF k = s.new_link
             THEN [kind |-> s.op, user |-> s.user, used |-> FALSE,
                   expires |-> LinkExpires(s)]
             ELSE IF k \in s.redeem THEN [links[k] EXCEPT !.used = TRUE]
                  ELSE links[k]]
        /\ redeemed' = [k \in Links |-> redeemed[k] + One(k \in s.redeem)]
    BY DEF Write
  <1>2. ASSUME s.new_link \in Links
        PROVE  s.op \in LinkOps /\ s.user \in Users /\ s.redeem = {}
               /\ ~Sent(s.new_link) /\ Sent(s.new_link)'
    <2>1. s.op \in LinkOps /\ s.user \in Users /\ s.stage = "ready"
      BY <1>2, Members DEF ArgumentsOK, AccountOps, Tidy
    <2>2. s.redeem = {} /\ ~Sent(s.new_link)
      BY <1>2, <2>1, OpsApart DEF Tidy, Linked
    <2>3. links'[s.new_link].user = s.user
      BY <1>1, <1>2
    <2> QED BY <2>1, <2>2, <2>3, Members DEF Sent
  <1>3. ASSUME NEW k \in Links, k # s.new_link
        PROVE  /\ links'[k].user = links[k].user
               /\ links'[k].kind = links[k].kind
               /\ links[k].used => links'[k].used
               /\ k \in s.redeem => links'[k].used
    <2>1. CASE k \in s.redeem
      <3>1. links'[k] = [links[k] EXCEPT !.used = TRUE]
        BY <1>1, <1>3, <2>1
      <3> QED BY <1>0, <3>1 DEF LinkRow
    <2>2. CASE k \notin s.redeem
      BY <1>1, <1>3, <2>2
    <2> QED BY <2>1, <2>2
  <1>4. \A k \in s.redeem : k \in mail /\ Sent(k) /\ k # s.new_link
    BY <1>0, <1>2 DEF Tidy, Linked, RequestInv, LinkRows
  <1> QED BY <1>1, <1>2, <1>3, <1>4 DEF Sent

\* A transaction that uses a one-time token turns a use that was to come into
\* one that was made.
LEMMA CountRedeemWrite ==
  ASSUME RequestInv, NEW w \in Workers, NEW s \in Session, Tidy(s),
         s.redeem # {} => sess[w] = s /\ s.stage = "ready",
         \A k \in Links : redeemed'[k] = redeemed[k] + One(k \in s.redeem),
         NEW r, \A k \in Links : ~Redeems(r, k),
         sess' = [sess EXCEPT ![w] = r]
  PROVE  RedeemCounted'
  <1> SUFFICES ASSUME NEW k \in Links
               PROVE  redeemed'[k] + Cardinality(Redeeming(k)')
                        <= Cardinality(Workers)
    BY DEF RedeemCounted
  <1>0. sess \in [Workers -> Session] /\ redeemed[k] \in Nat
    BY DEF RequestInv, TypeInv, TypeOK
  <1>1. Redeeming(k)' \subseteq Redeeming(k) \ {w}
    BY <1>0 DEF Redeeming, Redeems
  <1>2. redeemed[k] + Cardinality(Redeeming(k)) <= Cardinality(Workers)
    BY DEF RequestInv, RedeemCounted
  <1>3. CASE k \in s.redeem
    <2>1. w \in Redeeming(k)
      BY <1>3 DEF Redeeming, Redeems, Tidy
    <2>2. /\ IsFiniteSet(Redeeming(k) \ {w})
          /\ Cardinality(Redeeming(k) \ {w}) = Cardinality(Redeeming(k)) - 1
      BY <2>1, FiniteRedeeming, FS_RemoveElement
    <2>3. Cardinality(Redeeming(k)') <= Cardinality(Redeeming(k)) - 1
          /\ Cardinality(Redeeming(k)') \in Nat
      BY <1>1, <2>2, FS_Subset, FS_CardinalityType
    <2>4. redeemed'[k] = redeemed[k] + 1
      BY <1>3 DEF One
    <2> QED BY <1>0, <1>2, <2>3, <2>4, FiniteRedeeming
  <1>4. CASE k \notin s.redeem
    <2>1. Redeeming(k)' \subseteq Redeeming(k)
      BY <1>1
    <2>2. Cardinality(Redeeming(k)') <= Cardinality(Redeeming(k))
          /\ Cardinality(Redeeming(k)') \in Nat
      BY <2>1, FiniteRedeeming, FS_Subset, FS_CardinalityType
    <2>3. redeemed'[k] = redeemed[k]
      BY <1>0, <1>4 DEF One
    <2> QED BY <1>0, <1>2, <2>2, <2>3, FiniteRedeeming
  <1> QED BY <1>3, <1>4

\* A transaction keeps RequestInv; its session goes on to mail the one-time
\* token it inserted or ends.
LEMMA WriteRequest ==
  ASSUME RequestInv, TypeInv', NEW w \in Workers, NEW s \in Session,
         ArgumentsOK(s), Tidy(s), Linked(s), AloneLink(w, s),
         s.stage # "mail", Write(s), UNCHANGED mail,
         s.redeem # {} => sess[w] = s /\ s.stage = "ready",
         NEW r, Tidy(r), r.op \notin ConfirmOps, r.stage # "ready",
         r.stage = "mail" => r.new_link = s.new_link /\ s.new_link \in Links,
         sess' = [sess EXCEPT ![w] = r]
  PROVE  RequestInv'
  <1>0. sess \in [Workers -> Session] /\ mail \subseteq Links
    BY DEF RequestInv, TypeInv, TypeOK
  <1>1. /\ s.new_link \in Links => ~Sent(s.new_link) /\ Sent(s.new_link)'
        /\ \A k \in Links :
             /\ Sent(k) => /\ Sent(k)' /\ links'[k].user = links[k].user
                           /\ links'[k].kind = links[k].kind
                           /\ links[k].used => links'[k].used
             /\ k # s.new_link /\ ~Sent(k) => ~Sent(k)'
             /\ k \in s.redeem => k \in mail /\ Sent(k) /\ links'[k].used
             /\ redeemed'[k] = redeemed[k] + One(k \in s.redeem)
    BY WriteLinks
  <1>2. LinkRows'
    <2>1. ASSUME NEW k \in Links, redeemed'[k] > 0
          PROVE  k \in mail /\ links'[k].used
      <3>1. CASE k \in s.redeem
        BY <1>1, <3>1
      <3>2. CASE k \notin s.redeem
        <4>1. redeemed'[k] = redeemed[k]
          BY <1>1, <3>2 DEF One, RequestInv, TypeInv, TypeOK
        <4>2. k \in mail /\ Sent(k) /\ links[k].used
          BY <2>1, <4>1 DEF RequestInv, LinkRows
        <4> QED BY <1>1, <4>2
      <3> QED BY <3>1, <3>2
    <2> QED BY <1>0, <1>1, <2>1 DEF RequestInv, LinkRows
  <1>3. RedeemCounted'
    BY <1>1, CountRedeemWrite DEF Redeems
  <1>4. ASSUME NEW v \in Workers
        PROVE  Tidy(sess[v])' /\ Linked(sess[v])' /\ AloneLink(v, sess[v])'
    <2>1. CASE v = w
      <3>1. sess'[v] = r
        BY <1>0, <2>1
      <3>2. Tidy(sess[v])'
        BY <3>1 DEF Tidy, Logs, Changes
      <3>3. Linked(sess[v])'
        BY <1>1, <3>1 DEF Linked
      <3>4. AloneLink(v, sess[v])'
        BY <1>0, <2>1, <3>1, Members DEF AloneLink, Tidy
      <3> QED BY <3>2, <3>3, <3>4
    <2>2. CASE v # w
      <3> PICK q : q = sess[v]
        OBVIOUS
      <3>1. sess'[v] = q /\ q \in Session /\ ArgumentsOK(q)
            /\ Tidy(q) /\ Linked(q) /\ AloneLink(v, q)
        BY <1>0, <2>2 DEF RequestInv, TypeInv
      <3>2. Tidy(sess[v])'
        BY <3>1 DEF Tidy, Logs, Changes
      <3>3. Linked(sess[v])'
        <4>1. q.op \in ConfirmOps => q.link \in Links /\ Sent(q.link)
          BY <3>1 DEF Linked, RequestInv, LinkRows, ArgumentsOK
        <4>2. q.new_link \in Links => q.new_link # s.new_link
          BY <2>2 DEF AloneLink
        <4>3. q.stage = "mail" => q.new_link \in Links
          BY <3>1 DEF ArgumentsOK
        <4>4. Linked(q)'
          BY <1>1, <3>1, <4>1, <4>2, <4>3 DEF Linked
        <4> QED BY <3>1, <4>4 DEF Linked, Sent
      <3>4. AloneLink(v, sess[v])'
        BY <1>0, <3>1, <2>2, Members DEF AloneLink, Tidy
      <3> QED BY <3>2, <3>3, <3>4
    <2> QED BY <2>1, <2>2
  <1> QED BY <1>2, <1>3, <1>4 DEF RequestInv

-----------------------------------------------------------------------------
(* The ways a handler moves                                                *)

LEMMA RejectRequest ==
  ASSUME RequestInv, TypeInv', NEW w \in Workers, NEW s,
         s.redeem = {}, s.new_link = NoLink, Reject(w, s)
  PROVE  RequestInv'
  <1>1. links \in [Links -> LinkRow] /\ redeemed \in [Links -> Nat]
    BY DEF RequestInv, TypeInv, TypeOK
  <1>2. UNCHANGED <<links, redeemed>>
    <2>1. CASE UNCHANGED <<tables, history>>
      BY <2>1 DEF tables, history
    <2>2. CASE Write(s)
      <3>1. links' = [k \in Links |-> links[k]]
        BY <2>2, Members DEF Write
      <3>2. redeemed' = [k \in Links |-> redeemed[k] + 0]
        BY <2>2 DEF Write, One
      <3> QED BY <1>1, <3>1, <3>2
    <2> QED BY <2>1, <2>2 DEF Reject
  <1>3. sess' = [sess EXCEPT ![w] = NoSession] /\ mail' = mail
    BY DEF Reject, Close
  <1> QED BY <1>2, <1>3, TidyNoSession, MoveRequest DEF RequestInv, LinkRows

\* The handler refuses with what it had at its last statement.
LEMMA RefuseRequest ==
  ASSUME RequestInv, TypeInv', NEW w \in Workers,
         sess[w].stage \notin {"ready", "mail"}, Refuse(w, sess[w])
  PROVE  RequestInv'
  <1>1. sess[w].redeem = {} /\ sess[w].new_link = NoLink
    BY DEF RequestInv, Tidy
  <1> QED BY <1>1, RejectRequest DEF Refuse

\* A step of a request that has nothing to do with one-time tokens.
LEMMA PlainStep ==
  ASSUME RequestInv, TypeInv', NEW w \in Workers, NEW r, Step(w, r),
         r.op \notin ConfirmOps, r.new_link = NoLink, r.stage # "mail", Tidy(r)
  PROVE  RequestInv'
  <1>1. Linked(r) /\ AloneLink(w, r) /\ \A k \in Links : ~Redeems(r, k)
    BY Members DEF Linked, AloneLink, Redeems
  <1> QED BY <1>1, MoveRequest
          DEF Step, tables, history, RequestInv, LinkRows

Keeps(s, r) ==
  /\ r.op = s.op /\ r.actor = s.actor /\ r.payload = s.payload
  /\ r.new_link = s.new_link /\ r.redeem = s.redeem

\* Such a step that goes on to another statement or is ready.
LEMMA KeptStep ==
  ASSUME RequestInv, TypeInv', NEW w \in Workers, NEW r, Step(w, r),
         sess[w].stage \notin {"ready", "mail"}, Keeps(sess[w], r),
         r.op \notin ConfirmOps \cup {"register"},
         r.stage \notin {"begin", "mail"},
         r.op \in SelfOps => r.user = r.actor, Changes(r),
         r.stage # "ready" => r.event = "none" /\ r.revoke_event = "none",
         r.event \in IssueEvents <=> r.issue # NoToken,
         r.event \notin LinkOps \cup {"register", "login_failure"},
         r.revoke_event \in RevokeEvents
  PROVE  RequestInv'
  <1>1. sess[w].new_link = NoLink /\ sess[w].redeem = {}
    BY DEF RequestInv, Tidy
  <1>2. Tidy(r)
    BY <1>1 DEF Keeps, Tidy, Logs
  <1> QED BY <1>1, <1>2, PlainStep DEF Keeps

\* What a session holds before it is ready.
LEMMA Unready ==
  ASSUME RequestInv, NEW w \in Workers, sess[w].stage \notin {"ready", "mail"}
  PROVE  /\ sess[w].redeem = {} /\ sess[w].new_link = NoLink
         /\ sess[w].issue = NoToken
         /\ sess[w].event = "none" /\ sess[w].revoke_event = "none"
         /\ sess[w].stage = "begin" =>
              sess[w].loaded = NoRow /\ sess[w].row = NoRow
         /\ Changes(sess[w])
         /\ sess[w].op \in SelfOps /\ sess[w].stage # "begin" =>
              sess[w].user = sess[w].actor
         /\ "none" \notin IssueEvents \cup LinkOps
         /\ "none" \in RevokeEvents
  BY DEF RequestInv, Tidy, Logs, IssueEvents, RevokeEvents, LinkOps

\* A request with the columns it loaded changes nothing that has an owner.
LEMMA NothingChanges ==
  ASSUME NEW r, r.op # "register",
         r.row.exists = r.loaded.exists, r.row.password = r.loaded.password,
         r.row.role = r.loaded.role, r.row.is_active = r.loaded.is_active
  PROVE  Changes(r)
  BY DEF Changes

LEMMA LoginRequest ==
  ASSUME RequestInv, TypeInv', NEW w \in Workers, Login(w)
  PROVE  RequestInv'
  <1> DEFINE s == sess[w]
             db == users[s.user]
             Loaded(row, event) ==
               [s EXCEPT !.loaded = db, !.row = row, !.event = event]
  <1>1. s \in Session /\ s.user \in Users /\ s.op = "login"
        /\ s.stage = "begin"
    BY DEF RequestInv, TypeInv, TypeOK, Login, InStage, ArgumentsOK, AccountOps
  <1>2. db \in UserRow
    BY <1>1, Rows DEF RequestInv, TypeInv
  <1>3. s.redeem = {} /\ s.new_link = NoLink /\ s.revoke_event = "none"
    BY <1>1, Unready
  <1>4. ASSUME NEW row, NEW event, Reject(w, Loaded(row, event))
        PROVE  RequestInv'
    <2> DEFINE r == Loaded(row, event)
    <2>1. r.redeem = {} /\ r.new_link = NoLink
      BY <1>1, <1>3 DEF Session
    <2>2. Reject(w, r)
      BY <1>4
    <2> HIDE DEF r
    <2> QED BY <2>1, <2>2, RejectRequest
  <1>5. ASSUME Refuse(w, [s EXCEPT !.event = "login_failure"])
        PROVE  RequestInv'
    <2> DEFINE r == [s EXCEPT !.event = "login_failure"]
    <2>1. r.redeem = {} /\ r.new_link = NoLink
      BY <1>1, <1>3 DEF Session
    <2>2. Reject(w, r)
      BY <1>5 DEF Refuse
    <2> HIDE DEF r
    <2> QED BY <2>1, <2>2, RejectRequest
  <1>6. ASSUME NEW t \in Tokens,
               Step(w, [Loaded(Unlocked(db), "login_success") EXCEPT
                        !.stage = "ready", !.issue = t, !.at = now])
        PROVE  RequestInv'
    <2> DEFINE r == [Loaded(Unlocked(db), "login_success") EXCEPT
                     !.stage = "ready", !.issue = t, !.at = now]
    <2>1. /\ r.op = "login" /\ r.stage = "ready" /\ r.issue = t
          /\ r.event = "login_success" /\ r.revoke_event = s.revoke_event
          /\ r.loaded = db /\ r.row = Unlocked(db) /\ Keeps(s, r)
      BY <1>1 DEF Session, Keeps
    <2>2. Unlocked(db).exists = db.exists
          /\ Unlocked(db).password = db.password
          /\ Unlocked(db).role = db.role
          /\ Unlocked(db).is_active = db.is_active
      BY <1>2 DEF Unlocked, UserRow
    <2>3. Step(w, r)
      BY <1>6
    <2> HIDE DEF r
    <2>4. Changes(r)
      BY <2>1, <2>2, NothingChanges
    <2>5. /\ "login" \notin ConfirmOps \cup SelfOps
          /\ "login_success" \in IssueEvents
          /\ "login_success" \notin LinkOps /\ "none" \in RevokeEvents
          /\ t # NoToken
      BY OpsApart, Members DEF IssueEvents, LinkOps, RevokeEvents
    <2> QED BY <1>1, <1>3, <2>1, <2>3, <2>4, <2>5, KeptStep
  <1> HIDE DEF db, Loaded
  <1> QED BY <1>4, <1>5, <1>6 DEF Login, Refuse, db, Loaded

LEMMA PublicRequest ==
  ASSUME RequestInv, TypeInv', NEW w \in Workers, PublicStep(w)
  PROVE  RequestInv'
  <1> DEFINE s == sess[w]
  <1>0. s \in Session /\ ArgumentsOK(s) /\ Tidy(s) /\ Linked(s)
    BY DEF RequestInv, TypeInv, TypeOK
  <1>o. /\ \A op \in {"refresh", "logout"} \cup LinkOps :
             op \notin ConfirmOps \cup SelfOps \cup {"register"}
        /\ "token_refresh" \in IssueEvents /\ "token_refresh" \notin LinkOps
        /\ "logout" \notin IssueEvents \cup LinkOps
        /\ "register" \notin IssueEvents \cup LinkOps \cup ConfirmOps \cup SelfOps
        /\ "none" \in RevokeEvents
    BY OpsApart DEF IssueEvents, LinkOps, RevokeEvents, ConfirmOps
  <1>1. CASE RegisterUser(w)
    <2> DEFINE r == [s EXCEPT !.stage = "ready", !.event = "register",
                              !.row = NewUser(s.password)]
    <2>1. s.op = "register" /\ s.stage = "begin"
      BY <1>1 DEF RegisterUser, InStage
    <2>2. /\ r.op = s.op /\ r.stage = "ready" /\ r.event = "register"
          /\ r.issue = s.issue /\ r.new_link = s.new_link
          /\ r.redeem = s.redeem /\ r.revoke_event = s.revoke_event
          /\ r.loaded = s.loaded /\ r.row = NewUser(s.password)
      BY <1>0 DEF Session
    <2>3. Refuse(w, s) \/ Step(w, r)
      BY <1>1 DEF RegisterUser
    <2> HIDE DEF r
    <2>4. Logs(r)
      BY <1>o, <2>1, <2>2, Unready DEF Logs
    <2>5. Changes(r)
      <3>1. /\ NoRow.exists = FALSE /\ NoRow.role = "user"
            /\ NoRow.is_active = TRUE
        BY DEF NoRow, NewUser
      <3>2. /\ r.row.exists = TRUE /\ r.row.role = "user"
            /\ r.row.is_active = TRUE
        BY <2>2 DEF NewUser
      <3>3. r.loaded = NoRow
        BY <2>1, <2>2, Unready
      <3> HIDE DEF s
      <3> QED BY <2>1, <2>2, <3>1, <3>2, <3>3 DEF Changes
    <2>6. Tidy(r)
      BY <1>o, <2>1, <2>2, <2>4, <2>5, Unready DEF Tidy
    <2> QED BY <1>o, <2>1, <2>2, <2>3, <2>6, Unready, RefuseRequest, PlainStep
  <1>2. CASE Login(w)
    BY <1>2, LoginRequest
  <1>3. CASE RefreshToken(w)
    <2> DEFINE r == [s EXCEPT !.stage = "token_read",
                              !.user = refresh_tokens[s.token].user]
    <2>1. s.op = "refresh" /\ s.stage = "begin"
      BY <1>3 DEF RefreshToken, InStage
    <2>2. /\ r.op = "refresh" /\ r.stage = "token_read" /\ r.event = s.event
          /\ r.revoke_event = s.revoke_event /\ r.issue = s.issue
          /\ r.loaded = s.loaded /\ r.row = s.row /\ Keeps(s, r)
      BY <1>0, <2>1 DEF Session, Keeps
    <2>3. Refuse(w, s) \/ Step(w, r)
      BY <1>3 DEF RefreshToken
    <2> HIDE DEF r
    <2>4. Changes(r)
      BY <2>1, <2>2, Unready, NothingChanges
    <2> QED BY <1>o, <2>1, <2>2, <2>3, <2>4, Unready, RefuseRequest, KeptStep
  <1>4. CASE RefreshUser(w)
    <2> DEFINE db == users[s.user]
    <2>1. s.op = "refresh" /\ s.stage = "token_read"
      BY <1>4 DEF RefreshUser, InStage
    <2>2. ASSUME NEW t \in Tokens,
                 Step(w, [s EXCEPT !.stage = "ready", !.loaded = db, !.row = db,
                                   !.revoke = {s.token}, !.issue = t,
                                   !.at = now, !.event = "token_refresh"])
          PROVE  RequestInv'
      <3> DEFINE r == [s EXCEPT !.stage = "ready", !.loaded = db, !.row = db,
                                !.revoke = {s.token}, !.issue = t,
                                !.at = now, !.event = "token_refresh"]
      <3>1. /\ r.op = "refresh" /\ r.stage = "ready" /\ r.issue = t
            /\ r.event = "token_refresh" /\ r.revoke_event = s.revoke_event
            /\ r.loaded = db /\ r.row = db /\ Keeps(s, r)
        BY <1>0, <2>1 DEF Session, Keeps
      <3>2. Step(w, r)
        BY <2>2
      <3> HIDE DEF r
      <3>3. Changes(r)
        BY <3>1, NothingChanges
      <3> QED BY <1>o, <2>1, <3>1, <3>2, <3>3, Unready, Members, KeptStep
    <2> QED BY <1>4, <2>1, <2>2, RefuseRequest DEF RefreshUser
  <1>5. CASE Logout(w)
    <2> DEFINE q == [s EXCEPT !.stage = "ready"]
               r == [s EXCEPT !.stage = "ready", !.revoke = {s.token},
                              !.event = "logout"]
    <2>1. s.op = "logout" /\ s.stage = "begin"
      BY <1>5 DEF Logout, InStage
    <2>2. /\ r.op = "logout" /\ r.stage = "ready" /\ r.event = "logout"
          /\ r.revoke_event = s.revoke_event /\ r.issue = s.issue
          /\ r.loaded = s.loaded /\ r.row = s.row /\ Keeps(s, r)
          /\ q.op = "logout" /\ q.stage = "ready" /\ q.event = s.event
          /\ q.revoke_event = s.revoke_event /\ q.issue = s.issue
          /\ q.loaded = s.loaded /\ q.row = s.row /\ Keeps(s, q)
      BY <1>0, <2>1 DEF Session, Keeps
    <2>3. Step(w, q) \/ Step(w, r)
      BY <1>5 DEF Logout
    <2> HIDE DEF q, r
    <2>4. Changes(q) /\ Changes(r)
      BY <2>1, <2>2, Unready, NothingChanges
    <2> QED BY <1>o, <2>1, <2>2, <2>3, <2>4, Unready, KeptStep
  <1>6. CASE RequestLink(w)
    <2>1. s.op \in LinkOps /\ s.stage = "begin"
      BY <1>6 DEF RequestLink
    <2>2. ASSUME Step(w, [s EXCEPT !.stage = "ready"]) PROVE RequestInv'
      <3> DEFINE r == [s EXCEPT !.stage = "ready"]
      <3>1. /\ r.op = s.op /\ r.stage = "ready" /\ r.event = s.event
            /\ r.revoke_event = s.revoke_event /\ r.issue = s.issue
            /\ r.loaded = s.loaded /\ r.row = s.row /\ Keeps(s, r)
        BY <1>0 DEF Session, Keeps
      <3>2. Step(w, r)
        BY <2>2
      <3> HIDE DEF r
      <3>3. Changes(r)
        BY <1>o, <2>1, <3>1, Unready, NothingChanges
      <3> QED BY <1>o, <2>1, <3>1, <3>2, <3>3, Unready, KeptStep
    <2>3. ASSUME NEW k \in Links, FreshLink(k),
                 Step(w, [s EXCEPT !.stage = "ready", !.new_link = k,
                                   !.at = now, !.event = s.op])
          PROVE  RequestInv'
      <3> DEFINE r == [s EXCEPT !.stage = "ready", !.new_link = k,
                                !.at = now, !.event = s.op]
      <3>1. /\ r.op = s.op /\ r.stage = "ready" /\ r.event = s.op
            /\ r.revoke_event = s.revoke_event /\ r.issue = s.issue
            /\ r.new_link = k /\ r.redeem = s.redeem
            /\ r.loaded = s.loaded /\ r.row = s.row
        BY <1>0 DEF Session
      <3>2. Step(w, r)
        BY <2>3
      <3> HIDE DEF r
      <3>3. Changes(r)
        BY <1>o, <2>1, <3>1, Unready, NothingChanges
      <3>4. Logs(r)
        BY <1>o, <2>1, <3>1, Unready, Members DEF Logs, IssueEvents, LinkOps
      <3>5. Tidy(r)
        BY <1>o, <2>1, <3>1, <3>3, <3>4, Unready DEF Tidy
      <3>6. Linked(r) /\ AloneLink(w, r) /\ \A l \in Links : ~Redeems(r, l)
        BY <1>o, <2>1, <2>3, <3>1 DEF Linked, AloneLink, Redeems, FreshLink
      <3> QED BY <3>2, <3>5, <3>6, MoveRequest
              DEF Step, tables, history, RequestInv, LinkRows
    <2> QED BY <1>6, <2>2, <2>3 DEF RequestLink
  <1>7. CASE SendEmail(w)
    <2>1. s.stage = "mail" /\ Sent(s.new_link) /\ mail' \subseteq mail \cup {s.new_link}
          /\ mail \subseteq mail'
      BY <1>0, <1>7 DEF SendEmail, Linked
    <2> QED BY <1>7, <2>1, TidyNoSession, MoveRequest
            DEF SendEmail, Close, tables, history, RequestInv, LinkRows
  <1>8. CASE ConfirmLink(w)
    <2> DEFINE r == [s EXCEPT !.stage = "link_read",
                              !.user = links[s.link].user]
    <2>1. s.op \in ConfirmOps /\ s.stage = "begin"
      BY <1>8 DEF ConfirmLink
    <2>2. /\ r.op = s.op /\ r.stage = "link_read" /\ r.event = s.event
          /\ r.revoke_event = s.revoke_event /\ r.issue = s.issue
          /\ r.new_link = s.new_link /\ r.redeem = s.redeem
          /\ r.link = s.link /\ r.user = links[s.link].user
          /\ r.loaded = s.loaded /\ r.row = s.row
      BY <1>0 DEF Session
    <2> HIDE DEF r
    <2>3. Changes(r)
      BY <1>o, <2>1, <2>2, Unready, NothingChanges
    <2>4. Tidy(r)
      BY <2>1, <2>2, <2>3, Unready, OpsApart DEF Tidy, Logs
    <2>5. ASSUME Redeemable(s.link, s.op), Step(w, r) PROVE RequestInv'
      <3>1. Linked(r) /\ AloneLink(w, r)
        BY <1>0, <2>1, <2>2, <2>5, Unready, Members
        DEF Linked, AloneLink, Redeemable
      <3>2. \A k \in Links : Redeems(r, k) => ~links[k].used
        BY <2>2, <2>5 DEF Redeems, Redeemable
      <3> QED BY <2>4, <2>5, <3>1, <3>2, MoveRequest
              DEF Step, tables, history, RequestInv, LinkRows
    <2> QED BY <1>8, <2>1, <2>5, RefuseRequest DEF ConfirmLink, r
  <1>9. CASE ConfirmLinkUser(w)
    <2> DEFINE db == users[s.user]
               Loaded == [s EXCEPT !.stage = "ready", !.redeem = {s.link},
                                   !.loaded = db, !.row = db]
               q == [Loaded EXCEPT !.row.is_verified = TRUE,
                                   !.event = "verify_email_success"]
               r == [Loaded EXCEPT !.loaded.password = NoPassword,
                                   !.row.password = s.new_password,
                                   !.event = "password_reset_success"]
    <2>1. /\ s.stage = "link_read" /\ s.op \in ConfirmOps
          /\ \/ s.op = "verify_email_confirm" /\ Step(w, q)
             \/ s.op = "password_reset_confirm" /\ Step(w, r)
      BY <1>9 DEF ConfirmLinkUser, InStage, ConfirmOps
    <2>2. db \in UserRow
      BY <1>0, <2>1, Rows DEF ArgumentsOK, RequestInv, TypeInv
    <2>3. /\ q.row.exists = db.exists /\ q.row.password = db.password
          /\ q.row.role = db.role /\ q.row.is_active = db.is_active
          /\ r.row.exists = db.exists
          /\ r.row.role = db.role /\ r.row.is_active = db.is_active
          /\ r.loaded.exists = db.exists /\ r.loaded.role = db.role
          /\ r.loaded.is_active = db.is_active
          /\ q.event = "verify_email_success" /\ q.loaded = db
          /\ r.event = "password_reset_success"
          /\ r.loaded = [db EXCEPT !.password = NoPassword]
      BY <1>0, <2>2 DEF Session, UserRow
    <2>4. ASSUME NEW x \in {q, r}
          PROVE  /\ x.op = s.op /\ x.stage = "ready" /\ x.user = s.user
                 /\ x.link = s.link /\ x.new_link = s.new_link
                 /\ x.redeem = {s.link} /\ x.issue = s.issue
                 /\ x.revoke_event = s.revoke_event
      BY <1>0 DEF Session
    <2>5. Changes(q) /\ (s.op = "password_reset_confirm" => Changes(r))
      BY <1>o, <2>1, <2>3, <2>4, OpsApart DEF Changes
    <2>6. ASSUME NEW x \in {q, r}, Changes(x), Step(w, x)
          PROVE  RequestInv'
      <3>1. x.event \notin LinkOps \cup IssueEvents \cup {"register", "login_failure"}
        BY <2>3 DEF LinkOps, IssueEvents
      <3>2. PICK y : y = x
        OBVIOUS
      <3> HIDE DEF q, r, db, Loaded
      <3>3. /\ y.op = s.op /\ y.stage = "ready" /\ y.user = s.user
            /\ y.link = s.link /\ y.new_link = s.new_link
            /\ y.redeem = {s.link} /\ y.issue = s.issue
            /\ y.revoke_event = s.revoke_event /\ Changes(y) /\ Step(w, y)
        BY <2>4, <2>6, <3>2
      <3>4. Tidy(y)
        BY <1>0, <2>1, <3>1, <3>2, <3>3, Unready, OpsApart, Members
        DEF Tidy, Logs
      <3>5. Linked(y) /\ AloneLink(w, y)
        BY <1>0, <2>1, <3>3, Unready, Members DEF Linked, AloneLink
      <3>6. \A k \in Links : Redeems(y, k) => Redeems(s, k)
        BY <2>1, <3>3 DEF Redeems
      <3> QED BY <3>3, <3>4, <3>5, <3>6, MoveRequest
              DEF Step, tables, history, RequestInv, LinkRows
    <2> HIDE DEF q, r
    <2> QED BY <2>1, <2>5, <2>6
  <1> QED BY <1>1, <1>2, <1>3, <1>4, <1>5, <1>6, <1>7, <1>8, <1>9
          DEF PublicStep

-----------------------------------------------------------------------------
(* The requests of a signed-in user and of an administrator                *)

LEMMA RevokeAllKeeps ==
  ASSUME NEW s \in Session, NEW keep, NEW event \in RevokeEvents
  PROVE  LET r == RevokeAllOf(s, keep, event) IN
         /\ r.stage = s.stage /\ r.user = s.user /\ r.actor = s.actor
         /\ r.op = s.op /\ r.new_link = s.new_link /\ r.redeem = s.redeem
         /\ r.payload = s.payload /\ r.issue = s.issue /\ r.event = s.event
         /\ r.loaded = s.loaded /\ r.row = s.row
         /\ r.revoke_event \in RevokeEvents
         /\ r \in Session
  <1>1. event \in Event
    BY Events, Members DEF RevokeEvents
  <1>2. RevokeAllOf(s, keep, event) \in Session
    BY <1>1, RevokeAllType
  <1> QED BY <1>2 DEF RevokeAllOf, RevokeEvents, Session

\* A step of such a request: it logs nothing that the tables are counted by.
LEMMA BearerKept ==
  ASSUME RequestInv, TypeInv', NEW w \in Workers, NEW r, Step(w, r),
         sess[w].op \in BearerOps, sess[w].stage \notin {"ready", "mail"},
         Keeps(sess[w], r), r.issue = sess[w].issue,
         r.stage \notin {"begin", "mail"},
         r.op \in SelfOps => r.user = r.actor, Changes(r),
         r.stage # "ready" => r.event = "none" /\ r.revoke_event = "none",
         r.event \in {"none", "profile_updated", "password_changed",
                      "account_deactivated", "session_revoked",
                      "admin_user_updated", "admin_user_unlocked"},
         r.revoke_event \in RevokeEvents
  PROVE  RequestInv'
  <1>1. r.issue = NoToken
    BY Unready
  <1>2. r.event \notin IssueEvents \cup LinkOps \cup {"register", "login_failure"}
    BY DEF IssueEvents, LinkOps
  <1>3. r.op \notin ConfirmOps \cup {"register"}
    BY OpsApart DEF Keeps
  <1> QED BY <1>1, <1>2, <1>3, KeptStep

\* The row it holds is what it was.
LEMMA SameChanges ==
  ASSUME RequestInv, NEW w \in Workers, sess[w].stage \notin {"ready", "mail"},
         NEW r, Keeps(sess[w], r), r.user = sess[w].user,
         r.loaded = sess[w].loaded, r.row.exists = sess[w].row.exists,
         r.row.password = sess[w].row.password,
         r.row.role = sess[w].row.role,
         r.row.is_active = sess[w].row.is_active, r.op # "register"
  PROVE  Changes(r)
  BY Unready DEF Changes, Keeps

LEMMA SelfRequest ==
  ASSUME RequestInv, TypeInv', NEW w \in Workers,
         \/ Authenticate(w) \/ PatchMe(w) \/ ChangePassword(w)
         \/ DeactivateMe(w) \/ RevokeSession(w) \/ RevokeAllSessions(w)
  PROVE  RequestInv'
  <1> DEFINE s == sess[w]
  <1>0. s \in Session /\ s.row \in UserRow
    BY DEF RequestInv, TypeInv, TypeOK, Session
  <1>o. /\ {"patch_me", "change_password", "deactivate_me", "revoke_session",
            "revoke_all"} = SelfOps
        /\ SelfOps \subseteq BearerOps /\ "register" \notin BearerOps
        /\ "session_revoked" \in RevokeEvents
        /\ "account_deactivated" \in RevokeEvents
    BY OpsApart DEF SelfOps, RevokeEvents
  <1>1. CASE Authenticate(w)
    <2> DEFINE r == [s EXCEPT !.stage = "authed", !.user = s.actor,
                              !.loaded = users[s.actor],
                              !.row = users[s.actor]]
    <2>1. s.op \in BearerOps /\ s.stage = "begin"
          /\ (Refuse(w, s) \/ Step(w, r))
      BY <1>1 DEF Authenticate
    <2>2. /\ Keeps(s, r) /\ r.stage = "authed" /\ r.user = r.actor
          /\ r.event = s.event /\ r.revoke_event = s.revoke_event
          /\ r.issue = s.issue /\ r.row = r.loaded
      BY <1>0 DEF Session, Keeps
    <2> HIDE DEF r
    <2>3. Changes(r)
      BY <1>o, <2>1, <2>2, NothingChanges DEF Keeps
    <2> QED BY <2>1, <2>2, <2>3, Unready, BearerKept, RefuseRequest
  <1>2. CASE PatchMe(w)
    <2> DEFINE r == [s EXCEPT !.stage = "ready", !.event = "profile_updated"]
    <2>1. s.op = "patch_me" /\ s.stage = "authed" /\ Step(w, r)
      BY <1>2 DEF PatchMe, InStage
    <2>2. /\ Keeps(s, r) /\ r.stage = "ready" /\ r.user = s.user
          /\ r.event = "profile_updated" /\ r.revoke_event = s.revoke_event
          /\ r.issue = s.issue /\ r.loaded = s.loaded /\ r.row = s.row
      BY <1>0 DEF Session, Keeps
    <2> HIDE DEF r
    <2>3. Changes(r) /\ r.user = r.actor
      BY <1>o, <2>1, <2>2, Unready, SameChanges DEF Keeps
    <2> QED BY <1>o, <2>1, <2>2, <2>3, Unready, BearerKept
  <1>3. CASE ChangePassword(w)
    <2> DEFINE q == RevokeAllOf(s, {}, "session_revoked")
               r == [q EXCEPT !.stage = "ready",
                              !.row.password = s.new_password,
                              !.event = "password_changed"]
    <2>1. s.op = "change_password" /\ s.stage = "authed"
          /\ (Refuse(w, s) \/ Step(w, r))
      BY <1>3 DEF ChangePassword, InStage
    <2>2. q \in Session /\ q.row = s.row /\ q.loaded = s.loaded
          /\ q.user = s.user /\ Keeps(s, q) /\ q.issue = s.issue
          /\ q.revoke_event \in RevokeEvents
      BY <1>0, <1>o, RevokeAllKeeps DEF Keeps
    <2> HIDE DEF q
    <2>3. /\ Keeps(s, r) /\ r.stage = "ready" /\ r.user = s.user
          /\ r.event = "password_changed" /\ r.revoke_event = q.revoke_event
          /\ r.issue = s.issue /\ r.loaded = s.loaded
          /\ r.row = [s.row EXCEPT !.password = s.new_password]
      BY <2>2 DEF Session, Keeps
    <2> HIDE DEF r
    <2>4. r.row.exists = s.row.exists /\ r.row.role = s.row.role
          /\ r.row.is_active = s.row.is_active
      BY <1>0, <2>3 DEF UserRow
    <2>5. r.op = "change_password" /\ r.user = r.actor
      BY <1>o, <2>1, <2>3, Unready DEF Keeps
    <2>6. Changes(r)
      BY <2>1, <2>3, <2>4, <2>5, Unready DEF Changes, Keeps
    <2> QED BY <1>o, <2>1, <2>2, <2>3, <2>5, <2>6, BearerKept, RefuseRequest
  <1>4. CASE DeactivateMe(w)
    <2> DEFINE q == RevokeAllOf(s, {}, "account_deactivated")
               r == [q EXCEPT !.stage = "ready", !.row.is_active = FALSE,
                              !.row.deactivated = TRUE,
                              !.event = "account_deactivated"]
    <2>1. s.op = "deactivate_me" /\ s.stage = "authed" /\ Step(w, r)
      BY <1>4 DEF DeactivateMe, InStage
    <2>2. q \in Session /\ q.row = s.row /\ q.loaded = s.loaded
          /\ q.user = s.user /\ Keeps(s, q) /\ q.issue = s.issue
          /\ q.revoke_event \in RevokeEvents
      BY <1>0, <1>o, RevokeAllKeeps DEF Keeps
    <2> HIDE DEF q
    <2>3. /\ Keeps(s, r) /\ r.stage = "ready" /\ r.user = s.user
          /\ r.event = "account_deactivated"
          /\ r.revoke_event = q.revoke_event
          /\ r.issue = s.issue /\ r.loaded = s.loaded
          /\ r.row = [s.row EXCEPT !.is_active = FALSE, !.deactivated = TRUE]
      BY <2>2 DEF Session, Keeps
    <2> HIDE DEF r
    <2>4. r.row.exists = s.row.exists /\ r.row.role = s.row.role
          /\ r.row.password = s.row.password
      BY <1>0, <2>3 DEF UserRow
    <2>5. r.op = "deactivate_me" /\ r.user = r.actor
      BY <1>o, <2>1, <2>3, Unready DEF Keeps
    <2>6. Changes(r)
      BY <2>1, <2>3, <2>4, <2>5, Unready DEF Changes, Keeps
    <2> QED BY <1>o, <2>1, <2>2, <2>3, <2>5, <2>6, BearerKept
  <1>5. CASE RevokeSession(w)
    <2> DEFINE r == [s EXCEPT !.stage = "ready", !.revoke = {s.token},
                              !.event = "session_revoked"]
    <2>1. s.op = "revoke_session" /\ s.stage = "authed"
          /\ (Refuse(w, s) \/ Step(w, r))
      BY <1>5 DEF RevokeSession, InStage
    <2>2. /\ Keeps(s, r) /\ r.stage = "ready" /\ r.user = s.user
          /\ r.event = "session_revoked" /\ r.revoke_event = s.revoke_event
          /\ r.issue = s.issue /\ r.loaded = s.loaded /\ r.row = s.row
      BY <1>0 DEF Session, Keeps
    <2> HIDE DEF r
    <2>3. Changes(r) /\ r.user = r.actor
      BY <1>o, <2>1, <2>2, Unready, SameChanges DEF Keeps
    <2> QED BY <1>o, <2>1, <2>2, <2>3, Unready, BearerKept, RefuseRequest
  <1>6. CASE RevokeAllSessions(w)
    <2> DEFINE q == RevokeAllOf(s, {s.token}, "session_revoked")
               r == [q EXCEPT !.stage = "ready"]
    <2>1. s.op = "revoke_all" /\ s.stage = "authed"
          /\ (Refuse(w, s) \/ Step(w, r))
      BY <1>6 DEF RevokeAllSessions, InStage
    <2>2. q \in Session /\ q.row = s.row /\ q.loaded = s.loaded
          /\ q.user = s.user /\ Keeps(s, q) /\ q.issue = s.issue
          /\ q.revoke_event \in RevokeEvents /\ q.event = s.event
      BY <1>0, <1>o, RevokeAllKeeps DEF Keeps
    <2> HIDE DEF q
    <2>3. /\ Keeps(s, r) /\ r.stage = "ready" /\ r.user = s.user
          /\ r.event = s.event /\ r.revoke_event = q.revoke_event
          /\ r.issue = s.issue /\ r.loaded = s.loaded /\ r.row = s.row
      BY <2>2 DEF Session, Keeps
    <2> HIDE DEF r
    <2>4. Changes(r) /\ r.user = r.actor
      BY <1>o, <2>1, <2>3, Unready, SameChanges DEF Keeps
    <2> QED BY <1>o, <2>1, <2>2, <2>3, <2>4, Unready, BearerKept, RefuseRequest
  <1> QED BY <1>1, <1>2, <1>3, <1>4, <1>5, <1>6

LEMMA UpdatedKeeps ==
  ASSUME NEW s \in Session
  PROVE  /\ Keeps(s, Updated(s)) /\ Updated(s).stage = "ready"
         /\ Updated(s).user = s.user /\ Updated(s).issue = s.issue
         /\ Updated(s).event = "admin_user_updated"
         /\ Updated(s).revoke_event = s.revoke_event
         /\ Updated(s).loaded = s.loaded
         /\ Updated(s).row.exists = s.row.exists
         /\ Updated(s).row.password = s.row.password
         /\ Updated(s).row.role = s.row.role
         /\ Updated(s).row.is_active = s.row.is_active
         /\ Updated(s).row \in UserRow /\ Updated(s) \in Session
  <1> DEFINE verified == Switched(s.payload.is_verified, s.row.is_verified)
             row == [s.row EXCEPT !.is_verified = verified]
  <1>1. s.row \in UserRow
    BY DEF Session
  <1>2. verified \in BOOLEAN
    BY <1>1 DEF Switched, UserRow
  <1>3. Updated(s) = [s EXCEPT !.stage = "ready",
                               !.event = "admin_user_updated", !.row = row]
    BY DEF Updated, Session
  <1> HIDE DEF verified
  <1>4. row \in UserRow /\ row.exists = s.row.exists
        /\ row.password = s.row.password /\ row.role = s.row.role
        /\ row.is_active = s.row.is_active
    BY <1>1, <1>2 DEF UserRow
  <1> HIDE DEF row
  <1>5. Updated(s) \in Session
    BY <1>3, <1>4, Events, Members DEF Session
  <1> QED BY <1>3, <1>4, <1>5 DEF Session, Keeps

\* A change of the activity is an administrator's if the body asks for one.
LEMMA ActiveChanges ==
  ASSUME NEW s, NEW r, Changes(s), s.stage # "ready",
         s.op = "admin_update", r.op = "admin_update", r.payload = s.payload,
         r.payload.is_active # "keep", r.loaded = s.loaded,
         r.row.exists = s.row.exists, r.row.password = s.row.password,
         r.row.role = s.row.role
  PROVE  Changes(r)
  BY DEF Changes

LEMMA AdminRequest ==
  ASSUME RequestInv, TypeInv', NEW w \in Workers,
         \/ LoadTarget(w) \/ AdminUpdateRole(w) \/ AdminUpdateActive(w)
         \/ AdminUpdateRevoke(w) \/ AdminUnlock(w) \/ AdminRevokeSessions(w)
  PROVE  RequestInv'
  <1> DEFINE s == sess[w]
  <1>0. s \in Session /\ s.row \in UserRow
    BY DEF RequestInv, TypeInv, TypeOK, Session
  <1>o. /\ AdminOps \subseteq BearerOps /\ AdminOps \cap SelfOps = {}
        /\ {"admin_update", "admin_unlock", "admin_revoke"} = AdminOps
        /\ "register" \notin AdminOps /\ "deactivate_me" \notin AdminOps
        /\ "admin_sessions_revoked" \in RevokeEvents
    BY OpsApart DEF AdminOps, RevokeEvents
  <1>1. CASE LoadTarget(w)
    <2> DEFINE r == [s EXCEPT !.stage = "loaded"]
               q == [s EXCEPT !.stage = "loaded", !.user = s.target,
                              !.loaded = users[s.target],
                              !.row = users[s.target]]
    <2>1. s.op \in AdminOps /\ s.stage = "authed"
          /\ (Refuse(w, s) \/ Step(w, r) \/ Step(w, q))
      BY <1>1 DEF LoadTarget
    <2>2. /\ Keeps(s, r) /\ r.stage = "loaded" /\ r.user = s.user
          /\ r.event = s.event /\ r.revoke_event = s.revoke_event
          /\ r.issue = s.issue /\ r.loaded = s.loaded /\ r.row = s.row
          /\ Keeps(s, q) /\ q.stage = "loaded" /\ q.event = s.event
          /\ q.revoke_event = s.revoke_event
          /\ q.issue = s.issue /\ q.loaded = q.row
      BY <1>0 DEF Session, Keeps
    <2> HIDE DEF q, r
    <2>3. Changes(r) /\ Changes(q)
      BY <1>o, <2>1, <2>2, SameChanges, NothingChanges DEF Keeps
    <2>4. r.op \notin SelfOps /\ q.op \notin SelfOps
      BY <1>o, <2>1, <2>2 DEF Keeps
    <2> QED BY <1>o, <2>1, <2>2, <2>3, <2>4, Unready, BearerKept, RefuseRequest
  <1>2. CASE AdminUpdateRole(w)
    <2> DEFINE role == IF s.payload.role = "keep" THEN s.row.role
                       ELSE s.payload.role
               r == [s EXCEPT !.stage = "role_done", !.row.role = role]
    <2>1. s.op = "admin_update" /\ s.stage = "loaded"
          /\ (Refuse(w, s) \/ Step(w, r))
      BY <1>2 DEF AdminUpdateRole, InStage
    <2>2. role = s.row.role \/ role = s.payload.role
      OBVIOUS
    <2> HIDE DEF role
    <2>3. /\ Keeps(s, r) /\ r.stage = "role_done" /\ r.user = s.user
          /\ r.event = s.event /\ r.revoke_event = s.revoke_event
          /\ r.issue = s.issue /\ r.loaded = s.loaded
          /\ r.row = [s.row EXCEPT !.role = role]
      BY <1>0 DEF Session, Keeps
    <2> HIDE DEF r
    <2>4. r.row.exists = s.row.exists /\ r.row.role = role
          /\ r.row.password = s.row.password
          /\ r.row.is_active = s.row.is_active
      BY <1>0, <2>3 DEF UserRow
    <2>5. Changes(r)
      BY <2>1, <2>2, <2>3, <2>4, Unready DEF Changes, Keeps
    <2>6. r.op \notin SelfOps
      BY <1>o, <2>1, <2>3 DEF Keeps
    <2> QED BY <1>o, <2>1, <2>3, <2>5, <2>6, Unready, BearerKept, RefuseRequest
  <1>3. CASE AdminUpdateActive(w)
    <2> DEFINE u == Updated(s)
               r == [u EXCEPT !.row.is_active = TRUE,
                              !.row.deactivated = FALSE]
               q == [s EXCEPT !.stage = "revoke", !.row.is_active = FALSE,
                              !.row.deactivated = TRUE]
               active == Switched(s.payload.is_active, s.row.is_active)
    <2>1. s.op = "admin_update" /\ s.stage = "role_done"
          /\ \/ Refuse(w, s) \/ Step(w, u)
             \/ active # s.row.is_active /\ (Step(w, r) \/ Step(w, q))
      BY <1>0, <1>3 DEF AdminUpdateActive, InStage, UserRow
    <2>2. active # s.row.is_active => s.payload.is_active # "keep"
      BY DEF Switched
    <2>3. /\ Keeps(s, u) /\ u.stage = "ready" /\ u.user = s.user
          /\ u.event = "admin_user_updated" /\ u.issue = s.issue
          /\ u.revoke_event = s.revoke_event /\ u.loaded = s.loaded
          /\ u.row.exists = s.row.exists /\ u.row.role = s.row.role
          /\ u.row.password = s.row.password
          /\ u.row.is_active = s.row.is_active
          /\ u.row \in UserRow /\ u \in Session
      BY <1>0, UpdatedKeeps
    <2> HIDE DEF u, active
    <2>4. /\ Keeps(s, r) /\ r.stage = "ready" /\ r.user = s.user
          /\ r.event = "admin_user_updated" /\ r.issue = s.issue
          /\ r.revoke_event = s.revoke_event /\ r.loaded = s.loaded
          /\ r.row = [u.row EXCEPT !.is_active = TRUE, !.deactivated = FALSE]
          /\ Keeps(s, q) /\ q.stage = "revoke" /\ q.user = s.user
          /\ q.event = s.event /\ q.issue = s.issue
          /\ q.revoke_event = s.revoke_event /\ q.loaded = s.loaded
          /\ q.row = [s.row EXCEPT !.is_active = FALSE, !.deactivated = TRUE]
      BY <1>0, <2>3 DEF Session, Keeps
    <2> HIDE DEF r, q
    <2>5. /\ r.row.exists = s.row.exists /\ r.row.role = s.row.role
          /\ r.row.password = s.row.password
          /\ q.row.exists = s.row.exists /\ q.row.role = s.row.role
          /\ q.row.password = s.row.password
      BY <1>0, <2>3, <2>4 DEF UserRow
    <2>6. u.op = "admin_update" /\ r.op = "admin_update"
          /\ q.op = "admin_update" /\ "admin_update" \notin SelfOps
      BY <1>o, <2>1, <2>3, <2>4 DEF Keeps
    <2>7. Changes(u)
      BY <2>1, <2>3, <2>6, SameChanges
    <2>8. s.payload.is_active # "keep" => Changes(r) /\ Changes(q)
      <3>1. Changes(s) /\ s.loaded = r.loaded /\ s.loaded = q.loaded
            /\ r.payload = s.payload /\ q.payload = s.payload
        BY <2>1, <2>4, Unready DEF Keeps
      <3> HIDE DEF s
      <3> QED BY <2>1, <2>5, <2>6, <3>1, ActiveChanges
    <2>9. "admin_update" \in BearerOps
      BY <1>o
    <2>10. ASSUME Step(w, u) PROVE RequestInv'
      BY <2>1, <2>3, <2>6, <2>7, <2>9, <2>10, Unready, BearerKept
    <2>11. ASSUME active # s.row.is_active, Step(w, r) PROVE RequestInv'
      BY <2>1, <2>2, <2>4, <2>6, <2>8, <2>9, <2>11, Unready, BearerKept
    <2>12. ASSUME active # s.row.is_active, Step(w, q) PROVE RequestInv'
      BY <2>1, <2>2, <2>4, <2>6, <2>8, <2>9, <2>12, Unready, BearerKept
    <2> QED BY <2>1, <2>10, <2>11, <2>12, RefuseRequest
  <1>4. CASE AdminUpdateRevoke(w)
    <2> DEFINE q == RevokeAllOf(s, {}, "admin_sessions_revoked")
               r == Updated(q)
    <2>1. s.op = "admin_update" /\ s.stage = "revoke" /\ Step(w, r)
      BY <1>4 DEF AdminUpdateRevoke, InStage
    <2>2. q \in Session /\ q.row = s.row /\ q.loaded = s.loaded
          /\ q.user = s.user /\ Keeps(s, q) /\ q.issue = s.issue
          /\ q.revoke_event \in RevokeEvents
      BY <1>0, <1>o, RevokeAllKeeps DEF Keeps
    <2> HIDE DEF q
    <2>3. /\ Keeps(q, r) /\ r.stage = "ready" /\ r.user = q.user
          /\ r.event = "admin_user_updated" /\ r.issue = q.issue
          /\ r.revoke_event = q.revoke_event /\ r.loaded = q.loaded
          /\ r.row.exists = q.row.exists /\ r.row.role = q.row.role
          /\ r.row.password = q.row.password
          /\ r.row.is_active = q.row.is_active
      BY <2>2, UpdatedKeeps
    <2> HIDE DEF r
    <2>4. Keeps(s, r) /\ r.op = "admin_update"
          /\ "admin_update" \in BearerOps \ SelfOps
      BY <1>o, <2>1, <2>2, <2>3 DEF Keeps
    <2>5. Changes(r)
      BY <2>1, <2>2, <2>3, <2>4, SameChanges
    <2> QED BY <2>1, <2>2, <2>3, <2>4, <2>5, Unready, BearerKept
  <1>5. CASE AdminUnlock(w)
    <2> DEFINE r == [s EXCEPT !.stage = "ready",
                              !.event = "admin_user_unlocked",
                              !.row.failed_attempts = 0,
                              !.row.locked_until = 0]
    <2>1. s.op = "admin_unlock" /\ s.stage = "loaded" /\ Step(w, r)
      BY <1>5 DEF AdminUnlock, InStage
    <2>2. /\ Keeps(s, r) /\ r.stage = "ready" /\ r.user = s.user
          /\ r.event = "admin_user_unlocked" /\ r.issue = s.issue
          /\ r.revoke_event = s.revoke_event /\ r.loaded = s.loaded
          /\ r.row = [s.row EXCEPT !.failed_attempts = 0, !.locked_until = 0]
      BY <1>0 DEF Session, Keeps
    <2> HIDE DEF r
    <2>3. r.row.exists = s.row.exists /\ r.row.role = s.row.role
          /\ r.row.password = s.row.password
          /\ r.row.is_active = s.row.is_active
      BY <1>0, <2>2 DEF UserRow
    <2>4. r.op \in BearerOps \ SelfOps /\ r.op # "register"
      BY <1>o, <2>1, <2>2 DEF Keeps
    <2>5. Changes(r)
      BY <2>1, <2>2, <2>3, <2>4, SameChanges
    <2> QED BY <1>o, <2>1, <2>2, <2>4, <2>5, Unready, BearerKept
  <1>6. CASE AdminRevokeSessions(w)
    <2> DEFINE q == RevokeAllOf(s, {}, "admin_sessions_revoked")
               r == [q EXCEPT !.stage = "ready"]
    <2>1. s.op = "admin_revoke" /\ s.stage = "loaded" /\ Step(w, r)
      BY <1>6 DEF AdminRevokeSessions, InStage
    <2>2. q \in Session /\ q.row = s.row /\ q.loaded = s.loaded
          /\ q.user = s.user /\ Keeps(s, q) /\ q.issue = s.issue
          /\ q.revoke_event \in RevokeEvents /\ q.event = s.event
      BY <1>0, <1>o, RevokeAllKeeps DEF Keeps
    <2> HIDE DEF q
    <2>3. /\ Keeps(s, r) /\ r.stage = "ready" /\ r.user = s.user
          /\ r.event = s.event /\ r.revoke_event = q.revoke_event
          /\ r.issue = s.issue /\ r.loaded = s.loaded /\ r.row = s.row
      BY <2>2 DEF Session, Keeps
    <2> HIDE DEF r
    <2>4. r.op \in BearerOps \ SelfOps /\ r.op # "register"
      BY <1>o, <2>1, <2>3 DEF Keeps
    <2>5. Changes(r)
      BY <2>1, <2>3, <2>4, SameChanges
    <2> QED BY <1>o, <2>1, <2>2, <2>3, <2>4, <2>5, Unready, BearerKept
  <1> QED BY <1>1, <1>2, <1>3, <1>4, <1>5, <1>6

LEMMA BearerRequest ==
  ASSUME RequestInv, TypeInv', NEW w \in Workers, BearerStep(w)
  PROVE  RequestInv'
  BY SelfRequest, AdminRequest DEF BearerStep

\* The session that mails a one-time token holds nothing else.
LEMMA MailTidy ==
  ASSUME NEW r, r.op \in LinkOps, r.stage = "mail", r.loaded = NoRow,
         r.row = NoRow, r.redeem = {}, r.event = "none",
         r.revoke_event = "none", r.issue = NoToken
  PROVE  Tidy(r)
  <1>1. Logs(r)
    BY DEF Logs, IssueEvents, LinkOps, RevokeEvents
  <1>2. Changes(r)
    BY DEF Changes
  <1> QED BY <1>1, <1>2, OpsApart DEF Tidy

LEMMA CommitRequest ==
  ASSUME RequestInv, TypeInv', NEW w \in Workers, Commit(w)
  PROVE  RequestInv'
  <1> DEFINE s == sess[w]
             r == [NoSession EXCEPT !.op = s.op, !.stage = "mail",
                                    !.new_link = s.new_link]
  <1>0. s \in Session /\ ArgumentsOK(s) /\ Tidy(s) /\ Linked(s)
        /\ AloneLink(w, s) /\ s.stage = "ready"
    BY DEF RequestInv, TypeInv, TypeOK, Commit
  <1>1. CASE Refuse(w, NoSession)
    <2>1. NoSession.redeem = {} /\ NoSession.new_link = NoLink
      BY DEF NoSession
    <2>2. Reject(w, NoSession)
      BY <1>1 DEF Refuse
    <2> QED BY <2>1, <2>2, RejectRequest
  <1>2. CASE Write(s) /\ s.new_link = NoLink /\ Close(w) /\ UNCHANGED mail
    <2>1. NoSession.op \notin ConfirmOps /\ NoSession.stage = "idle"
      BY DEF NoSession, ConfirmOps
    <2>2. sess' = [sess EXCEPT ![w] = NoSession]
      BY <1>2 DEF Close
    <2> HIDE DEF s
    <2> QED BY <1>0, <1>2, <2>1, <2>2, TidyNoSession, WriteRequest DEF s
  <1>3. CASE Write(s) /\ s.new_link # NoLink /\ UNCHANGED mail
             /\ sess' = [sess EXCEPT ![w] = r]
    <2>1. s.op \in LinkOps /\ s.new_link \in Links
      BY <1>0, <1>3 DEF ArgumentsOK, Session, LinkRef
    <2>2. PICK q : q = [NoSession EXCEPT !.op = s.op, !.stage = "mail",
                                         !.new_link = s.new_link]
      OBVIOUS
    <2>3. Tidy(q) /\ q.op = s.op /\ q.stage = "mail"
          /\ q.new_link = s.new_link
      <3>1. /\ q.op = s.op /\ q.stage = "mail" /\ q.new_link = s.new_link
            /\ q.loaded = NoRow /\ q.row = NoRow /\ q.redeem = {}
            /\ q.event = "none" /\ q.revoke_event = "none"
            /\ q.issue = NoToken
        BY <2>2 DEF NoSession
      <3> QED BY <2>1, <3>1, MailTidy
    <2>4. sess' = [sess EXCEPT ![w] = q]
      BY <1>3, <2>2 DEF r
    <2>5. q.op \notin ConfirmOps
      BY <2>1, <2>3, OpsApart
    <2> HIDE DEF r
    <2> QED BY <1>0, <1>3, <2>1, <2>3, <2>4, <2>5, WriteRequest
  <1> QED BY <1>1, <1>2, <1>3 DEF Commit

-----------------------------------------------------------------------------
(* Requests arrive                                                         *)

LEMMA ReceiveRequest ==
  ASSUME RequestInv, TypeInv', NEW w \in Workers, NEW r, Receive(w, r),
         r.stage = "begin", r.loaded = NoRow, r.row = NoRow, r.redeem = {},
         r.new_link = NoLink, r.issue = NoToken, r.event = "none",
         r.revoke_event = "none", r.op \in ConfirmOps => r.link \in mail
  PROVE  RequestInv'
  <1>1. Logs(r)
    BY DEF Logs, IssueEvents, LinkOps, RevokeEvents
  <1>2. Changes(r)
    BY DEF Changes
  <1>3. Tidy(r)
    BY <1>1, <1>2 DEF Tidy
  <1>4. Linked(r) /\ AloneLink(w, r) /\ \A k \in Links : ~Redeems(r, k)
    BY Members DEF Linked, AloneLink, Redeems
  <1> QED BY <1>3, <1>4, MoveRequest
          DEF Receive, tables, history, RequestInv, LinkRows

LEMMA ClientRequest ==
  ASSUME RequestInv, TypeInv', NEW w \in Workers, Client(w)
  PROVE  RequestInv'
  <1>o. \A op \in {"register", "login", "refresh", "logout"} \cup LinkOps
                  \cup BearerOps : op \notin ConfirmOps
    BY OpsApart
  <1>b. /\ SelfOps \subseteq BearerOps /\ AdminOps \subseteq BearerOps
        /\ {"patch_me", "deactivate_me", "change_password", "revoke_session",
            "revoke_all"} = SelfOps
        /\ {"admin_unlock", "admin_revoke", "admin_update"} = AdminOps
    BY DEF BearerOps, SelfOps, AdminOps
  <1>10. ASSUME NEW u, NEW pw, NEW op, op \notin ConfirmOps,
               Receive(w, [Request(op) EXCEPT !.user = u, !.password = pw])
        PROVE  RequestInv'
    BY <1>10, ReceiveRequest DEF Request, NoSession
  <1>11. ASSUME NEW t, NEW op, op \notin ConfirmOps,
               Receive(w, [Request(op) EXCEPT !.token = t])
        PROVE  RequestInv'
    BY <1>11, ReceiveRequest DEF Request, NoSession
  <1>12. ASSUME NEW u, NEW op, op \notin ConfirmOps,
               Receive(w, [Request(op) EXCEPT !.user = u])
        PROVE  RequestInv'
    BY <1>12, ReceiveRequest DEF Request, NoSession
  <1>13. ASSUME NEW u, NEW op, op \notin ConfirmOps,
               Receive(w, [Request(op) EXCEPT !.actor = u])
        PROVE  RequestInv'
    BY <1>13, ReceiveRequest DEF Request, NoSession
  <1>14. ASSUME NEW u, NEW pw, NEW new, NEW op, op \notin ConfirmOps,
               Receive(w, [Request(op) EXCEPT !.actor = u, !.password = pw,
                                              !.new_password = new])
        PROVE  RequestInv'
    BY <1>14, ReceiveRequest DEF Request, NoSession
  <1>15. ASSUME NEW u, NEW t, NEW op, op \notin ConfirmOps,
               Receive(w, [Request(op) EXCEPT !.actor = u, !.token = t])
        PROVE  RequestInv'
    BY <1>15, ReceiveRequest DEF Request, NoSession
  <1>16. ASSUME NEW u, NEW x, NEW op, op \notin ConfirmOps,
               Receive(w, [Request(op) EXCEPT !.actor = u, !.target = x])
        PROVE  RequestInv'
    BY <1>16, ReceiveRequest DEF Request, NoSession
  <1>17. ASSUME NEW u, NEW x, NEW p, NEW op, op \notin ConfirmOps,
               Receive(w, [Request(op) EXCEPT !.actor = u, !.target = x,
                                              !.payload = p])
        PROVE  RequestInv'
    BY <1>17, ReceiveRequest DEF Request, NoSession
  <1>18. ASSUME NEW k \in mail, NEW op,
               Receive(w, [Request(op) EXCEPT !.link = k])
        PROVE  RequestInv'
    BY <1>18, ReceiveRequest DEF Request, NoSession
  <1>19. ASSUME NEW k \in mail, NEW pw, NEW op,
               Receive(w, [Request(op) EXCEPT !.link = k,
                                              !.new_password = pw])
        PROVE  RequestInv'
    BY <1>19, ReceiveRequest DEF Request, NoSession
  <1>1. CASE ReceiveCredentials(w)
    BY <1>1, <1>10, <1>o DEF ReceiveCredentials
  <1>2. CASE ReceiveRefreshToken(w)
    BY <1>2, <1>11, <1>o DEF ReceiveRefreshToken
  <1>3. CASE ReceiveAddress(w)
    BY <1>3, <1>12, <1>o DEF ReceiveAddress
  <1>4. CASE ReceiveLink(w)
    BY <1>4, <1>18, <1>19 DEF ReceiveLink
  <1>5. CASE ReceiveSelf(w)
    BY <1>5, <1>13, <1>14, <1>15, <1>o, <1>b DEF ReceiveSelf
  <1>6. CASE ReceiveAdmin(w)
    BY <1>6, <1>16, <1>17, <1>o, <1>b DEF ReceiveAdmin
  <1> QED BY <1>1, <1>2, <1>3, <1>4, <1>5, <1>6 DEF Client

-----------------------------------------------------------------------------
LEMMA InitRequest == Init => RequestInv
  <1> SUFFICES ASSUME Init PROVE RequestInv
    OBVIOUS
  <1>1. \A w \in Workers : sess[w] = NoSession
    BY DEF Init
  <1>2. LinkRows
    BY DEF Init, LinkRows
  <1>3. RedeemCounted
    <2> SUFFICES ASSUME NEW k \in Links
                 PROVE  redeemed[k] + Cardinality(Redeeming(k))
                          <= Cardinality(Workers)
      BY DEF RedeemCounted
    <2>1. redeemed[k] = 0
      BY DEF Init
    <2> QED BY <2>1, FiniteRedeeming
  <1> QED BY <1>1, <1>2, <1>3, TidyNoSession, InitType DEF RequestInv

LEMMA NextRequest == RequestInv /\ [Next]_vars => RequestInv'
  <1> SUFFICES ASSUME RequestInv, [Next]_vars PROVE RequestInv'
    OBVIOUS
  <1>1. TypeInv'
    BY NextType DEF RequestInv
  <1>2. ASSUME NEW w \in Workers, Client(w) PROVE RequestInv'
    BY <1>1, <1>2, ClientRequest
  <1>3. ASSUME NEW w \in Workers, Handle(w) PROVE RequestInv'
    BY <1>1, <1>3, PublicRequest, BearerRequest, CommitRequest DEF Handle
  <1>4. CASE Tick \/ UNCHANGED vars
    <2>1. UNCHANGED <<sess, links, mail, redeemed>>
      BY <1>4 DEF Tick, vars, tables, history
    <2>2. \A w \in Workers : Tidy(sess[w])'
      BY <2>1 DEF RequestInv, Tidy, Logs, Changes
    <2>3. \A w \in Workers : Linked(sess[w])' /\ AloneLink(w, sess[w])'
      BY <2>1 DEF RequestInv, Linked, AloneLink, Sent
    <2>4. LinkRows' /\ RedeemCounted'
      BY <2>1 DEF RequestInv, LinkRows, RedeemCounted, Redeeming, Redeems, Sent
    <2> QED BY <1>1, <2>2, <2>3, <2>4 DEF RequestInv
  <1> QED BY <1>2, <1>3, <1>4 DEF Next, Quiet

\* A one-time token that the code checks and uses with no lock in between
\* takes effect at most once for every thread, whatever their number.
THEOREM RedemptionsAreBounded == Spec => []RedemptionsBounded
  <1>1. RequestInv => RedemptionsBounded
    <2> SUFFICES ASSUME RequestInv, NEW k \in Links
                 PROVE  redeemed[k] <= Cardinality(Workers)
      BY DEF RedemptionsBounded
    <2>1. redeemed[k] \in Nat
      BY DEF RequestInv, TypeInv, TypeOK
    <2> QED BY <2>1, FiniteRedeeming DEF RequestInv, RedeemCounted
  <1> QED BY <1>1, InitRequest, NextRequest, PTL DEF Spec

\* No mail goes out for a one-time token that is not in the database, and
\* none takes effect that was not mailed.
THEOREM MailIsBacked == Spec => []MailFollowsCommit
  <1>1. RequestInv => MailFollowsCommit
    BY DEF RequestInv, LinkRows, MailFollowsCommit
  <1> QED BY <1>1, InitRequest, NextRequest, PTL DEF Spec

-----------------------------------------------------------------------------
(* In the server only a commit reaches the tables                          *)

Commits(w) ==
  /\ sess[w].stage = "ready" /\ Write(sess[w])
  /\ ~(sess[w].op = "register" /\ users[sess[w].user].exists)

LEMMA OnlyCommitsWrite ==
  ASSUME RollbackOnError, [Next]_vars
  PROVE  UNCHANGED tables \/ \E w \in Workers : Commits(w)
  <1>1. ASSUME NEW w \in Workers, Client(w) PROVE UNCHANGED tables
    BY <1>1 DEF Client, ReceiveCredentials, ReceiveRefreshToken,
       ReceiveAddress, ReceiveLink, ReceiveSelf, ReceiveAdmin, Receive
  <1>2. ASSUME NEW w \in Workers, NEW s, Reject(w, s) \/ Refuse(w, s)
               \/ Step(w, s)
        PROVE  UNCHANGED tables
    BY <1>2 DEF Reject, Refuse, Step
  <1>3. ASSUME NEW w \in Workers, PublicStep(w) PROVE UNCHANGED tables
    BY <1>2, <1>3 DEF PublicStep, RegisterUser, Login, RefreshToken,
       RefreshUser, Logout, RequestLink, SendEmail, ConfirmLink,
       ConfirmLinkUser
  <1>4. ASSUME NEW w \in Workers, BearerStep(w) PROVE UNCHANGED tables
    BY <1>2, <1>4 DEF BearerStep, Authenticate, PatchMe, ChangePassword,
       DeactivateMe, RevokeSession, RevokeAllSessions, LoadTarget,
       AdminUpdateRole, AdminUpdateActive, AdminUpdateRevoke, AdminUnlock,
       AdminRevokeSessions
  <1>5. ASSUME NEW w \in Workers, Commit(w)
        PROVE  UNCHANGED tables \/ Commits(w)
    BY <1>2, <1>5 DEF Commit, Commits
  <1>6. CASE Tick \/ Quiet \/ UNCHANGED vars
    BY <1>6 DEF Tick, Quiet, vars
  <1> QED BY <1>1, <1>3, <1>4, <1>5, <1>6 DEF Next, Handle

\* An old value never comes back: in the server the password, the role or the
\* activity of an account changes only by a request that was sent to change
\* it, for the right person, however the requests around it overlap.
THEOREM ChangesAreOwned == RollbackOnError => (Spec => OnlyOwnersWrite)
  <1> SUFFICES ASSUME RollbackOnError PROVE Spec => OnlyOwnersWrite
    OBVIOUS
  <1> DEFINE Owned(u) ==
       /\ users'[u].password # users[u].password =>
            \E w \in Workers : PasswordOwner(w, u)
       /\ users'[u].role # users[u].role =>
            \E w \in Workers : Committing(w, {"admin_update"}, u)
                              /\ sess[w].payload.role = users'[u].role
       /\ users'[u].is_active # users[u].is_active =>
            \E w \in Workers :
              \/ Committing(w, {"admin_update"}, u)
                 /\ sess[w].payload.is_active # "keep"
              \/ Committing(w, {"deactivate_me"}, u) /\ sess[w].actor = u
  <1>1. ASSUME RequestInv, NEW w \in Workers, Commits(w), NEW u \in Users
        PROVE  /\ users'[u].password # users[u].password => PasswordOwner(w, u)
               /\ users'[u].role # users[u].role =>
                    /\ Committing(w, {"admin_update"}, u)
                    /\ sess[w].payload.role = users'[u].role
               /\ users'[u].is_active # users[u].is_active =>
                    \/ Committing(w, {"admin_update"}, u)
                       /\ sess[w].payload.is_active # "keep"
                    \/ Committing(w, {"deactivate_me"}, u) /\ sess[w].actor = u
    <2> DEFINE s == sess[w]
    <2>1. Changes(s) /\ Linked(s) /\ s.stage = "ready"
      BY <1>1 DEF RequestInv, Tidy, Commits
    <2>2. users'[u] = IF u = s.user THEN Merge(users[u], s.loaded, s.row)
                      ELSE users[u]
      BY <1>1 DEF Commits, Write
    <2>3. CASE u # s.user
      BY <2>2, <2>3
    <2>4. CASE u = s.user
      <3>1. /\ users'[u].password # users[u].password =>
                 s.row.password # s.loaded.password
            /\ users'[u].role # users[u].role =>
                 s.row.role # s.loaded.role /\ users'[u].role = s.row.role
            /\ users'[u].is_active # users[u].is_active =>
                 s.row.is_active # s.loaded.is_active
        BY <2>2, <2>4 DEF Merge
      <3>2. s.row.password # s.loaded.password => PasswordOwner(w, u)
        <4>1. s.op = "password_reset_confirm" =>
                s.link \in mail /\ links[s.link].user = u
                /\ links[s.link].kind = "password_reset_request"
          BY <2>1, <2>4 DEF Linked, ConfirmOps, KindOf
        <4>2. s.op = "register" => ~users[u].exists
          BY <1>1, <2>4 DEF Commits
        <4> QED BY <2>1, <2>4, <4>1, <4>2
                DEF Changes, PasswordOwner, Committing
      <3>3. s.row.role # s.loaded.role =>
              s.op = "admin_update" /\ s.payload.role = s.row.role
        BY <2>1 DEF Changes
      <3>4. s.row.is_active # s.loaded.is_active =>
              \/ s.op = "admin_update" /\ s.payload.is_active # "keep"
              \/ s.op = "deactivate_me" /\ s.user = s.actor
        BY <2>1 DEF Changes
      <3> QED BY <2>1, <2>4, <3>1, <3>2, <3>3, <3>4 DEF Committing
    <2> QED BY <2>3, <2>4
  <1>2. RequestInv /\ [Next]_vars => [\A u \in Users : Owned(u)]_vars
    <2> SUFFICES ASSUME RequestInv, [Next]_vars, NEW u \in Users
                 PROVE  Owned(u)
      OBVIOUS
    <2>1. CASE UNCHANGED tables
      BY <2>1 DEF tables
    <2> QED BY <1>1, <2>1, OnlyCommitsWrite
  <1> QED BY <1>2, InitRequest, NextRequest, PTL DEF Spec, OnlyOwnersWrite

-----------------------------------------------------------------------------
(* The audit trail                                                         *)

\* What a commit adds to the events the tables are counted by.
LEMMA WriteCounts ==
  ASSUME TypeOK, NEW s \in Session, Logs(s), s.stage = "ready", Write(s)
  PROVE  /\ audit'["register"] = audit["register"] + One(s.op = "register")
         /\ audit'["login_success"] + audit'["token_refresh"]
              = audit["login_success"] + audit["token_refresh"]
                  + One(s.issue # NoToken)
         /\ audit'["verify_email_request"] + audit'["password_reset_request"]
              = audit["verify_email_request"] + audit["password_reset_request"]
                  + One(s.new_link # NoLink)
         /\ audit'["login_failure"] = audit["login_failure"]
  <1>1. \A a \in AuditEventType :
          audit[a] \in Nat
          /\ audit'[a] = audit[a] + One(a = s.event) + One(a = s.revoke_event)
    BY DEF Write, TypeOK
  <1>2. \A a \in AuditEventType \ RevokeEvents :
          audit'[a] = audit[a] + One(a = s.event)
    BY <1>1 DEF Logs, One
  <1>3. {"register", "login_success", "token_refresh", "verify_email_request",
         "password_reset_request", "login_failure"}
          \subseteq AuditEventType \ RevokeEvents
    BY DEF AuditEventType, RevokeEvents
  <1>4. /\ s.event = "register" <=> s.op = "register"
        /\ s.event \in {"login_success", "token_refresh"} <=>
             s.issue # NoToken
        /\ s.event \in {"verify_email_request", "password_reset_request"} <=>
             s.new_link # NoLink
        /\ s.event # "login_failure"
    BY DEF Logs, IssueEvents, LinkOps
  <1>5. audit'["register"] = audit["register"] + One(s.op = "register")
    BY <1>2, <1>3, <1>4
  <1>6. audit'["login_success"] + audit'["token_refresh"]
          = audit["login_success"] + audit["token_refresh"]
              + One(s.issue # NoToken)
    BY <1>1, <1>2, <1>3, <1>4 DEF One
  <1>7. audit'["verify_email_request"] + audit'["password_reset_request"]
          = audit["verify_email_request"] + audit["password_reset_request"]
              + One(s.new_link # NoLink)
    BY <1>1, <1>2, <1>3, <1>4 DEF One
  <1>8. audit'["login_failure"] = audit["login_failure"]
    BY <1>1, <1>2, <1>3, <1>4 DEF One
  <1> QED BY <1>5, <1>6, <1>7, <1>8

\* A set that gains one new member or stays what it was.
LEMMA GainOne ==
  ASSUME NEW S, IsFiniteSet(S), NEW x, NEW P \in BOOLEAN, P => x \notin S,
         NEW T, T = IF P THEN S \cup {x} ELSE S
  PROVE  IsFiniteSet(T) /\ Cardinality(T) = Cardinality(S) + One(P)
  <1>1. Cardinality(S) \in Nat
    BY FS_CardinalityType
  <1>2. CASE P
    BY <1>2, FS_AddElement DEF One
  <1>3. CASE ~P
    BY <1>1, <1>3 DEF One
  <1> QED BY <1>2, <1>3

LEMMA CommitAudited ==
  ASSUME TokenInv, RequestInv, AuditInv, NEW w \in Workers, Commits(w)
  PROVE  AuditInv'
  <1> PICK s : s = sess[w]
    OBVIOUS
  <1>0. /\ s \in Session /\ ArgumentsOK(s) /\ Tidy(s) /\ Linked(s)
        /\ Pending(s) /\ s.stage = "ready" /\ Write(s)
        /\ ~(s.op = "register" /\ users[s.user].exists)
        /\ TypeOK
    BY DEF RequestInv, TypeInv, TypeOK, TokenInv, Commits
  <1>f. IsFiniteSet(Users) /\ IsFiniteSet(Tokens)
    BY FiniteAssumption DEF FiniteAssumption
  <1>1. s.op = "register" =>
          s.user \in Users /\ s.row.exists /\ ~s.loaded.exists
    BY <1>0 DEF ArgumentsOK, AccountOps, Tidy, Changes
  <1>2. \A u \in Users :
          users'[u].exists = (users[u].exists \/ (s.op = "register" /\ u = s.user))
    <2> TAKE u \in Users
    <2>1. users[u].exists \in BOOLEAN
      BY <1>0 DEF TypeOK, UserRow
    <2>2. users'[u] = IF u = s.user THEN Merge(users[u], s.loaded, s.row)
                      ELSE users[u]
      BY <1>0 DEF Write
    <2>3. s.op # "register" => s.row.exists = s.loaded.exists
      BY <1>0 DEF Tidy, Changes
    <2>4. s.row.exists \in BOOLEAN /\ s.loaded.exists \in BOOLEAN
      BY <1>0 DEF Session, UserRow
    <2> QED BY <1>1, <2>1, <2>2, <2>3, <2>4 DEF Merge
  <1>3. audit'["register"] = Cardinality(NewAccounts')
    <2> DEFINE P == s.op = "register"
    <2>1. IsFiniteSet(NewAccounts) /\ audit["register"] = Cardinality(NewAccounts)
      BY <1>f, FS_Subset DEF NewAccounts, AuditInv, AuditMatchesTables
    <2>2. P => s.user \in Users /\ ~users[s.user].exists
               /\ s.user \notin SeedAdmins \cup SeedMembers
      BY <1>0, <1>1 DEF AuditInv
    <2>3. NewAccounts' = IF P THEN NewAccounts \cup {s.user} ELSE NewAccounts
      BY <1>2, <2>2 DEF NewAccounts
    <2>4. P => s.user \notin NewAccounts
      BY <2>2 DEF NewAccounts
    <2>5. Cardinality(NewAccounts') = Cardinality(NewAccounts) + One(P)
      BY <2>1, <2>3, <2>4, GainOne
    <2> QED BY <1>0, <2>1, <2>5, WriteCounts DEF Tidy
  <1>4. audit'["login_success"] + audit'["token_refresh"]
          = Cardinality(IssuedTokens')
    <2> DEFINE P == s.issue # NoToken
    <2>1. IsFiniteSet(IssuedTokens)
          /\ audit["login_success"] + audit["token_refresh"]
               = Cardinality(IssuedTokens)
      BY <1>f, FS_Subset DEF IssuedTokens, AuditInv, AuditMatchesTables
    <2>2. P => s.issue \in Tokens /\ ~Issued(s.issue) /\ s.user \in Users
      BY <1>0 DEF Pending, Session, TokenRef
    <2>3. \A t \in Tokens :
            refresh_tokens'[t].user = IF t = s.issue THEN s.user
                                      ELSE refresh_tokens[t].user
      BY <1>0 DEF Write, TypeOK, RefreshRow
    <2>4. IssuedTokens' = IF P THEN IssuedTokens \cup {s.issue}
                          ELSE IssuedTokens
      BY <2>2, <2>3, Members DEF IssuedTokens, Issued
    <2>5. P => s.issue \notin IssuedTokens
      BY <2>2 DEF IssuedTokens
    <2>6. Cardinality(IssuedTokens') = Cardinality(IssuedTokens) + One(P)
      BY <2>1, <2>4, <2>5, GainOne
    <2> QED BY <1>0, <2>1, <2>6, WriteCounts DEF Tidy
  <1>5. audit'["verify_email_request"] + audit'["password_reset_request"]
          = Cardinality(SentLinks') /\ IsFiniteSet(SentLinks')
    <2> DEFINE P == s.new_link # NoLink
    <2>1. IsFiniteSet(SentLinks)
          /\ audit["verify_email_request"] + audit["password_reset_request"]
               = Cardinality(SentLinks)
      BY DEF SentLinks, AuditInv, AuditMatchesTables
    <2>2. P => s.new_link \in Links
      BY <1>0 DEF Session, LinkRef
    <2>3. /\ P => ~Sent(s.new_link) /\ Sent(s.new_link)'
          /\ \A k \in Links : /\ Sent(k) => Sent(k)'
                              /\ k # s.new_link /\ ~Sent(k) => ~Sent(k)'
      <3>1. /\ s.new_link \in Links => ~Sent(s.new_link) /\ Sent(s.new_link)'
            /\ \A k \in Links : /\ Sent(k) => Sent(k)'
                                /\ k # s.new_link /\ ~Sent(k) => ~Sent(k)'
        BY <1>0, WriteLinks
      <3> QED BY <2>2, <3>1
    <2>4. SentLinks' = IF P THEN SentLinks \cup {s.new_link} ELSE SentLinks
      <3>1. \A k \in Links : Sent(k)' <=> Sent(k) \/ (P /\ k = s.new_link)
        BY <2>2, <2>3, Members
      <3> QED BY <2>2, <3>1 DEF SentLinks
    <2>5. P => s.new_link \notin SentLinks
      BY <2>3 DEF SentLinks
    <2>6. IsFiniteSet(SentLinks')
          /\ Cardinality(SentLinks') = Cardinality(SentLinks) + One(P)
      BY <2>1, <2>4, <2>5, GainOne
    <2> QED BY <1>0, <2>1, <2>6, WriteCounts DEF Tidy
  <1>6. audit'["login_failure"] = 0
    BY <1>0, WriteCounts DEF Tidy, AuditInv, AuditMatchesTables
  <1>7. \A u \in SeedAdmins \cup SeedMembers : users'[u].exists
    BY <1>2, ConstantsAssumption DEF ConstantsAssumption, AuditInv
  <1> QED BY <1>3, <1>4, <1>5, <1>6, <1>7
          DEF AuditInv, AuditMatchesTables, IssuedTokens, SentLinks

LEMMA InitAudited == Init => AuditInv
  <1> SUFFICES ASSUME Init PROVE AuditInv
    OBVIOUS
  <1>1. NewAccounts = {} /\ IssuedTokens = {} /\ SentLinks = {}
    BY DEF Init, Seed, NewAccounts, IssuedTokens, SentLinks, Issued, Sent,
       NoRow, NewUser, NoRefreshRow, NoLinkRow
  <1>2. IsFiniteSet(SentLinks) /\ Cardinality({}) = 0
    BY <1>1, FS_EmptySet
  <1>3. \A a \in AuditEventType : audit[a] = 0
    BY DEF Init
  <1>4. {"register", "login_success", "token_refresh", "verify_email_request",
         "password_reset_request", "login_failure"} \subseteq AuditEventType
    BY DEF AuditEventType
  <1>5. \A u \in SeedAdmins \cup SeedMembers : users[u].exists
    BY ConstantsAssumption
    DEF Init, Seed, NewUser, ConstantsAssumption
  <1> QED BY <1>1, <1>2, <1>3, <1>4, <1>5
          DEF AuditInv, AuditMatchesTables, IssuedTokens, SentLinks

\* In the server the audit trail and the tables tell the same story: an
\* account, a refresh token or a one-time token is inserted exactly when its
\* event is logged, and a request that fails logs nothing.
THEOREM AuditIsTrue == RollbackOnError => (Spec => []AuditMatchesTables)
  <1> SUFFICES ASSUME RollbackOnError PROVE Spec => []AuditMatchesTables
    OBVIOUS
  <1>1. TokenInv /\ RequestInv /\ AuditInv /\ [Next]_vars => AuditInv'
    <2> SUFFICES ASSUME TokenInv, RequestInv, AuditInv, [Next]_vars
                 PROVE  AuditInv'
      OBVIOUS
    <2>1. CASE UNCHANGED tables
      BY <2>1
      DEF tables, AuditInv, AuditMatchesTables, NewAccounts, SentLinks, Sent,
          Issued
    <2> QED BY <2>1, OnlyCommitsWrite, CommitAudited
  <1>2. AuditInv => AuditMatchesTables
    BY DEF AuditInv
  <1> QED BY <1>1, <1>2, InitAudited, InitRequest, NextRequest, InitTokens,
             TokensKept, PTL DEF Spec
=============================================================================
