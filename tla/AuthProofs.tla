----------------------------- MODULE AuthProofs -----------------------------
(***************************************************************************)
(* Proofs about AuthSystem for every value of its constants: any number of *)
(* users, workers, tokens, any bounds, with and without the rollback.      *)
(***************************************************************************)
EXTENDS AuthSystem, TLAPS

(* Type correctness.  TypeOK alone is not inductive: a handler uses a row  *)
(* it found by an argument of its request, so the arguments that each      *)
(* operation relies on must be there.                                      *)

AccountOps == {"register", "login"} \cup LinkOps

ArgumentsOK(s) ==
  /\ s.op \in AccountOps /\ s.stage # "mail" => s.user \in Users
  /\ s.stage \in {"token_read", "link_read", "authed", "loaded", "role_done",
                  "revoke"} => s.user \in Users
  /\ s.op \in {"refresh", "logout", "revoke_session"} => s.token \in Tokens
  /\ s.op \in ConfirmOps => s.link \in Links
  /\ s.op \in BearerOps => s.actor \in Users
  /\ s.op \in AdminOps => s.target \in Users
  /\ s.new_link # NoLink => s.op \in LinkOps
  /\ s.stage = "mail" => s.new_link \in Links

TypeInv == TypeOK /\ \A w \in Workers : ArgumentsOK(sess[w])

-----------------------------------------------------------------------------
LEMMA NoRowType == NoRow \in UserRow
  BY DEF NoRow, NewUser, UserRow, Role, PasswordRef

LEMMA NewUserType == ASSUME NEW pw \in Passwords PROVE NewUser(pw) \in UserRow
  BY DEF NewUser, UserRow, Role, PasswordRef

LEMMA NoSessionType == NoSession \in Session /\ ArgumentsOK(NoSession)
  <1>1. NoPayload \in AdminUserUpdateRequest
    BY DEF NoPayload, AdminUserUpdateRequest, Switch
  <1>2. NoSession \in Session
    BY <1>1, NoRowType DEF NoSession, Session, Op, Stage, Event, UserRef,
       PasswordRef, TokenRef, LinkRef
  <1>3. ArgumentsOK(NoSession)
    BY DEF ArgumentsOK, NoSession, AccountOps, LinkOps, ConfirmOps, BearerOps,
           SelfOps, AdminOps
  <1> QED BY <1>2, <1>3

LEMMA MergeType ==
  ASSUME NEW db \in UserRow, NEW loaded \in UserRow, NEW row \in UserRow
  PROVE  Merge(db, loaded, row) \in UserRow
  BY DEF Merge, UserRow

\* What a transaction writes has the types of the tables.
LEMMA WriteType ==
  ASSUME TypeOK, NEW s \in Session, ArgumentsOK(s), Write(s)
  PROVE  /\ users' \in [Users -> UserRow]
         /\ refresh_tokens' \in [Tokens -> RefreshRow]
         /\ links' \in [Links -> LinkRow]
         /\ audit' \in [AuditEventType -> Nat]
         /\ access' \in [Users -> Nat]
         /\ parent' \in [Tokens -> TokenRef]
         /\ cut' \subseteq Tokens
         /\ redeemed' \in [Links -> Nat]
  <1> USE NumbersAssumption, ConstantsAssumption
      DEF NumbersAssumption, ConstantsAssumption
  <1>1. users' \in [Users -> UserRow]
    BY MergeType DEF Write, TypeOK, Session
  <1>2. refresh_tokens' \in [Tokens -> RefreshRow]
    <2> DEFINE new == [user |-> s.user, revoked |-> FALSE,
                       expires |-> s.at + REFRESH_TOKEN_EXPIRES]
    <2>1. new \in RefreshRow
      BY DEF Session, RefreshRow
    <2>2. \A t \in Tokens : /\ refresh_tokens[t] \in RefreshRow
                          /\ [refresh_tokens[t] EXCEPT !.revoked = TRUE]
                               \in RefreshRow
      BY DEF TypeOK, RefreshRow
    <2> HIDE DEF new
    <2>3. refresh_tokens' = [t \in Tokens |->
            IF t = s.issue THEN new
            ELSE IF t \in s.revoke
                 THEN [refresh_tokens[t] EXCEPT !.revoked = TRUE]
                 ELSE refresh_tokens[t]]
      BY DEF Write, new
    <2> QED BY <2>1, <2>2, <2>3
  <1>3. links' \in [Links -> LinkRow]
    <2> DEFINE new == [kind |-> s.op, user |-> s.user, used |-> FALSE,
                       expires |-> LinkExpires(s)]
    <2>1. LinkExpires(s) \in Nat
      BY DEF LinkExpires, Session
    <2>2. ASSUME NEW k \in Links, k = s.new_link PROVE new \in LinkRow
      BY <2>1, <2>2 DEF ArgumentsOK, Session, LinkRow
    <2>3. \A k \in Links : /\ links[k] \in LinkRow
                         /\ [links[k] EXCEPT !.used = TRUE] \in LinkRow
      BY DEF TypeOK, LinkRow
    <2> HIDE DEF new
    <2>4. links' = [k \in Links |->
            IF k = s.new_link THEN new
            ELSE IF k \in s.redeem THEN [links[k] EXCEPT !.used = TRUE]
                 ELSE links[k]]
      BY DEF Write, new
    <2> QED BY <2>2, <2>3, <2>4
  <1>4. audit' \in [AuditEventType -> Nat]
    BY DEF Write, TypeOK, One
  <1>5. access' \in [Users -> Nat]
    BY DEF Write, TypeOK, Session, Later
  <1>6. parent' \in [Tokens -> TokenRef] /\ cut' \subseteq Tokens
    BY DEF Write, TypeOK, Session
  <1>7. redeemed' \in [Links -> Nat]
    BY DEF Write, TypeOK, One
  <1> QED BY <1>1, <1>2, <1>3, <1>4, <1>5, <1>6, <1>7
-----------------------------------------------------------------------------
(* The three ways a handler moves keep TypeInv, provided the session it    *)
(* moves to is well formed.                                                *)

LEMMA StepType ==
  ASSUME TypeInv, NEW w \in Workers, NEW s \in Session, ArgumentsOK(s),
         Step(w, s)
  PROVE  TypeInv'
  BY DEF TypeInv, TypeOK, Step, tables, history, ArgumentsOK

LEMMA CloseType ==
  ASSUME TypeInv, NEW w \in Workers, Close(w)
  PROVE  sess' \in [Workers -> Session] /\ \A v \in Workers : ArgumentsOK(sess[v])'
  BY NoSessionType DEF TypeInv, TypeOK, Close, ArgumentsOK

LEMMA RejectType ==
  ASSUME TypeInv, NEW w \in Workers, NEW s \in Session, ArgumentsOK(s),
         Reject(w, s),
         misses' \in [Users -> [count : Nat, last : Nat]]
  PROVE  TypeInv'
  <1>1. sess' \in [Workers -> Session] /\ \A v \in Workers : ArgumentsOK(sess[v])'
    BY CloseType DEF Reject
  <1>2. CASE UNCHANGED <<tables, history>>
    BY <1>1, <1>2 DEF TypeInv, TypeOK, Reject, tables, history
  <1>3. CASE Write(s)
    BY <1>1, <1>3, WriteType DEF TypeInv, TypeOK, Reject
  <1> QED BY <1>2, <1>3 DEF Reject

LEMMA RefuseType ==
  ASSUME TypeInv, NEW w \in Workers, NEW s \in Session, ArgumentsOK(s),
         Refuse(w, s)
  PROVE  TypeInv'
  BY RejectType DEF Refuse, TypeInv, TypeOK
-----------------------------------------------------------------------------
(* One lemma for the handlers of each module.                              *)

LEMMA Members ==
  /\ NoUser \notin Users /\ NoToken \notin Tokens /\ NoLink \notin Links
  /\ Users \subseteq UserRef /\ Passwords \subseteq PasswordRef
  /\ Tokens \subseteq TokenRef /\ Links \subseteq LinkRef
  /\ "begin" \in Stage /\ "token_read" \in Stage /\ "link_read" \in Stage
  /\ "authed" \in Stage /\ "loaded" \in Stage /\ "role_done" \in Stage
  /\ "revoke" \in Stage /\ "ready" \in Stage /\ "mail" \in Stage
  /\ "none" \in Event
  BY ConstantsAssumption
  DEF ConstantsAssumption, UserRef, PasswordRef, TokenRef, LinkRef, Stage, Event

LEMMA Events ==
  /\ "register" \in Event /\ "login_success" \in Event
  /\ "login_failure" \in Event /\ "token_refresh" \in Event
  /\ "logout" \in Event /\ "verify_email_success" \in Event
  /\ "password_reset_success" \in Event /\ "profile_updated" \in Event
  /\ "password_changed" \in Event /\ "account_deactivated" \in Event
  /\ "session_revoked" \in Event /\ "admin_user_updated" \in Event
  /\ "admin_user_unlocked" \in Event /\ "admin_sessions_revoked" \in Event
  /\ LinkOps \subseteq Event
  BY DEF Event, AuditEventType, LinkOps

LEMMA RowUpdates ==
  ASSUME NEW row \in UserRow
  PROVE  /\ [row EXCEPT !.failed_attempts = 0, !.locked_until = 0] \in UserRow
         /\ \A n \in Nat : [row EXCEPT !.failed_attempts = n] \in UserRow
         /\ \A n \in Nat : [row EXCEPT !.locked_until = n,
                                       !.failed_attempts = 0] \in UserRow
         /\ \A b \in BOOLEAN : [row EXCEPT !.is_verified = b] \in UserRow
         /\ \A pw \in PasswordRef : [row EXCEPT !.password = pw] \in UserRow
         /\ \A r \in Role : [row EXCEPT !.role = r] \in UserRow
         /\ \A b, c \in BOOLEAN :
              [row EXCEPT !.is_active = b, !.deactivated = c] \in UserRow
  BY DEF UserRow

LEMMA LoginRows ==
  ASSUME TypeOK, NEW row \in UserRow
  PROVE  Missed(row) \in UserRow /\ Unlocked(row) \in UserRow
  <1>1. row.failed_attempts + 1 \in Nat /\ now + LOCKOUT_TIME \in Nat
    BY NumbersAssumption DEF NumbersAssumption, TypeOK, UserRow
  <1> QED BY <1>1, RowUpdates DEF Missed, Unlocked

\* The rows a request is about, once its argument names them.
LEMMA Rows ==
  ASSUME TypeOK
  PROVE  /\ \A u \in Users : users[u] \in UserRow
         /\ \A t \in Tokens : Issued(t) => refresh_tokens[t].user \in Users
         /\ \A k \in Links : Sent(k) => links[k].user \in Users
  BY DEF TypeOK, Issued, Sent, RefreshRow, LinkRow, UserRef

-----------------------------------------------------------------------------
(* One lemma for the handlers of each module.                              *)

LEMMA LoginType ==
  ASSUME TypeInv, NEW w \in Workers, Login(w)
  PROVE  TypeInv'
  <1> DEFINE s == sess[w]
             db == users[s.user]
             Loaded(row, event) ==
               [s EXCEPT !.loaded = db, !.row = row, !.event = event]
  <1>0. s \in Session /\ ArgumentsOK(s) /\ TypeOK
    BY DEF TypeInv, TypeOK
  <1>1. s.op = "login" /\ s.stage = "begin" /\ s.user \in Users
    BY <1>0 DEF Login, InStage, ArgumentsOK, AccountOps
  <1>2. db \in UserRow /\ Missed(db) \in UserRow /\ Unlocked(db) \in UserRow
    BY <1>0, <1>1, Rows, LoginRows
  <1>3. ASSUME NEW row \in UserRow, NEW event \in Event
        PROVE  Loaded(row, event) \in Session /\ ArgumentsOK(Loaded(row, event))
    <2>1. Loaded(row, event) \in Session
      BY <1>0, <1>2 DEF Session
    <2>2. ArgumentsOK(Loaded(row, event))
      BY <1>0 DEF ArgumentsOK, Session
    <2> QED BY <2>1, <2>2
  <1>4. [s EXCEPT !.event = "login_failure"] \in Session
        /\ ArgumentsOK([s EXCEPT !.event = "login_failure"])
    BY <1>0, Events DEF ArgumentsOK, Session
  <1>5. CASE Refuse(w, [s EXCEPT !.event = "login_failure"])
    BY <1>0, <1>4, <1>5, RefuseType DEF TypeInv
  <1>6. CASE Refuse(w, Loaded(db, "login_failure"))
    BY <1>2, <1>3, <1>6, Events, RefuseType
  <1>7. CASE Reject(w, Loaded(Missed(db), "login_failure")) /\ CountMiss(s.user)
    <2> DEFINE m == misses[s.user]
               c == [count |-> IF m.count >= LOCKOUT_THRESHOLD
                               THEN 1 ELSE m.count + 1,
                     last |-> now]
    <2>0. c \in [count : Nat, last : Nat]
      BY <1>0, <1>1 DEF TypeOK
    <2>1. misses' \in [Users -> [count : Nat, last : Nat]]
      <3>1. misses' = [misses EXCEPT ![s.user] = c]
        BY <1>7 DEF CountMiss
      <3> HIDE DEF c
      <3> QED BY <1>0, <2>0, <3>1 DEF TypeOK
    <2> QED BY <1>2, <1>3, <1>7, <2>1, Events, RejectType
  <1>8. CASE Reject(w, Loaded(Unlocked(db), "login_success"))
             /\ misses' = [misses EXCEPT ![s.user] = NoMisses]
    <2>1. misses' \in [Users -> [count : Nat, last : Nat]]
      BY <1>0, <1>8 DEF NoMisses, TypeOK
    <2> QED BY <1>2, <1>3, <1>8, <2>1, Events, RejectType
  <1>9. ASSUME NEW t \in Tokens,
               Step(w, [Loaded(Unlocked(db), "login_success") EXCEPT
                        !.stage = "ready", !.issue = t, !.at = now])
        PROVE  TypeInv'
    <2> DEFINE r == [Loaded(Unlocked(db), "login_success") EXCEPT
                     !.stage = "ready", !.issue = t, !.at = now]
    <2>1. now \in Nat /\ t \in TokenRef
      BY <1>0, Members DEF TypeOK
    <2>2. r \in Session
      BY <1>0, <1>2, <2>1, Members, Events DEF Session
    <2>3. ArgumentsOK(r)
      BY <1>0, <1>1 DEF ArgumentsOK, Session
    <2> QED BY <1>9, <2>2, <2>3, StepType
  <1> QED BY <1>5, <1>6, <1>7, <1>8, <1>9 DEF Login
LEMMA PublicType ==
  ASSUME TypeInv, NEW w \in Workers, PublicStep(w)
  PROVE  TypeInv'
  <1> DEFINE s == sess[w]
  <1>0. s \in Session /\ ArgumentsOK(s) /\ TypeOK /\ now \in Nat
    BY DEF TypeInv, TypeOK
  <1>r. CASE Refuse(w, s)
    BY <1>0, <1>r, RefuseType
  <1> USE DEF InStage, AccountOps, LinkOps, ConfirmOps
  <1>1. CASE RegisterUser(w)
    <2> DEFINE r == [s EXCEPT !.stage = "ready", !.event = "register",
                              !.row = NewUser(s.password)]
    <2>1. NewUser(s.password) \in UserRow
      BY <1>0 DEF Session, NewUser, UserRow, Role
    <2>2. r \in Session
      BY <1>0, <2>1, Members, Events DEF Session
    <2>3. s.op = "register" /\ s.stage = "begin"
      BY <1>1 DEF RegisterUser
    <2>4. ArgumentsOK(r)
      BY <1>0, <2>3 DEF ArgumentsOK, Session
    <2> QED BY <1>1, <1>r, <2>2, <2>4, StepType DEF RegisterUser
  <1>2. CASE Login(w)
    BY <1>2, LoginType
  <1>3. CASE RefreshToken(w)
    <2> DEFINE r == [s EXCEPT !.stage = "token_read",
                              !.user = refresh_tokens[s.token].user]
    <2>1. s.op = "refresh" /\ s.token \in Tokens
      BY <1>0, <1>3 DEF RefreshToken, ArgumentsOK
    <2>2. ASSUME Live(s.token) PROVE r \in Session /\ ArgumentsOK(r)
      <3>1. refresh_tokens[s.token].user \in Users
        BY <1>0, <2>1, <2>2, Rows DEF Live
      <3>2. r \in Session
        BY <1>0, <3>1, Members DEF Session
      <3> QED BY <1>0, <2>1, <3>1, <3>2 DEF ArgumentsOK, Session
    <2> QED BY <1>3, <1>r, <2>2, StepType DEF RefreshToken
  <1>4. CASE RefreshUser(w)
    <2>1. s.op = "refresh" /\ s.stage = "token_read"
          /\ s.token \in Tokens /\ s.user \in Users
      BY <1>0, <1>4 DEF RefreshUser, ArgumentsOK
    <2>2. users[s.user] \in UserRow
      BY <1>0, <2>1, Rows
    <2>3. ASSUME NEW t \in Tokens,
                 Step(w, [s EXCEPT !.stage = "ready", !.loaded = users[s.user],
                                   !.row = users[s.user],
                                   !.revoke = {s.token}, !.issue = t,
                                   !.at = now, !.event = "token_refresh"])
          PROVE  TypeInv'
      <3> DEFINE r == [s EXCEPT !.stage = "ready", !.loaded = users[s.user],
                                !.row = users[s.user],
                                !.revoke = {s.token}, !.issue = t,
                                !.at = now, !.event = "token_refresh"]
      <3>1. t \in TokenRef /\ {s.token} \in SUBSET Tokens
        BY <2>1, Members
      <3>2. r \in Session
        BY <1>0, <2>2, <3>1, Members, Events DEF Session
      <3>3. ArgumentsOK(r)
        BY <1>0, <2>1 DEF ArgumentsOK, Session
      <3> QED BY <2>3, <3>2, <3>3, StepType
    <2> QED BY <1>4, <1>r, <2>3 DEF RefreshUser
  <1>5. CASE Logout(w)
    <2> DEFINE r == [s EXCEPT !.stage = "ready"]
               q == [s EXCEPT !.stage = "ready", !.revoke = {s.token},
                              !.event = "logout"]
    <2>1. s.op = "logout" /\ {s.token} \in SUBSET Tokens
      BY <1>0, <1>5 DEF Logout, ArgumentsOK
    <2>2. r \in Session /\ q \in Session
      BY <1>0, <2>1, Members, Events DEF Session
    <2>3. ArgumentsOK(r) /\ ArgumentsOK(q)
      BY <1>0, <2>1 DEF ArgumentsOK, Session
    <2> QED BY <1>5, <2>2, <2>3, StepType DEF Logout
  <1>6. CASE RequestLink(w)
    <2>1. s.op \in LinkOps /\ s.stage = "begin" /\ s.user \in Users
      BY <1>0, <1>6 DEF RequestLink, ArgumentsOK
    <2>2. CASE Step(w, [s EXCEPT !.stage = "ready"])
      <3>1. [s EXCEPT !.stage = "ready"] \in Session
        BY <1>0, Members DEF Session
      <3>2. ArgumentsOK([s EXCEPT !.stage = "ready"])
        BY <1>0, <2>1 DEF ArgumentsOK, Session
      <3> QED BY <2>2, <3>1, <3>2, StepType
    <2>3. ASSUME NEW k \in Links,
                 Step(w, [s EXCEPT !.stage = "ready", !.new_link = k,
                                   !.at = now, !.event = s.op])
          PROVE  TypeInv'
      <3> DEFINE r == [s EXCEPT !.stage = "ready", !.new_link = k,
                                !.at = now, !.event = s.op]
      <3>1. k \in LinkRef /\ s.op \in Event
        BY <2>1, Members, Events
      <3>2. r \in Session
        BY <1>0, <3>1, Members DEF Session
      <3>3. ArgumentsOK(r)
        BY <1>0, <2>1 DEF ArgumentsOK, Session
      <3> QED BY <2>3, <3>2, <3>3, StepType
    <2> QED BY <1>6, <2>2, <2>3 DEF RequestLink
  <1>7. CASE SendEmail(w)
    <2>1. sess' \in [Workers -> Session]
          /\ \A v \in Workers : ArgumentsOK(sess[v])'
      BY <1>7, CloseType DEF SendEmail
    <2>2. s.new_link \in Links
      BY <1>0, <1>7 DEF SendEmail, ArgumentsOK
    <2> QED BY <1>7, <2>1, <2>2 DEF SendEmail, TypeInv, TypeOK, tables, history
  <1>8. CASE ConfirmLink(w)
    <2> DEFINE r == [s EXCEPT !.stage = "link_read",
                              !.user = links[s.link].user]
    <2>1. s.op \in ConfirmOps /\ s.link \in Links
      BY <1>0, <1>8 DEF ConfirmLink, ArgumentsOK
    <2>2. ASSUME Redeemable(s.link, s.op) PROVE r \in Session /\ ArgumentsOK(r)
      <3>1. links[s.link].user \in Users
        BY <1>0, <2>1, <2>2, Rows DEF Redeemable
      <3>2. r \in Session
        BY <1>0, <3>1, Members DEF Session
      <3> QED BY <1>0, <2>1, <3>1, <3>2 DEF ArgumentsOK, Session
    <2> QED BY <1>8, <1>r, <2>2, StepType DEF ConfirmLink
  <1>9. CASE ConfirmLinkUser(w)
    <2> DEFINE db == users[s.user]
               L == [s EXCEPT !.stage = "ready", !.redeem = {s.link},
                              !.loaded = db, !.row = db]
    <2>1. s.op \in ConfirmOps /\ s.link \in Links /\ s.user \in Users
      BY <1>0, <1>9 DEF ConfirmLinkUser, ArgumentsOK
    <2>2. db \in UserRow /\ {s.link} \in SUBSET Links
      BY <1>0, <2>1, Rows
    <2>3. L \in Session /\ L.row = db /\ L.loaded = db
          /\ L.new_password = s.new_password
      BY <1>0, <2>2, Members DEF Session
    <2>4. ArgumentsOK(L)
      BY <1>0, <2>1 DEF ArgumentsOK, Session
    <2>5. s.new_password \in PasswordRef /\ NoPassword \in PasswordRef
      BY <1>0 DEF Session, PasswordRef
    <2> HIDE DEF L
    <2>6. CASE Step(w, [L EXCEPT !.row.is_verified = TRUE,
                                 !.event = "verify_email_success"])
      <3> DEFINE r == [L EXCEPT !.row.is_verified = TRUE,
                                !.event = "verify_email_success"]
      <3>1. [db EXCEPT !.is_verified = TRUE] \in UserRow
        BY <2>2, RowUpdates
      <3>2. r = [L EXCEPT !.row = [db EXCEPT !.is_verified = TRUE],
                          !.event = "verify_email_success"]
        BY <2>3
      <3>3. r \in Session
        BY <2>3, <3>1, <3>2, Events DEF Session
      <3>4. ArgumentsOK(r)
        BY <2>3, <2>4, <3>2 DEF ArgumentsOK, Session
      <3> QED BY <2>6, <3>3, <3>4, StepType
    <2>7. CASE Step(w, [L EXCEPT !.loaded.password = NoPassword,
                                 !.row.password = s.new_password,
                                 !.event = "password_reset_success"])
      <3> DEFINE r == [L EXCEPT !.loaded.password = NoPassword,
                                !.row.password = s.new_password,
                                !.event = "password_reset_success"]
      <3>1. /\ [db EXCEPT !.password = s.new_password] \in UserRow
            /\ [db EXCEPT !.password = NoPassword] \in UserRow
        BY <2>2, <2>5, RowUpdates
      <3>2. r = [L EXCEPT !.loaded = [db EXCEPT !.password = NoPassword],
                          !.row = [db EXCEPT !.password = s.new_password],
                          !.event = "password_reset_success"]
        BY <2>3
      <3>3. r \in Session
        BY <2>3, <3>1, <3>2, Events DEF Session
      <3>4. ArgumentsOK(r)
        BY <2>3, <2>4, <3>2 DEF ArgumentsOK, Session
      <3> QED BY <2>7, <3>3, <3>4, StepType
    <2> QED BY <1>9, <2>6, <2>7 DEF ConfirmLinkUser, L
  <1> QED BY <1>1, <1>2, <1>3, <1>4, <1>5, <1>6, <1>7, <1>8, <1>9
          DEF PublicStep
\* A revoke-all changes these fields of the session and no other.
LEMMA RevokeAllType ==
  ASSUME NEW s \in Session, NEW keep, NEW event \in Event
  PROVE  LET r == RevokeAllOf(s, keep, event) IN
         /\ r \in Session
         /\ r.op = s.op /\ r.stage = s.stage /\ r.user = s.user
         /\ r.actor = s.actor /\ r.target = s.target /\ r.token = s.token
         /\ r.link = s.link /\ r.new_link = s.new_link /\ r.row = s.row
         /\ r.loaded = s.loaded /\ r.payload = s.payload
         /\ r.issue = s.issue
  <1> DEFINE live == {t \in TokensOf(s.user) : Live(t)} \ keep
             e == IF live = {} THEN "none" ELSE event
             seen == TokensOf(s.user) \ keep
  <1>1. live \in SUBSET Tokens /\ seen \in SUBSET Tokens
    BY DEF TokensOf
  <1>2. e \in Event
    BY Members
  <1>3. RevokeAllOf(s, keep, event)
          = [s EXCEPT !.seen = seen, !.revoke = live, !.revoke_event = e]
    BY DEF RevokeAllOf
  <1> HIDE DEF live, e, seen
  <1> QED BY <1>1, <1>2, <1>3 DEF Session

\* Lemmas for the two shapes the last steps of these handlers have.
LEMMA ReadyType ==
  ASSUME TypeInv, NEW w \in Workers, NEW s \in Session, ArgumentsOK(s),
         s.stage # "mail", NEW event \in Event, NEW row \in UserRow,
         Step(w, [s EXCEPT !.stage = "ready", !.row = row, !.event = event])
  PROVE  TypeInv'
  <1> DEFINE r == [s EXCEPT !.stage = "ready", !.row = row, !.event = event]
  <1>1. r \in Session
    BY Members DEF Session
  <1>2. ArgumentsOK(r)
    BY DEF ArgumentsOK, Session
  <1> QED BY <1>1, <1>2, StepType

LEMMA UpdatedType ==
  ASSUME NEW s \in Session, ArgumentsOK(s), s.stage # "mail"
  PROVE  /\ Updated(s) \in Session /\ ArgumentsOK(Updated(s))
         /\ Updated(s).stage = "ready"
  <1> DEFINE row == [s.row EXCEPT !.is_verified =
                       Switched(s.payload.is_verified, s.row.is_verified)]
  <1>1. s.row \in UserRow /\ s.payload \in AdminUserUpdateRequest
    BY DEF Session
  <1>2. Switched(s.payload.is_verified, s.row.is_verified) \in BOOLEAN
    BY <1>1 DEF Switched, UserRow
  <1>3. row \in UserRow
    BY <1>1, <1>2, RowUpdates
  <1>4. Updated(s) = [s EXCEPT !.stage = "ready",
                               !.event = "admin_user_updated", !.row = row]
    BY DEF Updated, Session
  <1>5. Updated(s) \in Session
    BY <1>3, <1>4, Members, Events DEF Session
  <1> QED BY <1>4, <1>5 DEF ArgumentsOK, Session

LEMMA AdminUpdateType ==
  ASSUME TypeInv, NEW w \in Workers,
         AdminUpdateRole(w) \/ AdminUpdateActive(w) \/ AdminUpdateRevoke(w)
  PROVE  TypeInv'
  <1> DEFINE s == sess[w]
  <1>0. s \in Session /\ ArgumentsOK(s) /\ TypeOK
    BY DEF TypeInv, TypeOK
  <1>1. s.op = "admin_update" /\ s.stage \in {"loaded", "role_done", "revoke"}
        /\ s.stage # "mail"
    BY DEF AdminUpdateRole, AdminUpdateActive, AdminUpdateRevoke, InStage
  <1>2. s.user \in Users /\ s.row \in UserRow
        /\ s.payload \in AdminUserUpdateRequest
    BY <1>0, <1>1 DEF ArgumentsOK, Session
  <1>r. CASE Refuse(w, s)
    BY <1>0, <1>r, RefuseType
  <1>3. CASE AdminUpdateRole(w)
    <2> DEFINE role == IF s.payload.role = "keep"
                       THEN s.row.role ELSE s.payload.role
               r == [s EXCEPT !.stage = "role_done", !.row.role = role]
    <2>1. role \in Role
      BY <1>2 DEF UserRow, AdminUserUpdateRequest, Role
    <2>2. [s.row EXCEPT !.role = role] \in UserRow
      BY <1>2, <2>1, RowUpdates
    <2>3. r = [s EXCEPT !.stage = "role_done",
                        !.row = [s.row EXCEPT !.role = role]]
      OBVIOUS
    <2>4. r \in Session
      BY <1>0, <2>2, <2>3, Members DEF Session
    <2>5. ArgumentsOK(r)
      BY <1>0, <1>1, <1>2 DEF ArgumentsOK, Session
    <2> QED BY <1>3, <1>r, <2>4, <2>5, StepType DEF AdminUpdateRole
  <1>4. CASE AdminUpdateActive(w)
    <2> DEFINE q == Updated(s)
    <2>1. q \in Session /\ ArgumentsOK(q) /\ q.stage = "ready"
      BY <1>0, <1>1, UpdatedType
    <2> HIDE DEF q
    <2>2. CASE Step(w, q)
      BY <2>1, <2>2, StepType
    <2>3. CASE Step(w, [q EXCEPT !.row.is_active = TRUE,
                                 !.row.deactivated = FALSE])
      <3> DEFINE row == [q.row EXCEPT !.is_active = TRUE, !.deactivated = FALSE]
                 r == [q EXCEPT !.row.is_active = TRUE,
                                !.row.deactivated = FALSE]
      <3>1. row \in UserRow
        BY <2>1, RowUpdates DEF Session
      <3>2. r = [q EXCEPT !.row = row]
        BY <2>1 DEF Session
      <3>3. r \in Session
        BY <2>1, <3>1, <3>2 DEF Session
      <3>4. ArgumentsOK(r)
        BY <2>1, <3>2 DEF ArgumentsOK, Session
      <3> QED BY <2>3, <3>3, <3>4, StepType
    <2>4. CASE Step(w, [s EXCEPT !.stage = "revoke", !.row.is_active = FALSE,
                                 !.row.deactivated = TRUE])
      <3> DEFINE row == [s.row EXCEPT !.is_active = FALSE, !.deactivated = TRUE]
                 r == [s EXCEPT !.stage = "revoke", !.row.is_active = FALSE,
                                !.row.deactivated = TRUE]
      <3>1. row \in UserRow
        BY <1>2, RowUpdates
      <3>2. r = [s EXCEPT !.stage = "revoke", !.row = row]
        BY <1>0 DEF Session
      <3>3. r \in Session
        BY <1>0, <3>1, <3>2, Members DEF Session
      <3>4. ArgumentsOK(r)
        BY <1>0, <1>1, <1>2, <3>2 DEF ArgumentsOK, Session
      <3> QED BY <2>4, <3>3, <3>4, StepType
    <2> QED BY <1>4, <1>r, <2>2, <2>3, <2>4 DEF AdminUpdateActive, q
  <1>5. CASE AdminUpdateRevoke(w)
    <2> DEFINE q == RevokeAllOf(s, {}, "admin_sessions_revoked")
    <2>1. q \in Session /\ ArgumentsOK(q) /\ q.stage # "mail"
      BY <1>0, <1>1, RevokeAllType, Events DEF ArgumentsOK
    <2>2. Updated(q) \in Session /\ ArgumentsOK(Updated(q))
      BY <2>1, UpdatedType
    <2> QED BY <1>5, <2>2, StepType DEF AdminUpdateRevoke
  <1> QED BY <1>3, <1>4, <1>5

LEMMA BearerType ==
  ASSUME TypeInv, NEW w \in Workers, BearerStep(w)
  PROVE  TypeInv'
  <1> DEFINE s == sess[w]
  <1>0. s \in Session /\ ArgumentsOK(s) /\ TypeOK
    BY DEF TypeInv, TypeOK
  <1>r. CASE Refuse(w, s)
    BY <1>0, <1>r, RefuseType
  <1>1. CASE Authenticate(w)
    <2> DEFINE r == [s EXCEPT !.stage = "authed", !.user = s.actor,
                              !.loaded = users[s.actor],
                              !.row = users[s.actor]]
    <2>1. s.op \in BearerOps /\ s.actor \in Users /\ s.op \notin AccountOps
      BY <1>0, <1>1 DEF Authenticate, ArgumentsOK, BearerOps, SelfOps,
                        AdminOps, AccountOps, LinkOps
    <2>2. users[s.actor] \in UserRow
      BY <1>0, <2>1, Rows
    <2>3. r \in Session
      BY <1>0, <2>1, <2>2, Members DEF Session
    <2>4. ArgumentsOK(r)
      BY <1>0, <2>1 DEF ArgumentsOK, Session
    <2> QED BY <1>1, <1>r, <2>3, <2>4, StepType DEF Authenticate
  <1>2. CASE PatchMe(w)
    <2>1. [s EXCEPT !.stage = "ready", !.event = "profile_updated"]
            = [s EXCEPT !.stage = "ready", !.row = s.row,
                        !.event = "profile_updated"]
      BY <1>0 DEF Session
    <2>2. s.row \in UserRow /\ s.stage # "mail"
      BY <1>0, <1>2 DEF Session, PatchMe, InStage
    <2> QED BY <1>0, <1>2, <2>1, <2>2, ReadyType, Events DEF PatchMe
  <1>3. CASE ChangePassword(w)
    <2> DEFINE q == RevokeAllOf(s, {}, "session_revoked")
               row == [q.row EXCEPT !.password = s.new_password]
    <2>1. s.stage # "mail" /\ s.stage = "authed"
      BY <1>3 DEF ChangePassword, InStage
    <2>2. q \in Session /\ ArgumentsOK(q) /\ q.stage # "mail"
      BY <1>0, <2>1, RevokeAllType, Events DEF ArgumentsOK
    <2>3. row \in UserRow
      BY <1>0, <2>2, RowUpdates DEF Session
    <2> HIDE DEF q
    <2>4. [q EXCEPT !.stage = "ready", !.row.password = s.new_password,
                    !.event = "password_changed"]
            = [q EXCEPT !.stage = "ready", !.row = row,
                        !.event = "password_changed"]
      BY <2>2 DEF Session
    <2> QED BY <1>3, <1>r, <2>2, <2>3, <2>4, ReadyType, Events
            DEF ChangePassword, q
  <1>4. CASE DeactivateMe(w)
    <2> DEFINE q == RevokeAllOf(s, {}, "account_deactivated")
               row == [q.row EXCEPT !.is_active = FALSE, !.deactivated = TRUE]
    <2>1. s.stage # "mail" /\ s.stage = "authed"
      BY <1>4 DEF DeactivateMe, InStage
    <2>2. q \in Session /\ ArgumentsOK(q) /\ q.stage # "mail"
      BY <1>0, <2>1, RevokeAllType, Events DEF ArgumentsOK
    <2>3. row \in UserRow
      BY <1>0, <2>2, RowUpdates DEF Session
    <2> HIDE DEF q
    <2>4. [q EXCEPT !.stage = "ready", !.row.is_active = FALSE,
                    !.row.deactivated = TRUE, !.event = "account_deactivated"]
            = [q EXCEPT !.stage = "ready", !.row = row,
                        !.event = "account_deactivated"]
      BY <2>2 DEF Session
    <2> QED BY <1>4, <2>2, <2>3, <2>4, ReadyType, Events DEF DeactivateMe, q
  <1>5. CASE RevokeSession(w)
    <2> DEFINE r == [s EXCEPT !.stage = "ready", !.revoke = {s.token},
                              !.event = "session_revoked"]
    <2>1. s.op = "revoke_session" /\ {s.token} \in SUBSET Tokens
      BY <1>0, <1>5 DEF RevokeSession, InStage, ArgumentsOK
    <2>2. r \in Session
      BY <1>0, <2>1, Members, Events DEF Session
    <2>3. ArgumentsOK(r)
      BY <1>0, <2>1 DEF ArgumentsOK, Session, AccountOps, LinkOps
    <2> QED BY <1>5, <1>r, <2>2, <2>3, StepType DEF RevokeSession
  <1>6. CASE RevokeAllSessions(w)
    <2> DEFINE q == RevokeAllOf(s, {s.token}, "session_revoked")
               r == [q EXCEPT !.stage = "ready"]
    <2>1. s.stage = "authed"
      BY <1>6 DEF RevokeAllSessions, InStage
    <2>2. q \in Session /\ ArgumentsOK(q) /\ q.stage # "mail"
      BY <1>0, <2>1, RevokeAllType, Events DEF ArgumentsOK
    <2> HIDE DEF q
    <2>3. r \in Session
      BY <2>2, Members DEF Session
    <2>4. ArgumentsOK(r)
      BY <2>2 DEF ArgumentsOK, Session
    <2> QED BY <1>6, <1>r, <2>3, <2>4, StepType DEF RevokeAllSessions, q
  <1>7. CASE LoadTarget(w)
    <2> DEFINE r == [s EXCEPT !.stage = "loaded"]
               q == [s EXCEPT !.stage = "loaded", !.user = s.target,
                              !.loaded = users[s.target],
                              !.row = users[s.target]]
    <2>1. s.op \in AdminOps /\ s.stage = "authed" /\ s.target \in Users
          /\ s.user \in Users
      BY <1>0, <1>7 DEF LoadTarget, ArgumentsOK
    <2>2. users[s.target] \in UserRow
      BY <1>0, <2>1, Rows
    <2>3. r \in Session /\ q \in Session
      BY <1>0, <2>1, <2>2, Members DEF Session
    <2>4. ArgumentsOK(r) /\ ArgumentsOK(q)
      BY <1>0, <2>1 DEF ArgumentsOK, Session
    <2> QED BY <1>7, <1>r, <2>3, <2>4, StepType DEF LoadTarget
  <1>8. CASE AdminUpdateRole(w) \/ AdminUpdateActive(w) \/ AdminUpdateRevoke(w)
    BY <1>8, AdminUpdateType
  <1>9. CASE AdminUnlock(w)
    <2> DEFINE row == [s.row EXCEPT !.failed_attempts = 0, !.locked_until = 0]
    <2>1. row \in UserRow /\ s.stage # "mail"
      BY <1>0, <1>9, RowUpdates DEF Session, AdminUnlock, InStage
    <2>2. [s EXCEPT !.stage = "ready", !.event = "admin_user_unlocked",
                    !.row.failed_attempts = 0, !.row.locked_until = 0]
            = [s EXCEPT !.stage = "ready", !.row = row,
                        !.event = "admin_user_unlocked"]
      BY <1>0 DEF Session
    <2> HIDE DEF row
    <2>3. Step(w, [s EXCEPT !.stage = "ready", !.row = row,
                            !.event = "admin_user_unlocked"])
      BY <1>9, <2>2 DEF AdminUnlock
    <2> QED BY <1>0, <2>1, <2>3, ReadyType, Events
  <1>10. CASE AdminRevokeSessions(w)
    <2> DEFINE q == RevokeAllOf(s, {}, "admin_sessions_revoked")
               r == [q EXCEPT !.stage = "ready"]
    <2>1. s.stage = "loaded"
      BY <1>10 DEF AdminRevokeSessions, InStage
    <2>2. q \in Session /\ ArgumentsOK(q) /\ q.stage # "mail"
      BY <1>0, <2>1, RevokeAllType, Events DEF ArgumentsOK
    <2> HIDE DEF q
    <2>3. r \in Session
      BY <2>2, Members DEF Session
    <2>4. ArgumentsOK(r)
      BY <2>2 DEF ArgumentsOK, Session
    <2> QED BY <1>10, <2>3, <2>4, StepType DEF AdminRevokeSessions, q
  <1> QED BY <1>1, <1>2, <1>3, <1>4, <1>5, <1>6, <1>7, <1>8, <1>9, <1>10
          DEF BearerStep
LEMMA CommitType ==
  ASSUME TypeInv, NEW w \in Workers, Commit(w)
  PROVE  TypeInv'
  <1> DEFINE s == sess[w]
  <1>0. s \in Session /\ ArgumentsOK(s) /\ TypeOK
    BY DEF TypeInv, TypeOK
  <1>1. CASE Refuse(w, NoSession)
    BY <1>1, NoSessionType, RefuseType
  <1>2. CASE /\ Write(s)
             /\ IF s.new_link = NoLink THEN Close(w)
                ELSE sess' = [sess EXCEPT ![w] =
                       [NoSession EXCEPT !.op = s.op, !.stage = "mail",
                                         !.new_link = s.new_link]]
             /\ misses' = IF s.op \in {"login", "admin_unlock"}
                          THEN [misses EXCEPT ![s.user] = NoMisses] ELSE misses
             /\ UNCHANGED <<now, mail, requests>>
    <2>1. misses' \in [Users -> [count : Nat, last : Nat]]
      BY <1>0, <1>2 DEF TypeOK, NoMisses
    <2>2. sess' \in [Workers -> Session]
          /\ \A v \in Workers : ArgumentsOK(sess[v])'
      <3>1. CASE s.new_link = NoLink
        BY <1>2, <3>1, CloseType
      <3>2. CASE s.new_link # NoLink
        <4> DEFINE r == [NoSession EXCEPT !.op = s.op, !.stage = "mail",
                                          !.new_link = s.new_link]
        <4>1. s.op \in LinkOps /\ s.op \in Op /\ s.new_link \in Links
              /\ s.new_link \in LinkRef
          BY <1>0, <3>2 DEF ArgumentsOK, Session, LinkRef
        <4>2. r \in Session
          BY <4>1, NoSessionType, Members DEF Session
        <4>3. ArgumentsOK(r)
          BY <4>1, NoSessionType
          DEF ArgumentsOK, Session, AccountOps, LinkOps, ConfirmOps, BearerOps,
              SelfOps, AdminOps
        <4>4. sess' = [sess EXCEPT ![w] = r]
          BY <1>2, <3>2
        <4> HIDE DEF r
        <4> QED BY <4>2, <4>3, <4>4 DEF TypeInv, TypeOK, ArgumentsOK
      <3> QED BY <3>1, <3>2
    <2> QED BY <1>0, <1>2, <2>1, <2>2, WriteType DEF TypeInv, TypeOK
  <1> QED BY <1>1, <1>2 DEF Commit

-----------------------------------------------------------------------------
(* Clients.                                                                *)

LEMMA ReceiveType ==
  ASSUME TypeInv, NEW w \in Workers, NEW r \in Session, ArgumentsOK(r),
         Receive(w, r)
  PROVE  TypeInv'
  BY DEF TypeInv, TypeOK, Receive, tables, history, ArgumentsOK

LEMMA RequestType ==
  ASSUME NEW op \in Ops
  PROVE  /\ Request(op) \in Session
         /\ Request(op).op = op /\ Request(op).stage = "begin"
         /\ Request(op).new_link = NoLink
  <1>1. op \in Op
    BY DEF Op
  <1>2. Request(op) \in Session
    BY <1>1, NoSessionType, Members DEF Request, Session
  <1> QED BY <1>2 DEF Request, NoSession

\* A request whose arguments are of the right kind.
LEMMA RequestReceived ==
  ASSUME TypeInv, NEW w \in Workers, NEW op, NEW r, Receive(w, r),
         r.op = op /\ r.stage = "begin" /\ r.new_link = NoLink,
         op \in Ops => r \in Session,
         op \in AccountOps => r.user \in Users,
         op \in {"refresh", "logout", "revoke_session"} => r.token \in Tokens,
         op \in ConfirmOps => r.link \in Links,
         op \in BearerOps => r.actor \in Users,
         op \in AdminOps => r.target \in Users
  PROVE  TypeInv'
  <1>1. r \in Session
    BY DEF Receive
  <1>2. ArgumentsOK(r)
    BY DEF ArgumentsOK
  <1> QED BY <1>1, <1>2, ReceiveType

LEMMA CredentialsType ==
  ASSUME TypeInv, NEW w \in Workers,
         ReceiveCredentials(w) \/ ReceiveAddress(w)
  PROVE  TypeInv'
  <1>o. {"register", "login"} \cap (ConfirmOps \cup BearerOps) = {}
        /\ LinkOps \cap (ConfirmOps \cup BearerOps) = {}
        /\ AccountOps \cap {"refresh", "logout", "revoke_session"} = {}
        /\ AccountOps = {"register", "login"} \cup LinkOps
        /\ AdminOps \subseteq BearerOps
    BY DEF LinkOps, ConfirmOps, BearerOps, SelfOps, AdminOps, AccountOps
  <1>1. CASE ReceiveCredentials(w)
    <2> SUFFICES ASSUME NEW u \in Users, NEW pw \in Passwords,
                        NEW op \in {"register", "login"},
                        Receive(w, [Request(op) EXCEPT
                                    !.user = u, !.password = pw])
                 PROVE  TypeInv'
      BY <1>1 DEF ReceiveCredentials
    <2> DEFINE r == [Request(op) EXCEPT !.user = u, !.password = pw]
    <2>1. r.op = op /\ r.stage = "begin" /\ r.new_link = NoLink /\ r.user = u
      BY DEF Request, NoSession
    <2>2. ASSUME op \in Ops PROVE r \in Session
      <3>1. Request(op) \in Session
        BY <2>2, RequestType
      <3>2. u \in UserRef /\ pw \in PasswordRef
        BY Members
      <3> QED BY <3>1, <3>2 DEF Session
    <2> HIDE DEF r
    <2> QED BY <1>o, <2>1, <2>2, RequestReceived DEF r
  <1>2. CASE ReceiveAddress(w)
    <2> SUFFICES ASSUME NEW u \in Users, NEW op \in LinkOps,
                        Receive(w, [Request(op) EXCEPT !.user = u])
                 PROVE  TypeInv'
      BY <1>2 DEF ReceiveAddress
    <2> DEFINE r == [Request(op) EXCEPT !.user = u]
    <2>1. r.op = op /\ r.stage = "begin" /\ r.new_link = NoLink /\ r.user = u
      BY DEF Request, NoSession
    <2>2. ASSUME op \in Ops PROVE r \in Session
      <3>1. Request(op) \in Session
        BY <2>2, RequestType
      <3>2. u \in UserRef
        BY Members
      <3> QED BY <3>1, <3>2 DEF Session
    <2> HIDE DEF r
    <2> QED BY <1>o, <2>1, <2>2, RequestReceived DEF r
  <1> QED BY <1>1, <1>2

LEMMA TokenArgumentType ==
  ASSUME TypeInv, NEW w \in Workers,
         ReceiveRefreshToken(w) \/ ReceiveLink(w)
  PROVE  TypeInv'
  <1>o. {"refresh", "logout"} \cap (AccountOps \cup ConfirmOps \cup BearerOps) = {}
        /\ ConfirmOps \cap (AccountOps \cup BearerOps) = {}
        /\ ConfirmOps \cap {"refresh", "logout", "revoke_session"} = {}
        /\ AdminOps \subseteq BearerOps
        /\ "verify_email_confirm" \in ConfirmOps
        /\ "password_reset_confirm" \in ConfirmOps
    BY DEF LinkOps, ConfirmOps, BearerOps, SelfOps, AdminOps, AccountOps
  <1>1. CASE ReceiveRefreshToken(w)
    <2> SUFFICES ASSUME NEW t \in Tokens, NEW op \in {"refresh", "logout"},
                        Receive(w, [Request(op) EXCEPT !.token = t])
                 PROVE  TypeInv'
      BY <1>1 DEF ReceiveRefreshToken
    <2> DEFINE r == [Request(op) EXCEPT !.token = t]
    <2>1. r.op = op /\ r.stage = "begin" /\ r.new_link = NoLink /\ r.token = t
      BY DEF Request, NoSession
    <2>2. ASSUME op \in Ops PROVE r \in Session
      <3>1. Request(op) \in Session
        BY <2>2, RequestType
      <3>2. t \in TokenRef
        BY Members
      <3> QED BY <3>1, <3>2 DEF Session
    <2> HIDE DEF r
    <2> QED BY <1>o, <2>1, <2>2, RequestReceived DEF r
  <1>2. CASE ReceiveLink(w)
    <2>m. mail \subseteq Links
      BY DEF TypeInv, TypeOK
    <2>1. ASSUME NEW k \in Links,
                 Receive(w, [Request("verify_email_confirm") EXCEPT !.link = k])
          PROVE  TypeInv'
      <3> DEFINE op == "verify_email_confirm"
                 r == [Request(op) EXCEPT !.link = k]
      <3>1. r.op = op /\ r.stage = "begin" /\ r.new_link = NoLink /\ r.link = k
        BY DEF Request, NoSession
      <3>2. ASSUME op \in Ops PROVE r \in Session
        <4>1. Request(op) \in Session
          BY <3>2, RequestType
        <4>2. k \in LinkRef
          BY Members
        <4> QED BY <4>1, <4>2 DEF Session
      <3>3. Receive(w, r)
        BY <2>1
      <3>4. op \in ConfirmOps
        BY <1>o
      <3> HIDE DEF r, op
      <3> QED BY <1>o, <3>1, <3>2, <3>3, <3>4, RequestReceived
    <2>2. ASSUME NEW k \in Links, NEW pw \in Passwords,
                 Receive(w, [Request("password_reset_confirm") EXCEPT
                             !.link = k, !.new_password = pw])
          PROVE  TypeInv'
      <3> DEFINE op == "password_reset_confirm"
                 r == [Request(op) EXCEPT !.link = k, !.new_password = pw]
      <3>1. r.op = op /\ r.stage = "begin" /\ r.new_link = NoLink /\ r.link = k
        BY DEF Request, NoSession
      <3>2. ASSUME op \in Ops PROVE r \in Session
        <4>1. Request(op) \in Session
          BY <3>2, RequestType
        <4>2. k \in LinkRef /\ pw \in PasswordRef
          BY Members
        <4> QED BY <4>1, <4>2 DEF Session
      <3>3. Receive(w, r)
        BY <2>2
      <3>4. op \in ConfirmOps
        BY <1>o
      <3> HIDE DEF r, op
      <3> QED BY <1>o, <3>1, <3>2, <3>3, <3>4, RequestReceived
    <2> QED BY <1>2, <2>m, <2>1, <2>2 DEF ReceiveLink
  <1> QED BY <1>1, <1>2

LEMMA SelfArgumentType ==
  ASSUME TypeInv, NEW w \in Workers, ReceiveSelf(w)
  PROVE  TypeInv'
  <1>o. SelfOps \cap (AccountOps \cup ConfirmOps \cup AdminOps) = {}
        /\ SelfOps \cap {"refresh", "logout"} = {}
        /\ SelfOps \subseteq BearerOps
        /\ {"patch_me", "deactivate_me", "change_password", "revoke_session",
            "revoke_all"} = SelfOps
    BY DEF LinkOps, ConfirmOps, BearerOps, SelfOps, AdminOps, AccountOps
  <1>1. ASSUME NEW u \in Users, NEW op \in {"patch_me", "deactivate_me"},
               Receive(w, [Request(op) EXCEPT !.actor = u])
        PROVE  TypeInv'
    <2> DEFINE r == [Request(op) EXCEPT !.actor = u]
    <2>1. r.op = op /\ r.stage = "begin" /\ r.new_link = NoLink /\ r.actor = u
      BY DEF Request, NoSession
    <2>2. ASSUME op \in Ops PROVE r \in Session
      <3>1. Request(op) \in Session
        BY <2>2, RequestType
      <3>2. u \in UserRef
        BY Members
      <3> QED BY <3>1, <3>2 DEF Session
    <2>3. Receive(w, r)
      BY <1>1
    <2> HIDE DEF r
    <2> QED BY <1>o, <2>1, <2>2, <2>3, RequestReceived
  <1>2. ASSUME NEW u \in Users, NEW pw \in Passwords, NEW new \in Passwords,
               Receive(w, [Request("change_password") EXCEPT
                           !.actor = u, !.password = pw, !.new_password = new])
        PROVE  TypeInv'
    <2> DEFINE op == "change_password"
               r == [Request(op) EXCEPT !.actor = u, !.password = pw,
                                        !.new_password = new]
    <2>1. r.op = op /\ r.stage = "begin" /\ r.new_link = NoLink /\ r.actor = u
      BY DEF Request, NoSession
    <2>2. ASSUME op \in Ops PROVE r \in Session
      <3>1. Request(op) \in Session
        BY <2>2, RequestType
      <3>2. u \in UserRef /\ pw \in PasswordRef /\ new \in PasswordRef
        BY Members
      <3> QED BY <3>1, <3>2 DEF Session
    <2>3. Receive(w, r)
      BY <1>2
    <2>4. op \in SelfOps /\ op # "revoke_session"
      BY <1>o
    <2> HIDE DEF r, op
    <2> QED BY <1>o, <2>1, <2>2, <2>3, <2>4, RequestReceived
  <1>3. ASSUME NEW u \in Users, NEW op \in {"revoke_session", "revoke_all"},
               NEW t \in TokenRef, op = "revoke_session" => t \in Tokens,
               Receive(w, [Request(op) EXCEPT !.actor = u, !.token = t])
        PROVE  TypeInv'
    <2> DEFINE r == [Request(op) EXCEPT !.actor = u, !.token = t]
    <2>1. r.op = op /\ r.stage = "begin" /\ r.new_link = NoLink /\ r.actor = u
          /\ r.token = t
      BY DEF Request, NoSession
    <2>2. ASSUME op \in Ops PROVE r \in Session
      <3>1. Request(op) \in Session
        BY <2>2, RequestType
      <3>2. u \in UserRef
        BY Members
      <3> QED BY <3>1, <3>2 DEF Session
    <2>3. Receive(w, r)
      BY <1>3
    <2> HIDE DEF r
    <2> QED BY <1>o, <1>3, <2>1, <2>2, <2>3, RequestReceived
  <1> QED BY <1>1, <1>2, <1>3 DEF ReceiveSelf, TokenRef

LEMMA AdminArgumentType ==
  ASSUME TypeInv, NEW w \in Workers, ReceiveAdmin(w)
  PROVE  TypeInv'
  <1>o. AdminOps \cap (AccountOps \cup ConfirmOps) = {}
        /\ AdminOps \cap {"refresh", "logout", "revoke_session"} = {}
        /\ AdminOps = {"admin_update", "admin_unlock", "admin_revoke"}
    BY DEF LinkOps, ConfirmOps, AdminOps, AccountOps
  <1>1. ASSUME NEW u \in Users, NEW target \in Users,
               NEW op \in {"admin_unlock", "admin_revoke"},
               Receive(w, [Request(op) EXCEPT !.actor = u, !.target = target])
        PROVE  TypeInv'
    <2> DEFINE r == [Request(op) EXCEPT !.actor = u, !.target = target]
    <2>1. r.op = op /\ r.stage = "begin" /\ r.new_link = NoLink /\ r.actor = u
          /\ r.target = target
      BY DEF Request, NoSession
    <2>2. ASSUME op \in Ops PROVE r \in Session
      <3>1. Request(op) \in Session
        BY <2>2, RequestType
      <3>2. u \in UserRef /\ target \in UserRef
        BY Members
      <3> QED BY <3>1, <3>2 DEF Session
    <2>3. Receive(w, r)
      BY <1>1
    <2> HIDE DEF r
    <2> QED BY <1>o, <2>1, <2>2, <2>3, RequestReceived
  <1>2. ASSUME NEW u \in Users, NEW target \in Users, NEW p \in Payloads,
               Receive(w, [Request("admin_update") EXCEPT
                           !.actor = u, !.target = target, !.payload = p])
        PROVE  TypeInv'
    <2> DEFINE op == "admin_update"
               r == [Request(op) EXCEPT !.actor = u, !.target = target,
                                        !.payload = p]
    <2>1. r.op = op /\ r.stage = "begin" /\ r.new_link = NoLink /\ r.actor = u
          /\ r.target = target
      BY DEF Request, NoSession
    <2>2. p \in AdminUserUpdateRequest
      BY ConstantsAssumption DEF ConstantsAssumption
    <2>3. ASSUME op \in Ops PROVE r \in Session
      <3>1. Request(op) \in Session
        BY <2>3, RequestType
      <3>2. u \in UserRef /\ target \in UserRef
        BY Members
      <3> QED BY <3>1, <3>2, <2>2 DEF Session
    <2>4. Receive(w, r)
      BY <1>2
    <2>5. op \in AdminOps
      BY <1>o
    <2> HIDE DEF r, op
    <2> QED BY <1>o, <2>1, <2>3, <2>4, <2>5, RequestReceived
  <1> QED BY <1>1, <1>2 DEF ReceiveAdmin

-----------------------------------------------------------------------------
LEMMA InitType == Init => TypeInv
  <1> SUFFICES ASSUME Init PROVE TypeInv
    OBVIOUS
  <1>1. Seed \in [Users -> UserRow]
    <2>1. NewUser(SeedPassword) \in UserRow
          /\ [NewUser(SeedPassword) EXCEPT !.role = "admin"] \in UserRow
      BY ConstantsAssumption, NewUserType, RowUpdates
      DEF ConstantsAssumption, Role
    <2> QED BY <2>1, NoRowType DEF Seed
  <1>2. NoRefreshRow \in RefreshRow /\ NoLinkRow \in LinkRow
    BY DEF NoRefreshRow, RefreshRow, NoLinkRow, LinkRow, UserRef, LinkOps
  <1> QED BY <1>1, <1>2, NoSessionType
          DEF Init, TypeInv, TypeOK, TokenRef, NoMisses

LEMMA NextType == TypeInv /\ [Next]_vars => TypeInv'
  <1> SUFFICES ASSUME TypeInv, [Next]_vars PROVE TypeInv'
    OBVIOUS
  <1>1. ASSUME NEW w \in Workers, Client(w) PROVE TypeInv'
    BY <1>1, CredentialsType, TokenArgumentType, SelfArgumentType,
       AdminArgumentType DEF Client
  <1>2. ASSUME NEW w \in Workers, Handle(w) PROVE TypeInv'
    BY <1>2, PublicType, BearerType, CommitType DEF Handle
  <1>3. CASE Tick
    BY <1>3 DEF Tick, TypeInv, TypeOK, tables, history, ArgumentsOK
  <1>4. CASE UNCHANGED vars
    BY <1>4 DEF vars, TypeInv, TypeOK, tables, history, ArgumentsOK
  <1> QED BY <1>1, <1>2, <1>3, <1>4 DEF Next, Quiet

\* Every reachable state is well typed: whatever requests come, no handler
\* leaves a value of another kind in a table or in its session (a NULL where a
\* row is used, an event type the enumeration lacks).
THEOREM TypeCorrect == Spec => []TypeOK
  <1>1. TypeInv => TypeOK
    BY DEF TypeInv
  <1> QED BY <1>1, InitType, NextType, PTL DEF Spec

-----------------------------------------------------------------------------
(* Account rows: two facts about columns that several handlers write in    *)
(* sessions of their own, for any number of threads.                       *)
(*                                                                         *)
(* A row is sound if its activity agrees with its deactivation stamp and,  *)
(* when a failed request is rolled back, its lockout columns are initial.  *)
(* The committed rows alone are not inductive: a commit merges what its    *)
(* session loaded and changed earlier into what is committed by then, so   *)
(* every session in flight must hold sound rows too.                       *)

Sound(row) ==
  /\ row.deactivated = ~row.is_active
  /\ RollbackOnError => row.failed_attempts = 0 /\ row.locked_until = 0

SoundSession(s) == Sound(s.loaded) /\ Sound(s.row)

AccountInv ==
  /\ TypeInv
  /\ \A u \in Users : Sound(users[u])
  /\ \A w \in Workers : SoundSession(sess[w])

-----------------------------------------------------------------------------
LEMMA SoundRows ==
  /\ Sound(NoRow)
  /\ \A pw \in Passwords : Sound(NewUser(pw))
  BY DEF Sound, NoRow, NewUser

LEMMA SoundNoSession == SoundSession(NoSession)
  BY SoundRows DEF SoundSession, NoSession

LEMMA SoundUpdates ==
  ASSUME NEW row \in UserRow, Sound(row)
  PROVE  /\ Sound([row EXCEPT !.failed_attempts = 0, !.locked_until = 0])
         /\ \A b \in BOOLEAN : Sound([row EXCEPT !.is_verified = b])
         /\ \A pw \in PasswordRef : Sound([row EXCEPT !.password = pw])
         /\ \A r \in Role : Sound([row EXCEPT !.role = r])
         /\ Sound([row EXCEPT !.is_active = TRUE, !.deactivated = FALSE])
         /\ Sound([row EXCEPT !.is_active = FALSE, !.deactivated = TRUE])
  BY DEF UserRow, Sound

\* The two columns change together in a session, so they do in the table.
LEMMA SoundMerge ==
  ASSUME NEW db \in UserRow, NEW loaded \in UserRow, NEW row \in UserRow,
         Sound(db), Sound(loaded), Sound(row)
  PROVE  Sound(Merge(db, loaded, row))
  BY DEF UserRow, Sound, Merge

LEMMA SoundWrite ==
  ASSUME AccountInv, NEW s \in Session, SoundSession(s), Write(s)
  PROVE  \A u \in Users : Sound(users'[u])
  <1> SUFFICES ASSUME NEW u \in Users PROVE Sound(users'[u])
    OBVIOUS
  <1>1. users'[u] = IF u = s.user THEN Merge(users[u], s.loaded, s.row)
                    ELSE users[u]
    BY DEF Write
  <1>2. users[u] \in UserRow /\ s.loaded \in UserRow /\ s.row \in UserRow
        /\ Sound(users[u])
    BY DEF AccountInv, TypeInv, TypeOK, Session
  <1> QED BY <1>1, <1>2, SoundMerge DEF SoundSession

\* A worker's session changes, to a sound one, and the rows stay sound.
LEMMA SoundMove ==
  ASSUME AccountInv, TypeInv', NEW w \in Workers, NEW r, SoundSession(r),
         sess' = [sess EXCEPT ![w] = r], \A u \in Users : Sound(users'[u])
  PROVE  AccountInv'
  <1>1. ASSUME NEW v \in Workers PROVE SoundSession(sess'[v])
    BY DEF AccountInv, TypeInv, TypeOK
  <1>2. \A q : Sound(q)' <=> Sound(q)
    BY DEF Sound
  <1> QED BY <1>1, <1>2 DEF AccountInv, SoundSession, Sound

LEMMA SoundStep ==
  ASSUME AccountInv, TypeInv', NEW w \in Workers, NEW r, SoundSession(r),
         Step(w, r)
  PROVE  AccountInv'
  BY SoundMove DEF AccountInv, Step, tables

LEMMA SoundReject ==
  ASSUME AccountInv, TypeInv', NEW w \in Workers, NEW s, Reject(w, s),
         ~RollbackOnError => s \in Session /\ SoundSession(s)
  PROVE  AccountInv'
  <1>1. \A u \in Users : Sound(users'[u])
    BY SoundWrite DEF Reject, tables, AccountInv
  <1> QED BY <1>1, SoundMove, SoundNoSession DEF Reject, Close

\* The handler refuses, or goes on without changing the row it holds.
LEMMA SoundSame ==
  ASSUME AccountInv, TypeInv', NEW w \in Workers
  PROVE  /\ Refuse(w, sess[w]) => AccountInv'
         /\ \A r : Step(w, r) /\ r.loaded = sess[w].loaded
                     /\ r.row = sess[w].row => AccountInv'
  <1>1. sess[w] \in Session /\ SoundSession(sess[w])
    BY DEF AccountInv, TypeInv, TypeOK
  <1> QED BY <1>1, SoundStep, SoundReject DEF Refuse, SoundSession

-----------------------------------------------------------------------------
LEMMA LoginSound ==
  ASSUME AccountInv, TypeInv', NEW w \in Workers, Login(w)
  PROVE  AccountInv'
  <1> DEFINE s == sess[w]
             db == users[s.user]
             Loaded(row, event) ==
               [s EXCEPT !.loaded = db, !.row = row, !.event = event]
  <1>1. s \in Session /\ SoundSession(s) /\ s.user \in Users
    BY DEF AccountInv, TypeInv, TypeOK, Login, InStage, ArgumentsOK,
           AccountOps
  <1>2. db \in UserRow /\ Sound(db) /\ Missed(db) \in UserRow
        /\ Unlocked(db) \in UserRow /\ Sound(Unlocked(db))
    BY <1>1, Rows, LoginRows, SoundUpdates DEF AccountInv, TypeInv, Unlocked
  <1>3. ~RollbackOnError => Sound(Missed(db))
    BY <1>2 DEF Missed, Sound, UserRow
  <1>4. ASSUME NEW row \in UserRow, NEW event \in Event
        PROVE  /\ Loaded(row, event) \in Session
               /\ Sound(row) => SoundSession(Loaded(row, event))
    BY <1>1, <1>2 DEF Session, SoundSession
  <1>5. CASE Refuse(w, [s EXCEPT !.event = "login_failure"])
    <2> DEFINE r == [s EXCEPT !.event = "login_failure"]
    <2>1. r \in Session /\ SoundSession(r)
      BY <1>1, Events DEF Session, SoundSession
    <2>2. Reject(w, r)
      BY <1>5 DEF Refuse
    <2> HIDE DEF r
    <2> QED BY <2>1, <2>2, SoundReject
  <1>6. ASSUME NEW row \in UserRow, NEW event \in Event,
               ~RollbackOnError => Sound(row), Reject(w, Loaded(row, event))
        PROVE  AccountInv'
    BY <1>4, <1>6, SoundReject
  <1>7. ASSUME NEW t \in Tokens,
               Step(w, [Loaded(Unlocked(db), "login_success") EXCEPT
                        !.stage = "ready", !.issue = t, !.at = now])
        PROVE  AccountInv'
    <2> DEFINE r == [Loaded(Unlocked(db), "login_success") EXCEPT
                     !.stage = "ready", !.issue = t, !.at = now]
    <2>1. r.loaded = db /\ r.row = Unlocked(db)
      BY <1>1 DEF Session
    <2>2. Step(w, r)
      BY <1>7
    <2> HIDE DEF r
    <2> QED BY <1>2, <2>1, <2>2, SoundStep DEF SoundSession
  <1> HIDE DEF db, Loaded
  <1> QED BY <1>2, <1>3, <1>5, <1>6, <1>7, Events
          DEF Login, Refuse, db, Loaded

LEMMA PublicSound ==
  ASSUME AccountInv, TypeInv', NEW w \in Workers, PublicStep(w)
  PROVE  AccountInv'
  <1> DEFINE s == sess[w]
  <1>0. s \in Session /\ SoundSession(s) /\ ArgumentsOK(s)
    BY DEF AccountInv, TypeInv, TypeOK
  <1>1. CASE RegisterUser(w)
    <2> DEFINE r == [s EXCEPT !.stage = "ready", !.event = "register",
                              !.row = NewUser(s.password)]
    <2>1. Sound(NewUser(s.password))
      BY DEF Sound, NewUser
    <2>2. r.loaded = s.loaded /\ r.row = NewUser(s.password)
      BY <1>0 DEF Session
    <2>3. Refuse(w, s) \/ Step(w, r)
      BY <1>1 DEF RegisterUser
    <2> HIDE DEF r
    <2>4. SoundSession(r)
      BY <1>0, <2>1, <2>2 DEF SoundSession
    <2> QED BY <2>3, <2>4, SoundSame, SoundStep
  <1>2. CASE Login(w)
    BY <1>2, LoginSound
  <1>3. CASE RefreshToken(w)
    <2> DEFINE r == [s EXCEPT !.stage = "token_read",
                              !.user = refresh_tokens[s.token].user]
    <2>1. r.loaded = s.loaded /\ r.row = s.row
      BY <1>0 DEF Session
    <2>2. Refuse(w, s) \/ Step(w, r)
      BY <1>3 DEF RefreshToken
    <2> QED BY <2>1, <2>2, SoundSame
  <1>4. CASE RefreshUser(w)
    <2> DEFINE db == users[s.user]
    <2>1. Sound(db)
      BY <1>0, <1>4 DEF AccountInv, RefreshUser, InStage, ArgumentsOK
    <2>2. ASSUME NEW t \in Tokens,
                 Step(w, [s EXCEPT !.stage = "ready", !.loaded = db, !.row = db,
                                   !.revoke = {s.token}, !.issue = t,
                                   !.at = now, !.event = "token_refresh"])
          PROVE  AccountInv'
      <3> DEFINE r == [s EXCEPT !.stage = "ready", !.loaded = db, !.row = db,
                                !.revoke = {s.token}, !.issue = t,
                                !.at = now, !.event = "token_refresh"]
      <3>1. r.loaded = db /\ r.row = db
        BY <1>0 DEF Session
      <3>2. Step(w, r)
        BY <2>2
      <3> HIDE DEF r
      <3> QED BY <2>1, <3>1, <3>2, SoundStep DEF SoundSession
    <2> QED BY <1>4, <2>2, SoundSame DEF RefreshUser
  <1>5. CASE Logout(w)
    <2> DEFINE q == [s EXCEPT !.stage = "ready"]
               r == [s EXCEPT !.stage = "ready", !.revoke = {s.token},
                              !.event = "logout"]
    <2>1. r.loaded = s.loaded /\ r.row = s.row
          /\ q.loaded = s.loaded /\ q.row = s.row
      BY <1>0 DEF Session
    <2>2. Step(w, q) \/ Step(w, r)
      BY <1>5 DEF Logout
    <2> QED BY <2>1, <2>2, SoundSame
  <1>6. CASE RequestLink(w)
    <2>1. ASSUME Step(w, [s EXCEPT !.stage = "ready"]) PROVE AccountInv'
      BY <1>0, <2>1, SoundSame DEF Session
    <2>2. ASSUME NEW k \in Links,
                 Step(w, [s EXCEPT !.stage = "ready", !.new_link = k,
                                   !.at = now, !.event = s.op])
          PROVE  AccountInv'
      <3> DEFINE r == [s EXCEPT !.stage = "ready", !.new_link = k,
                                !.at = now, !.event = s.op]
      <3>1. r.loaded = s.loaded /\ r.row = s.row
        BY <1>0 DEF Session
      <3> QED BY <2>2, <3>1, SoundSame
    <2> QED BY <1>6, <2>1, <2>2 DEF RequestLink
  <1>7. CASE SendEmail(w)
    BY <1>7, SoundMove, SoundNoSession DEF SendEmail, Close, tables, AccountInv
  <1>8. CASE ConfirmLink(w)
    <2> DEFINE r == [s EXCEPT !.stage = "link_read",
                              !.user = links[s.link].user]
    <2>1. r.loaded = s.loaded /\ r.row = s.row
      BY <1>0 DEF Session
    <2>2. Refuse(w, s) \/ Step(w, r)
      BY <1>8 DEF ConfirmLink
    <2> QED BY <2>1, <2>2, SoundSame
  <1>9. CASE ConfirmLinkUser(w)
    <2>0. s.user \in Users /\ s.new_password \in PasswordRef
      <3>1. s.stage = "link_read"
        BY <1>9 DEF ConfirmLinkUser, InStage
      <3> QED BY <1>0, <3>1 DEF ArgumentsOK, Session
    <2>1. users[s.user] \in UserRow /\ Sound(users[s.user])
      BY <2>0, Rows DEF AccountInv, TypeInv
    <2> DEFINE db == users[s.user]
               Loaded == [s EXCEPT !.stage = "ready", !.redeem = {s.link},
                                   !.loaded = db, !.row = db]
               q == [Loaded EXCEPT !.row.is_verified = TRUE,
                                   !.event = "verify_email_success"]
               r == [Loaded EXCEPT !.loaded.password = NoPassword,
                                   !.row.password = s.new_password,
                                   !.event = "password_reset_success"]
    <2>2. q.loaded = db /\ q.row = [db EXCEPT !.is_verified = TRUE]
          /\ r.loaded = [db EXCEPT !.password = NoPassword]
          /\ r.row = [db EXCEPT !.password = s.new_password]
      BY <1>0 DEF Session
    <2>3. Step(w, q) \/ Step(w, r)
      BY <1>9 DEF ConfirmLinkUser
    <2>s. Sound([db EXCEPT !.is_verified = TRUE])
          /\ Sound([db EXCEPT !.password = s.new_password])
          /\ Sound([db EXCEPT !.password = NoPassword])
      BY <2>0, <2>1, SoundUpdates DEF PasswordRef
    <2> HIDE DEF q, r, Loaded
    <2>4. SoundSession(q) /\ SoundSession(r)
      BY <2>1, <2>2, <2>s DEF SoundSession
    <2> QED BY <2>3, <2>4, SoundStep
  <1> QED BY <1>1, <1>2, <1>3, <1>4, <1>5, <1>6, <1>7, <1>8, <1>9
          DEF PublicStep

-----------------------------------------------------------------------------
\* A step that leaves the loaded row and brings the row held to a sound one.
LEMMA SoundChange ==
  ASSUME AccountInv, TypeInv', NEW w \in Workers, NEW r, Step(w, r),
         r.loaded = sess[w].loaded, Sound(r.row)
  PROVE  AccountInv'
  BY SoundStep DEF AccountInv, SoundSession

\* _revoke_refresh_tokens does not touch the account.
LEMMA RevokeAllRows ==
  ASSUME NEW s \in Session, NEW keep, NEW event \in Event
  PROVE  LET r == RevokeAllOf(s, keep, event) IN
         r \in Session /\ r.row = s.row /\ r.loaded = s.loaded
                       /\ r.payload = s.payload
  BY RevokeAllType

LEMMA UpdatedSound ==
  ASSUME NEW s \in Session, Sound(s.row)
  PROVE  /\ Sound(Updated(s).row) /\ Updated(s).loaded = s.loaded
         /\ Updated(s).row \in UserRow
  <1> DEFINE verified == Switched(s.payload.is_verified, s.row.is_verified)
             row == [s.row EXCEPT !.is_verified = verified]
  <1>1. s.row \in UserRow
    BY DEF Session
  <1>2. verified \in BOOLEAN
    BY <1>1 DEF Switched, UserRow
  <1>3. Updated(s).row = row /\ Updated(s).loaded = s.loaded
    BY DEF Updated, Session
  <1> HIDE DEF verified
  <1> QED BY <1>1, <1>2, <1>3, SoundUpdates, RowUpdates

LEMMA BearerSound ==
  ASSUME AccountInv, TypeInv', NEW w \in Workers, BearerStep(w)
  PROVE  AccountInv'
  <1> DEFINE s == sess[w]
  <1>0. s \in Session /\ SoundSession(s) /\ ArgumentsOK(s)
        /\ s.row \in UserRow /\ Sound(s.row)
    BY DEF AccountInv, TypeInv, TypeOK, Session, SoundSession
  <1>1. CASE Authenticate(w)
    <2> DEFINE r == [s EXCEPT !.stage = "authed", !.user = s.actor,
                              !.loaded = users[s.actor],
                              !.row = users[s.actor]]
    <2>1. Sound(users[s.actor])
      BY <1>0, <1>1 DEF Authenticate, ArgumentsOK, AccountInv
    <2>2. r.loaded = users[s.actor] /\ r.row = users[s.actor]
      BY <1>0 DEF Session
    <2>3. Refuse(w, s) \/ Step(w, r)
      BY <1>1 DEF Authenticate
    <2> HIDE DEF r
    <2> QED BY <2>1, <2>2, <2>3, SoundSame, SoundStep DEF SoundSession
  <1>2. CASE PatchMe(w)
    <2> DEFINE r == [s EXCEPT !.stage = "ready", !.event = "profile_updated"]
    <2>1. r.loaded = s.loaded /\ r.row = s.row
      BY <1>0 DEF Session
    <2>2. Step(w, r)
      BY <1>2 DEF PatchMe
    <2> QED BY <2>1, <2>2, SoundSame
  <1>3. CASE ChangePassword(w)
    <2> DEFINE q == RevokeAllOf(s, {}, "session_revoked")
               r == [q EXCEPT !.stage = "ready",
                              !.row.password = s.new_password,
                              !.event = "password_changed"]
    <2>1. q \in Session /\ q.row = s.row /\ q.loaded = s.loaded
      BY <1>0, RevokeAllRows, Events
    <2>2. Refuse(w, s) \/ Step(w, r)
      BY <1>3 DEF ChangePassword
    <2> HIDE DEF q
    <2>3. r.loaded = s.loaded
          /\ r.row = [s.row EXCEPT !.password = s.new_password]
      BY <2>1 DEF Session
    <2>4. s.new_password \in PasswordRef
      BY <1>0 DEF Session
    <2> HIDE DEF r
    <2> QED BY <1>0, <2>2, <2>3, <2>4, SoundSame, SoundChange, SoundUpdates
  <1>4. CASE DeactivateMe(w)
    <2> DEFINE q == RevokeAllOf(s, {}, "account_deactivated")
               r == [q EXCEPT !.stage = "ready", !.row.is_active = FALSE,
                              !.row.deactivated = TRUE,
                              !.event = "account_deactivated"]
    <2>1. q \in Session /\ q.row = s.row /\ q.loaded = s.loaded
      BY <1>0, RevokeAllRows, Events
    <2>2. Step(w, r)
      BY <1>4 DEF DeactivateMe
    <2> HIDE DEF q
    <2>3. r.loaded = s.loaded
          /\ r.row = [s.row EXCEPT !.is_active = FALSE, !.deactivated = TRUE]
      BY <2>1 DEF Session
    <2> HIDE DEF r
    <2> QED BY <1>0, <2>2, <2>3, SoundChange, SoundUpdates
  <1>5. CASE RevokeSession(w)
    <2> DEFINE r == [s EXCEPT !.stage = "ready", !.revoke = {s.token},
                              !.event = "session_revoked"]
    <2>1. r.loaded = s.loaded /\ r.row = s.row
      BY <1>0 DEF Session
    <2>2. Refuse(w, s) \/ Step(w, r)
      BY <1>5 DEF RevokeSession
    <2> QED BY <2>1, <2>2, SoundSame
  <1>6. CASE RevokeAllSessions(w)
    <2> DEFINE q == RevokeAllOf(s, {s.token}, "session_revoked")
               r == [q EXCEPT !.stage = "ready"]
    <2>1. q \in Session /\ q.row = s.row /\ q.loaded = s.loaded
      BY <1>0, RevokeAllRows, Events
    <2>2. Refuse(w, s) \/ Step(w, r)
      BY <1>6 DEF RevokeAllSessions
    <2> HIDE DEF q
    <2>3. r.loaded = s.loaded /\ r.row = s.row
      BY <2>1 DEF Session
    <2> QED BY <2>2, <2>3, SoundSame
  <1>7. CASE LoadTarget(w)
    <2> DEFINE r == [s EXCEPT !.stage = "loaded"]
               q == [s EXCEPT !.stage = "loaded", !.user = s.target,
                              !.loaded = users[s.target],
                              !.row = users[s.target]]
    <2>1. Sound(users[s.target])
      BY <1>0, <1>7 DEF LoadTarget, ArgumentsOK, AccountInv
    <2>2. /\ r.loaded = s.loaded /\ r.row = s.row
          /\ q.loaded = users[s.target] /\ q.row = users[s.target]
      BY <1>0 DEF Session
    <2>3. Refuse(w, s) \/ Step(w, r) \/ Step(w, q)
      BY <1>7 DEF LoadTarget
    <2> HIDE DEF q
    <2> QED BY <2>1, <2>2, <2>3, SoundSame, SoundStep DEF SoundSession
  <1>8. CASE AdminUpdateRole(w)
    <2> DEFINE role == IF s.payload.role = "keep" THEN s.row.role
                       ELSE s.payload.role
               r == [s EXCEPT !.stage = "role_done", !.row.role = role]
    <2>1. role \in Role
      <3>1. s.payload \in AdminUserUpdateRequest
        BY <1>0 DEF Session
      <3> QED BY <1>0, <3>1 DEF AdminUserUpdateRequest, UserRow
    <2>2. Refuse(w, s) \/ Step(w, r)
      BY <1>8 DEF AdminUpdateRole
    <2> HIDE DEF role
    <2>3. r.loaded = s.loaded /\ r.row = [s.row EXCEPT !.role = role]
      BY <1>0 DEF Session
    <2> HIDE DEF r
    <2> QED BY <1>0, <2>1, <2>2, <2>3, SoundSame, SoundChange, SoundUpdates
  <1>9. CASE AdminUpdateActive(w)
    <2> DEFINE u == Updated(s)
               r == [u EXCEPT !.row.is_active = TRUE,
                              !.row.deactivated = FALSE]
               q == [s EXCEPT !.stage = "revoke", !.row.is_active = FALSE,
                              !.row.deactivated = TRUE]
    <2>1. s.stage # "mail"
      BY <1>9 DEF AdminUpdateActive, InStage
    <2>2. u \in Session /\ Sound(u.row) /\ u.loaded = s.loaded
          /\ u.row \in UserRow
      BY <1>0, <2>1, UpdatedType, UpdatedSound
    <2>3. Refuse(w, s) \/ Step(w, u) \/ Step(w, r) \/ Step(w, q)
      BY <1>9 DEF AdminUpdateActive
    <2> HIDE DEF u
    <2>4. /\ r.loaded = s.loaded
          /\ r.row = [u.row EXCEPT !.is_active = TRUE, !.deactivated = FALSE]
          /\ q.loaded = s.loaded
          /\ q.row = [s.row EXCEPT !.is_active = FALSE, !.deactivated = TRUE]
      BY <1>0, <2>2 DEF Session
    <2> HIDE DEF r, q
    <2>5. Sound(r.row) /\ Sound(q.row)
      BY <1>0, <2>2, <2>4, SoundUpdates
    <2> QED BY <2>2, <2>3, <2>4, <2>5, SoundSame, SoundChange
  <1>10. CASE AdminUpdateRevoke(w)
    <2> DEFINE q == RevokeAllOf(s, {}, "admin_sessions_revoked")
    <2>1. q \in Session /\ q.row = s.row /\ q.loaded = s.loaded
      BY <1>0, RevokeAllRows, Events
    <2>2. Step(w, Updated(q))
      BY <1>10 DEF AdminUpdateRevoke
    <2> HIDE DEF q
    <2> QED BY <1>0, <2>1, <2>2, UpdatedSound, SoundChange
  <1>11. CASE AdminUnlock(w)
    <2> DEFINE r == [s EXCEPT !.stage = "ready",
                              !.event = "admin_user_unlocked",
                              !.row.failed_attempts = 0,
                              !.row.locked_until = 0]
    <2>1. r.loaded = s.loaded
          /\ r.row = [s.row EXCEPT !.failed_attempts = 0, !.locked_until = 0]
      BY <1>0 DEF Session
    <2>2. Step(w, r)
      BY <1>11 DEF AdminUnlock
    <2> HIDE DEF r
    <2> QED BY <1>0, <2>1, <2>2, SoundChange, SoundUpdates
  <1>12. CASE AdminRevokeSessions(w)
    <2> DEFINE q == RevokeAllOf(s, {}, "admin_sessions_revoked")
               r == [q EXCEPT !.stage = "ready"]
    <2>1. q \in Session /\ q.row = s.row /\ q.loaded = s.loaded
      BY <1>0, RevokeAllRows, Events
    <2>2. Step(w, r)
      BY <1>12 DEF AdminRevokeSessions
    <2> HIDE DEF q
    <2>3. r.loaded = s.loaded /\ r.row = s.row
      BY <2>1 DEF Session
    <2> QED BY <2>2, <2>3, SoundSame
  <1> QED BY <1>1, <1>2, <1>3, <1>4, <1>5, <1>6, <1>7, <1>8, <1>9, <1>10,
             <1>11, <1>12 DEF BearerStep

LEMMA CommitSound ==
  ASSUME AccountInv, TypeInv', NEW w \in Workers, Commit(w)
  PROVE  AccountInv'
  <1> DEFINE s == sess[w]
             r == [NoSession EXCEPT !.op = s.op, !.stage = "mail",
                                    !.new_link = s.new_link]
  <1>0. s \in Session /\ SoundSession(s)
    BY DEF AccountInv, TypeInv, TypeOK
  <1>1. CASE Refuse(w, NoSession)
    BY <1>1, NoSessionType, SoundNoSession, SoundReject DEF Refuse
  <1>2. CASE Write(s) /\ (Close(w) \/ sess' = [sess EXCEPT ![w] = r])
    <2>1. \A u \in Users : Sound(users'[u])
      BY <1>0, <1>2, SoundWrite
    <2>2. r.loaded = NoSession.loaded /\ r.row = NoSession.row
      BY DEF NoSession
    <2> HIDE DEF r
    <2>3. SoundSession(r)
      BY <2>2, SoundNoSession DEF SoundSession
    <2> QED BY <1>2, <2>1, <2>3, SoundNoSession, SoundMove DEF Close
  <1> QED BY <1>1, <1>2 DEF Commit

-----------------------------------------------------------------------------
\* A request starts with the rows of NoSession.
LEMMA ReceiveSound ==
  ASSUME AccountInv, TypeInv', NEW w \in Workers, NEW op, NEW r,
         Receive(w, r), r.loaded = Request(op).loaded,
         r.row = Request(op).row
  PROVE  AccountInv'
  <1>1. Request(op).loaded = NoSession.loaded
        /\ Request(op).row = NoSession.row
    BY DEF Request, NoSession
  <1>2. SoundSession(r)
    BY <1>1, SoundNoSession DEF SoundSession
  <1> QED BY <1>2, SoundMove DEF Receive, tables, AccountInv

LEMMA ClientSound ==
  ASSUME AccountInv, TypeInv', NEW w \in Workers, Client(w)
  PROVE  AccountInv'
  <1>1. ASSUME NEW u, NEW pw, NEW op,
               Receive(w, [Request(op) EXCEPT !.user = u, !.password = pw])
        PROVE  AccountInv'
    BY <1>1, ReceiveSound DEF Request, NoSession
  <1>2. ASSUME NEW t, NEW op, Receive(w, [Request(op) EXCEPT !.token = t])
        PROVE  AccountInv'
    BY <1>2, ReceiveSound DEF Request, NoSession
  <1>3. ASSUME NEW u, NEW op, Receive(w, [Request(op) EXCEPT !.user = u])
        PROVE  AccountInv'
    BY <1>3, ReceiveSound DEF Request, NoSession
  <1>4. ASSUME NEW k, NEW op, Receive(w, [Request(op) EXCEPT !.link = k])
        PROVE  AccountInv'
    BY <1>4, ReceiveSound DEF Request, NoSession
  <1>5. ASSUME NEW k, NEW pw, NEW op,
               Receive(w, [Request(op) EXCEPT !.link = k,
                                              !.new_password = pw])
        PROVE  AccountInv'
    BY <1>5, ReceiveSound DEF Request, NoSession
  <1>6. ASSUME NEW u, NEW op, Receive(w, [Request(op) EXCEPT !.actor = u])
        PROVE  AccountInv'
    BY <1>6, ReceiveSound DEF Request, NoSession
  <1>7. ASSUME NEW u, NEW pw, NEW new, NEW op,
               Receive(w, [Request(op) EXCEPT !.actor = u, !.password = pw,
                                              !.new_password = new])
        PROVE  AccountInv'
    BY <1>7, ReceiveSound DEF Request, NoSession
  <1>8. ASSUME NEW u, NEW t, NEW op,
               Receive(w, [Request(op) EXCEPT !.actor = u, !.token = t])
        PROVE  AccountInv'
    BY <1>8, ReceiveSound DEF Request, NoSession
  <1>9. ASSUME NEW u, NEW target, NEW op,
               Receive(w, [Request(op) EXCEPT !.actor = u, !.target = target])
        PROVE  AccountInv'
    BY <1>9, ReceiveSound DEF Request, NoSession
  <1>10. ASSUME NEW u, NEW target, NEW p, NEW op,
                Receive(w, [Request(op) EXCEPT !.actor = u, !.target = target,
                                               !.payload = p])
         PROVE  AccountInv'
    BY <1>10, ReceiveSound DEF Request, NoSession
  <1>a. CASE ReceiveCredentials(w)
    BY <1>a, <1>1 DEF ReceiveCredentials
  <1>b. CASE ReceiveRefreshToken(w)
    BY <1>b, <1>2 DEF ReceiveRefreshToken
  <1>c. CASE ReceiveAddress(w)
    BY <1>c, <1>3 DEF ReceiveAddress
  <1>d. CASE ReceiveLink(w)
    BY <1>d, <1>4, <1>5 DEF ReceiveLink
  <1>e. CASE ReceiveSelf(w)
    BY <1>e, <1>6, <1>7, <1>8 DEF ReceiveSelf
  <1>f. CASE ReceiveAdmin(w)
    BY <1>f, <1>9, <1>10 DEF ReceiveAdmin
  <1> QED BY <1>a, <1>b, <1>c, <1>d, <1>e, <1>f DEF Client

-----------------------------------------------------------------------------
LEMMA InitSound == Init => AccountInv
  <1> SUFFICES ASSUME Init PROVE AccountInv
    OBVIOUS
  <1>1. ASSUME NEW u \in Users PROVE Sound(users[u])
    <2>1. users[u] \in {[NewUser(SeedPassword) EXCEPT !.role = "admin"],
                        NewUser(SeedPassword), NoRow}
      BY DEF Init, Seed
    <2>2. NewUser(SeedPassword) \in UserRow /\ Sound(NewUser(SeedPassword))
      BY ConstantsAssumption, NewUserType, SoundRows DEF ConstantsAssumption
    <2>3. "admin" \in Role
      BY DEF Role
    <2> QED BY <2>1, <2>2, <2>3, SoundUpdates, SoundRows
  <1>2. \A w \in Workers : sess[w] = NoSession
    BY DEF Init
  <1> QED BY <1>1, <1>2, SoundNoSession, InitType DEF AccountInv

LEMMA NextSound == AccountInv /\ [Next]_vars => AccountInv'
  <1> SUFFICES ASSUME AccountInv, [Next]_vars PROVE AccountInv'
    OBVIOUS
  <1>1. TypeInv'
    BY NextType DEF AccountInv
  <1>2. ASSUME NEW w \in Workers, Client(w) PROVE AccountInv'
    BY <1>1, <1>2, ClientSound
  <1>3. ASSUME NEW w \in Workers, Handle(w) PROVE AccountInv'
    BY <1>1, <1>3, PublicSound, BearerSound, CommitSound DEF Handle
  <1>4. CASE Tick \/ UNCHANGED vars
    BY <1>1, <1>4
    DEF Tick, vars, tables, AccountInv, SoundSession, Sound
  <1> QED BY <1>2, <1>3, <1>4 DEF Next, Quiet

\* is_active and deactivated_at never disagree in a committed row, whatever
\* deactivations, reactivations and other updates of the account overlap.
THEOREM StampFollowsActivity == Spec => []DeactivationStamped
  <1>1. AccountInv => DeactivationStamped
    BY DEF AccountInv, DeactivationStamped, Sound
  <1> QED BY <1>1, InitSound, NextSound, PTL DEF Spec

\* In the server, where a handler that raises is rolled back, no account is
\* ever locked or even counts a failed login, for every threshold.
THEOREM ServerNeverLocks == RollbackOnError => (Spec => []LockoutIsInert)
  <1> SUFFICES ASSUME RollbackOnError PROVE Spec => []LockoutIsInert
    OBVIOUS
  <1>1. AccountInv => LockoutIsInert
    BY DEF AccountInv, LockoutIsInert, Sound
  <1> QED BY <1>1, InitSound, NextSound, PTL DEF Spec
=============================================================================
