------------------------------ MODULE AuthStore ------------------------------
(***************************************************************************)
(* The tables of the authentication service and the database session that  *)
(* every request handler works through.                                    *)
(*                                                                         *)
(* A handler runs on one thread of the server's pool (a worker) with a     *)
(* session of its own (backend/db/session.py).  Each SELECT sees what is   *)
(* committed when it runs; a row once loaded is not read again by the same *)
(* session; changes stay in memory until db.commit(), which writes only    *)
(* the columns whose value differs from the loaded one; and a handler that *)
(* raises leaves without a commit, so closing its session discards them.   *)
(*                                                                         *)
(* Passwords, token strings and their hashes are opaque values.  A refresh *)
(* token is identified with its row, a one-time token (e-mail verification *)
(* or password reset) with its row, a user with the e-mail address.        *)
(* Columns no condition reads (names, addresses, last_login_at, ...) are   *)
(* left out.  Times are ticks of one clock; 0 stands for a NULL time.      *)
(***************************************************************************)
EXTENDS Naturals, FiniteSets

CONSTANTS
  Users, NoUser,              \* e-mail addresses that may own an account
  Passwords, NoPassword,
  Tokens, NoToken,            \* rows refresh_tokens may come to hold
  Links, NoLink,              \* rows the two one-time token tables may hold
  Workers,                    \* threads that serve requests
  SeedAdmins, SeedMembers,    \* accounts that exist when the server starts
  SeedPassword,
  ACCESS_TOKEN_EXPIRES, REFRESH_TOKEN_EXPIRES,
  EMAIL_TOKEN_EXPIRE, PASSWORD_RESET_EXPIRE,
  LOCKOUT_THRESHOLD, LOCKOUT_TIME,
  RollbackOnError,            \* TRUE: get_db of the server; FALSE: the one
                              \* session the test fixture lends to every request
  Ops,                        \* the requests clients send
  Payloads,                   \* the bodies of PATCH /users/{id} they send
  MaxRequests, MaxTime        \* bounds of the model

Role == {"user", "admin"}
Switch == {"keep", "on", "off"}         \* bool | None of a request body

AdminUserUpdateRequest ==
  [role : Role \cup {"keep"}, is_active : Switch, is_verified : Switch]

NoPayload == [role |-> "keep", is_active |-> "keep", is_verified |-> "keep"]

SelfOps == {"patch_me", "change_password", "deactivate_me",
            "revoke_session", "revoke_all"}
AdminOps == {"admin_update", "admin_unlock", "admin_revoke"}
BearerOps == SelfOps \cup AdminOps
LinkOps == {"verify_email_request", "password_reset_request"}
ConfirmOps == {"verify_email_confirm", "password_reset_confirm"}
PublicOps == {"register", "login", "refresh", "logout"}
             \cup LinkOps \cup ConfirmOps

ASSUME ConstantsAssumption ==
  /\ NoUser \notin Users /\ NoPassword \notin Passwords
  /\ NoToken \notin Tokens /\ NoLink \notin Links
  /\ SeedAdmins \subseteq Users /\ SeedMembers \subseteq Users
  /\ SeedPassword \in Passwords
  /\ RollbackOnError \in BOOLEAN
  /\ Ops \subseteq PublicOps \cup BearerOps
  /\ Payloads \subseteq AdminUserUpdateRequest

ASSUME FiniteAssumption ==
  IsFiniteSet(Users) /\ IsFiniteSet(Tokens) /\ IsFiniteSet(Workers)

ASSUME NumbersAssumption ==
  /\ ACCESS_TOKEN_EXPIRES \in Nat /\ REFRESH_TOKEN_EXPIRES \in Nat
  /\ EMAIL_TOKEN_EXPIRE \in Nat /\ PASSWORD_RESET_EXPIRE \in Nat
  /\ LOCKOUT_THRESHOLD \in Nat \ {0} /\ LOCKOUT_TIME \in Nat \ {0}
  /\ MaxRequests \in Nat /\ MaxTime \in Nat

AuditEventType ==
  {"register", "login_success", "login_failure", "token_refresh", "logout",
   "verify_email_request", "verify_email_success", "password_reset_request",
   "password_reset_success", "profile_updated", "password_changed",
   "account_deactivated", "session_revoked", "admin_user_updated",
   "admin_user_unlocked", "admin_sessions_revoked"}

-----------------------------------------------------------------------------
VARIABLES
  now,            \* the clock
  users,          \* committed rows of users, one per address
  refresh_tokens, \* committed rows of refresh_tokens
  links,          \* committed rows of both one-time token tables
  audit,          \* number of committed auth_audit_events of each type
  access,         \* when the last access token a user holds expires
  mail,           \* one-time tokens that reached a mailbox
  sess,           \* the request each worker serves, with its session
  requests,       \* requests received so far (bounded by MaxRequests)
  \* history, read by properties and by no handler:
  parent,         \* the refresh token each refresh token was exchanged for
  cut,            \* tokens that existed when a completed "revoke all" looked
  redeemed,       \* how often each one-time token took effect
  misses          \* wrong-password answers to a user since a login or unlock

tables == <<users, refresh_tokens, links, audit, access>>
history == <<parent, cut, redeemed>>
vars == <<now, tables, mail, sess, requests, history, misses>>

-----------------------------------------------------------------------------
(* Rows.  A missing row has exists = FALSE, or no owner.                   *)

UserRef == Users \cup {NoUser}
PasswordRef == Passwords \cup {NoPassword}
TokenRef == Tokens \cup {NoToken}
LinkRef == Links \cup {NoLink}

UserRow ==
  [exists : BOOLEAN, password : PasswordRef, role : Role,
   is_active : BOOLEAN, is_verified : BOOLEAN, failed_attempts : Nat,
   locked_until : Nat,
   deactivated : BOOLEAN]               \* deactivated_at is not NULL

NewUser(pw) ==
  [exists |-> TRUE, password |-> pw, role |-> "user", is_active |-> TRUE,
   is_verified |-> FALSE, failed_attempts |-> 0, locked_until |-> 0,
   deactivated |-> FALSE]

NoRow == [NewUser(NoPassword) EXCEPT !.exists = FALSE]

RefreshRow == [user : UserRef, revoked : BOOLEAN, expires : Nat]
NoRefreshRow == [user |-> NoUser, revoked |-> FALSE, expires |-> 0]

LinkRow == [kind : LinkOps, user : UserRef, used : BOOLEAN,
            expires : Nat]
NoLinkRow == [kind |-> "verify_email_request", user |-> NoUser,
              used |-> FALSE, expires |-> 0]

Issued(t) == refresh_tokens[t].user # NoUser

\* Mutant: the query forgets revoked_at IS NULL.
LiveOrRevoked(t) == Issued(t) /\ refresh_tokens[t].expires > now

\* Rows WHERE revoked_at IS NULL AND expires_at > now.
Live(t) ==
  /\ Issued(t)
  /\ ~refresh_tokens[t].revoked
  /\ refresh_tokens[t].expires > now

Sent(k) == links[k].user # NoUser

-----------------------------------------------------------------------------
(* Sessions.  user is the row of users the handler loaded last, loaded the *)
(* values it was loaded with and row the object in memory.  The other      *)
(* fields from seen on are what the next commit inserts or updates.        *)

Op == Ops \cup {"none"}
Stage == {"idle", "begin", "token_read", "link_read", "authed", "loaded",
          "role_done", "revoke", "ready", "mail"}
Event == AuditEventType \cup {"none"}

Session ==
  [op : Op, stage : Stage, actor : UserRef, target : UserRef, user : UserRef,
   password : PasswordRef, new_password : PasswordRef, token : TokenRef,
   link : LinkRef, payload : AdminUserUpdateRequest,
   loaded : UserRow, row : UserRow,
   seen : SUBSET Tokens,                  \* history: for cut
   revoke : SUBSET Tokens, issue : TokenRef,
   redeem : SUBSET Links, new_link : LinkRef,
   at : Nat, event : Event, revoke_event : Event]

NoSession ==
  [op |-> "none", stage |-> "idle", actor |-> NoUser, target |-> NoUser,
   user |-> NoUser,
   password |-> NoPassword, new_password |-> NoPassword,
   token |-> NoToken, link |-> NoLink, payload |-> NoPayload,
   loaded |-> NoRow, row |-> NoRow, seen |-> {}, revoke |-> {},
   issue |-> NoToken, new_link |-> NoLink, redeem |-> {}, at |-> 0,
   event |-> "none", revoke_event |-> "none"]

InStage(w, op, stage) == sess[w].op = op /\ sess[w].stage = stage

\* Mutant: an UPDATE writes the whole row as the session has it.
MergeWholeRow(db, loaded, row) ==
  IF loaded.exists \/ row.exists THEN row ELSE db

\* The columns an UPDATE writes are those the handler really changed: the
\* others keep what is committed by then, whoever wrote it.
Merge(db, loaded, row) ==
  [exists |-> IF row.exists # loaded.exists THEN row.exists ELSE db.exists,
   password |->
     IF row.password # loaded.password THEN row.password ELSE db.password,
   role |-> IF row.role # loaded.role THEN row.role ELSE db.role,
   is_active |->
     IF row.is_active # loaded.is_active THEN row.is_active ELSE db.is_active,
   is_verified |->
     IF row.is_verified # loaded.is_verified
     THEN row.is_verified ELSE db.is_verified,
   failed_attempts |->
     IF row.failed_attempts # loaded.failed_attempts
     THEN row.failed_attempts ELSE db.failed_attempts,
   locked_until |->
     IF row.locked_until # loaded.locked_until
     THEN row.locked_until ELSE db.locked_until,
   deactivated |->
     IF row.deactivated # loaded.deactivated
     THEN row.deactivated ELSE db.deactivated]

LinkExpires(s) ==
  s.at + (IF s.op = "verify_email_request"
          THEN EMAIL_TOKEN_EXPIRE ELSE PASSWORD_RESET_EXPIRE)

Later(a, b) == IF a > b THEN a ELSE b

One(condition) == IF condition THEN 1 ELSE 0

\* Everything session s has pending reaches the tables in one transaction.
Write(s) ==
  /\ users' = [u \in Users |->
       IF u = s.user THEN Merge(users[u], s.loaded, s.row) ELSE users[u]]
  /\ refresh_tokens' = [t \in Tokens |->
       IF t = s.issue
       THEN [user |-> s.user, revoked |-> FALSE,
             expires |-> s.at + REFRESH_TOKEN_EXPIRES]
       ELSE IF t \in s.revoke
            THEN [refresh_tokens[t] EXCEPT !.revoked = TRUE]
            ELSE refresh_tokens[t]]
  /\ links' = [k \in Links |->
       IF k = s.new_link
       THEN [kind |-> s.op, user |-> s.user, used |-> FALSE,
             expires |-> LinkExpires(s)]
       ELSE IF k \in s.redeem THEN [links[k] EXCEPT !.used = TRUE]
            ELSE links[k]]
  /\ audit' = [a \in AuditEventType |->
       audit[a] + One(a = s.event) + One(a = s.revoke_event)]
  /\ access' = [u \in Users |->
       IF u = s.user /\ s.issue # NoToken
       THEN Later(access[u], s.at + ACCESS_TOKEN_EXPIRES) ELSE access[u]]
  /\ parent' = [t \in Tokens |-> IF t = s.issue THEN s.token ELSE parent[t]]
  /\ cut' = cut \cup s.seen
  /\ redeemed' = [k \in Links |-> redeemed[k] + One(k \in s.redeem)]

\* The handler goes on to its next statement; only its session changes.
Step(w, s) ==
  /\ sess' = [sess EXCEPT ![w] = s]
  /\ UNCHANGED <<now, tables, mail, requests, history, misses>>

Close(w) == sess' = [sess EXCEPT ![w] = NoSession]

\* Mutant: what the handler changed before it raised is committed.
RejectCommits(w, s) ==
  Close(w) /\ Write(s) /\ UNCHANGED <<now, mail, requests>>

\* The handler raises: the session is closed without a commit.
Reject(w, s) ==
  /\ Close(w)
  /\ \/ RollbackOnError /\ UNCHANGED <<tables, history>>
     \/ ~RollbackOnError /\ Write(s)
  /\ UNCHANGED <<now, mail, requests>>

Refuse(w, s) == Reject(w, s) /\ UNCHANGED misses

NoMisses == [count |-> 0, last |-> 0]

\* Mutant: users.email has no unique index.
CommitNoUnique(w) ==
  LET s == sess[w] IN
  /\ s.stage = "ready"
  /\ Write(s)
  /\ IF s.new_link = NoLink THEN Close(w)
     ELSE sess' = [sess EXCEPT ![w].stage = "mail"]
  /\ UNCHANGED <<now, mail, requests, misses>>

\* Mutant: a registration that hits the unique index is tried again.
CommitRetries(w) ==
  LET s == sess[w] IN
  IF s.op = "register" /\ users[s.user].exists
  THEN s.stage = "ready" /\ UNCHANGED vars
  ELSE CommitNoUnique(w)

\* db.commit().  The unique index on users.email makes the second of two
\* registrations of an address fail here.  What follows a commit is a read of
\* the row just written and the answer, or the mail with the one-time token.
Commit(w) ==
  LET s == sess[w] IN
  /\ s.stage = "ready"
  /\ \/ /\ s.op = "register" /\ users[s.user].exists
        /\ Refuse(w, NoSession)
     \/ /\ ~(s.op = "register" /\ users[s.user].exists)
        /\ Write(s)
        /\ IF s.new_link = NoLink THEN Close(w)
           ELSE sess' = [sess EXCEPT ![w] =
                  [NoSession EXCEPT !.op = s.op, !.stage = "mail",
                                    !.new_link = s.new_link]]
        /\ misses' = IF s.op \in {"login", "admin_unlock"}
                     THEN [misses EXCEPT ![s.user] = NoMisses] ELSE misses
        /\ UNCHANGED <<now, mail, requests>>

-----------------------------------------------------------------------------
\* Every variable holds values of its kind.
TypeOK ==
  /\ now \in Nat /\ requests \in Nat
  /\ users \in [Users -> UserRow]
  /\ refresh_tokens \in [Tokens -> RefreshRow]
  /\ links \in [Links -> LinkRow]
  /\ audit \in [AuditEventType -> Nat]
  /\ access \in [Users -> Nat]
  /\ mail \subseteq Links
  /\ sess \in [Workers -> Session]
  /\ parent \in [Tokens -> TokenRef]
  /\ cut \subseteq Tokens
  /\ redeemed \in [Links -> Nat]
  /\ misses \in [Users -> [count : Nat, last : Nat]]
=============================================================================
