----------------------------- MODULE AuthSystem -----------------------------
(***************************************************************************)
(* The authentication service: workers that each serve one request at a    *)
(* time, AuthService and UserService as the handlers, AuthStore as the     *)
(* database.  Clients send the requests of Ops in any order, with any      *)
(* argument they can hold: a refresh token once it is issued, a one-time   *)
(* token once it was mailed, an account they had an access token for.      *)
(***************************************************************************)
EXTENDS AuthService, UserService

Seed ==
  [u \in Users |->
    IF u \in SeedAdmins THEN [NewUser(SeedPassword) EXCEPT !.role = "admin"]
    ELSE IF u \in SeedMembers THEN NewUser(SeedPassword) ELSE NoRow]

Init ==
  /\ now = 1 /\ requests = 0
  /\ users = Seed
  /\ refresh_tokens = [t \in Tokens |-> NoRefreshRow]
  /\ links = [k \in Links |-> NoLinkRow]
  /\ audit = [a \in AuditEventType |-> 0]
  /\ access = [u \in Users |-> 0]
  /\ mail = {}
  /\ sess = [w \in Workers |-> NoSession]
  /\ parent = [t \in Tokens |-> NoToken]
  /\ cut = {}
  /\ redeemed = [k \in Links |-> 0]
  /\ misses = [u \in Users |-> NoMisses]

-----------------------------------------------------------------------------
(* A request reaches worker w.  Rows are a bounded supply: a request that  *)
(* inserts one is only sent while every such request can have its own.     *)

Inserting(ops) ==
  {w \in Workers : sess[w].op \in ops
                   /\ sess[w].stage \in {"begin", "token_read"}}

TokenLeft == Cardinality({t \in Tokens : Fresh(t)})
               > Cardinality(Inserting({"login", "refresh"}))
LinkLeft == Cardinality({k \in Links : FreshLink(k)})
              > Cardinality(Inserting(LinkOps))

Receive(w, request) ==
  /\ request.op \in Ops
  /\ sess[w].stage = "idle"
  /\ requests < MaxRequests
  /\ requests' = requests + 1
  /\ sess' = [sess EXCEPT ![w] = request]
  /\ UNCHANGED <<now, tables, mail, history, misses>>

Request(op) == [NoSession EXCEPT !.op = op, !.stage = "begin"]

ReceiveCredentials(w) ==
  \E u \in Users, pw \in Passwords, op \in {"register", "login"} :
    /\ op = "login" => TokenLeft
    /\ Receive(w, [Request(op) EXCEPT !.user = u, !.password = pw])

ReceiveRefreshToken(w) ==
  \E t \in Tokens, op \in {"refresh", "logout"} :
    /\ Issued(t)
    /\ op = "refresh" => TokenLeft
    /\ Receive(w, [Request(op) EXCEPT !.token = t])

ReceiveAddress(w) ==
  \E u \in Users, op \in LinkOps :
    /\ LinkLeft
    /\ Receive(w, [Request(op) EXCEPT !.user = u])

ReceiveLink(w) ==
  \E k \in mail :
    \/ Receive(w, [Request("verify_email_confirm") EXCEPT !.link = k])
    \/ \E pw \in Passwords :
         Receive(w, [Request("password_reset_confirm") EXCEPT
                     !.link = k, !.new_password = pw])

ReceiveSelf(w) ==
  \E u \in {v \in Users : access[v] > 0} :
    \/ \E op \in {"patch_me", "deactivate_me"} :
         Receive(w, [Request(op) EXCEPT !.actor = u])
    \/ \E pw, new \in Passwords :
         Receive(w, [Request("change_password") EXCEPT
                     !.actor = u, !.password = pw, !.new_password = new])
    \/ \E t \in {i \in Tokens : Issued(i)} :
         Receive(w, [Request("revoke_session") EXCEPT
                     !.actor = u, !.token = t])
    \/ \E t \in {i \in Tokens : Issued(i)} \cup {NoToken} :
         Receive(w, [Request("revoke_all") EXCEPT !.actor = u, !.token = t])

ReceiveAdmin(w) ==
  \E u \in {v \in Users : access[v] > 0}, target \in Users :
    \/ \E op \in {"admin_unlock", "admin_revoke"} :
         Receive(w, [Request(op) EXCEPT !.actor = u, !.target = target])
    \/ \E p \in Payloads :
         Receive(w, [Request("admin_update") EXCEPT
                     !.actor = u, !.target = target, !.payload = p])

Client(w) ==
  \/ ReceiveCredentials(w) \/ ReceiveRefreshToken(w) \/ ReceiveAddress(w)
  \/ ReceiveLink(w) \/ ReceiveSelf(w) \/ ReceiveAdmin(w)

-----------------------------------------------------------------------------
Handle(w) == PublicStep(w) \/ BearerStep(w) \/ Commit(w)

Tick ==
  /\ now < MaxTime
  /\ now' = now + 1
  /\ UNCHANGED <<tables, mail, sess, requests, history, misses>>

\* Nothing is asked of the service any more: the only place it may stop.
Quiet == (\A w \in Workers : sess[w].stage = "idle") /\ UNCHANGED vars

Next == (\E w \in Workers : Client(w) \/ Handle(w)) \/ Tick \/ Quiet

Spec == Init /\ [][Next]_vars

\* A thread that has a request keeps running as long as it waits for nobody but
\* the database; nobody has to send a request.  The mail server need not
\* answer: smtplib.SMTP is given no timeout, and a thread may wait for it
\* forever (email_service.send_email).
AtMail(w) == sess[w].stage = "mail"

FairSpec == Spec /\ \A w \in Workers : WF_vars(~AtMail(w) /\ Handle(w))
-----------------------------------------------------------------------------
(* Safety, whatever the interleaving of the workers                        *)

\* "Log out everywhere" is final.  Once a password change, a deactivation,
\* an administrator's or the user's own revoke-all has committed, no refresh
\* token that was in the table when it looked (but the one asked to be kept)
\* is ever accepted again, though each of these only touches the rows that
\* were live at its SELECT and other requests commit around it
\* (user_service._revoke_refresh_tokens).
CutTokensStayDead == \A t \in cut : Issued(t) /\ ~Live(t)

\* A refresh token that was exchanged for another is revoked, and both belong
\* to the same user: the revocation of the old row and the insertion of the
\* new one reach the database together or not at all
\* (auth_service.refresh_tokens).
RotationRevokesParent ==
  \A t \in Tokens : parent[t] # NoToken =>
    /\ refresh_tokens[parent[t]].revoked
    /\ refresh_tokens[parent[t]].user = refresh_tokens[t].user

\* refresh_tokens reads the row, checks it, and revokes it at the commit with
\* no lock in between.  So one token may be exchanged more than once, but
\* never more often than there are threads; a single thread rotates exactly.
Children(t) == {c \in Tokens : parent[c] = t}

RotationsBounded ==
  \A t \in Tokens : Cardinality(Children(t)) <= Cardinality(Workers)

\* The same for one-time tokens (confirm_email_verification,
\* confirm_password_reset): each takes effect at most once per thread.
RedemptionsBounded == \A k \in Links : redeemed[k] <= Cardinality(Workers)

\* The audit trail and the tables tell the same story: what a transaction
\* inserts or redeems and the event it logs are committed together, so no
\* account, refresh token or one-time token exists without its event, and no
\* event is logged for a request that failed (_audit and every caller).
NewAccounts ==
  {u \in Users \ (SeedAdmins \cup SeedMembers) : users[u].exists}

AuditMatchesTables ==
  /\ audit["register"] = Cardinality(NewAccounts)
  /\ audit["login_success"] + audit["token_refresh"]
       = Cardinality({t \in Tokens : Issued(t)})
  /\ audit["verify_email_request"] + audit["password_reset_request"]
       = Cardinality({k \in Links : Sent(k)})
  /\ audit["login_failure"] = 0

\* is_active and deactivated_at, two columns that three code paths write
\* without a lock, never disagree (deactivate_account, admin_update_user).
DeactivationStamped ==
  \A u \in Users : users[u].deactivated = ~users[u].is_active

\* Lost updates.  A request changes the password, the role or the activity of
\* an account only if that is what it was sent for and it acts for the owner,
\* an administrator or the addressee of the one-time token: a request that
\* loaded the row earlier and commits later brings no old value back.
Committing(w, ops, u) ==
  sess[w].stage = "ready" /\ sess[w].op \in ops /\ sess[w].user = u

PasswordOwner(w, u) ==
  \/ Committing(w, {"change_password"}, u) /\ sess[w].actor = u
  \/ Committing(w, {"password_reset_confirm"}, u)
     /\ sess[w].link \in mail /\ links[sess[w].link].user = u
     /\ links[sess[w].link].kind = "password_reset_request"
  \/ Committing(w, {"register"}, u) /\ ~users[u].exists

OnlyOwnersWrite ==
  [][\A u \in Users :
       /\ users'[u].password # users[u].password =>
            \E w \in Workers : PasswordOwner(w, u)
       /\ users'[u].role # users[u].role =>
            \E w \in Workers : Committing(w, {"admin_update"}, u)
                              /\ sess[w].payload.role = users'[u].role
       /\ users'[u].is_active # users[u].is_active =>
            \E w \in Workers :
              \/ Committing(w, {"admin_update"}, u)
                 /\ sess[w].payload.is_active # "keep"
              \/ Committing(w, {"deactivate_me"}, u) /\ sess[w].actor = u
    ]_vars

\* A one-time token that reached a mailbox is in the database: the mail goes
\* out only after the commit (verify_email_request, password_reset_request),
\* and every one-time token used was mailed first.
MailFollowsCommit ==
  \A k \in Links : (k \in mail => Sent(k)) /\ (redeemed[k] > 0 => k \in mail)

\* The lockout columns never leave their initial values in the server: what
\* authenticate_user counts is discarded with the session when it raises.
LockoutIsInert ==
  \A u \in Users : users[u].failed_attempts = 0 /\ users[u].locked_until = 0

-----------------------------------------------------------------------------
(* What the tests and error messages promise.  These hold with one worker  *)
(* (or, for LockoutEngages, with the test fixture's shared session).       *)

ActiveAdmins ==
  {u \in Users : users[u].exists /\ users[u].is_active
                 /\ users[u].role = "admin"}

\* test_lockout_after_repeated_failed_logins: the account does not accept a
\* login within the lock time of LOCKOUT_THRESHOLD wrong passwords.
LockoutEngages ==
  \A w \in Workers : InStage(w, "login", "ready") =>
    LET m == misses[sess[w].user] IN
    m.count >= LOCKOUT_THRESHOLD => m.last + LOCKOUT_TIME <= now

\* "Cannot demote the last active admin", "Cannot deactivate the last active
\* admin": the update of an account never leaves the service without one.
AdminUpdateKeepsAnAdmin ==
  [][\A w \in Workers :
       InStage(w, "admin_update", "ready") /\ sess'[w] # sess[w]
         /\ ActiveAdmins # {} => ActiveAdmins' # {}]_vars

\* The same of the whole service.
AlwaysAnAdmin == SeedAdmins # {} => ActiveAdmins # {}

\* test_change_password_revokes_sessions: after a password change the user
\* has no refresh token that is still accepted.
PasswordChangeEndsSessions ==
  [][\A w \in Workers :
       InStage(w, "change_password", "ready") /\ sess'[w] # sess[w]
         => \A t \in Tokens : refresh_tokens[t].user = sess[w].user
                               => ~Live(t)']_vars

\* A deactivated account has no live session: every path that clears
\* is_active revokes them, and neither a login nor a refresh adds one.
InactiveHasNoSession ==
  \A t \in Tokens : Live(t) => users[refresh_tokens[t].user].is_active

-----------------------------------------------------------------------------
\* Every request that reaches a worker is decided: it is answered, or committed
\* and left to the mail server, whatever the other threads do, those that
\* wait for the mail server forever included.  No handler waits for another,
\* and none tries again what failed.
RequestsFinish ==
  \A w \in Workers :
    sess[w].stage # "idle" /\ ~AtMail(w) ~> sess[w].stage = "idle" \/ AtMail(w)
=============================================================================
