---------------------------- MODULE AuthService ----------------------------
(***************************************************************************)
(* The public requests: backend/services/auth_service.py under the         *)
(* handlers of backend/api/auth.py.  An action is what a handler does up   *)
(* to its next statement that reads the database; the last one leaves the  *)
(* session "ready" and Commit of AuthStore follows.                        *)
(*                                                                         *)
(* A request the rate limiter turns away touches nothing in these tables,  *)
(* so it is one that is never received.                                    *)
(***************************************************************************)
EXTENDS AuthStore

\* uuid4() and token_urlsafe(48) do not repeat.
Fresh(t) == ~Issued(t) /\ \A w \in Workers : sess[w].issue # t
FreshLink(k) == ~Sent(k) /\ \A w \in Workers : sess[w].new_link # k

RegisterUser(w) ==
  LET s == sess[w] IN
  /\ InStage(w, "register", "begin")
  /\ \/ users[s.user].exists /\ Refuse(w, s)
     \/ /\ ~users[s.user].exists
        /\ Step(w, [s EXCEPT !.stage = "ready", !.event = "register",
                             !.row = NewUser(s.password)])

-----------------------------------------------------------------------------
(* login(), which calls authenticate_user().                               *)

\* Mutant: one wrong password more than the threshold locks the account.
MissedOneMore(row) ==
  IF row.failed_attempts + 1 > LOCKOUT_THRESHOLD
  THEN [row EXCEPT !.locked_until = now + LOCKOUT_TIME, !.failed_attempts = 0]
  ELSE [row EXCEPT !.failed_attempts = @ + 1]

\* One more wrong password: the column update of authenticate_user.
Missed(row) ==
  IF row.failed_attempts + 1 >= LOCKOUT_THRESHOLD
  THEN [row EXCEPT !.locked_until = now + LOCKOUT_TIME, !.failed_attempts = 0]
  ELSE [row EXCEPT !.failed_attempts = @ + 1]

Unlocked(row) == [row EXCEPT !.failed_attempts = 0, !.locked_until = 0]

\* History: the answers the client of an account sees.  A miss after a full
\* round of them begins a new round.
CountMiss(u) ==
  misses' = [misses EXCEPT ![u] =
    [count |-> IF @.count >= LOCKOUT_THRESHOLD THEN 1 ELSE @.count + 1,
     last |-> now]]

Login(w) ==
  LET s == sess[w]
      db == users[s.user]
      Loaded(row, event) ==
        [s EXCEPT !.loaded = db, !.row = row, !.event = event]
  IN
  /\ InStage(w, "login", "begin")
  /\ \/ ~db.exists /\ Refuse(w, [s EXCEPT !.event = "login_failure"])
     \/ /\ db.exists /\ db.locked_until > now
        /\ Refuse(w, Loaded(db, "login_failure"))
     \/ /\ db.exists /\ db.locked_until <= now /\ db.password # s.password
        /\ Reject(w, Loaded(Missed(db), "login_failure"))
        /\ CountMiss(s.user)
     \/ /\ db.exists /\ db.locked_until <= now /\ db.password = s.password
        /\ ~db.is_active
        /\ Reject(w, Loaded(Unlocked(db), "login_success"))
        /\ misses' = [misses EXCEPT ![s.user] = NoMisses]
     \/ /\ db.exists /\ db.locked_until <= now /\ db.password = s.password
        /\ db.is_active
        /\ \E t \in Tokens :
             /\ Fresh(t)
             /\ Step(w, [Loaded(Unlocked(db), "login_success") EXCEPT
                          !.stage = "ready", !.issue = t, !.at = now])

-----------------------------------------------------------------------------
(* refresh_tokens(): the token row is read first, then its user.           *)

\* Mutant: a token that decodes is good, whatever its row says.
RefreshTokenUnchecked(w) ==
  /\ InStage(w, "refresh", "begin")
  /\ Step(w, [sess[w] EXCEPT !.stage = "token_read",
                !.user = refresh_tokens[sess[w].token].user])

RefreshToken(w) ==
  LET s == sess[w] IN
  /\ InStage(w, "refresh", "begin")
  /\ \/ ~Live(s.token) /\ Refuse(w, s)
     \/ /\ Live(s.token)
        /\ Step(w, [s EXCEPT !.stage = "token_read",
                             !.user = refresh_tokens[s.token].user])

\* Mutants: the old token is not revoked; the exchange is not audited.
RefreshUserKeepsOld(w) ==
  /\ InStage(w, "refresh", "token_read")
  /\ \E t \in Tokens :
       /\ Fresh(t)
       /\ Step(w, [sess[w] EXCEPT !.stage = "ready", !.issue = t, !.at = now,
                                  !.event = "token_refresh"])

RefreshUserSilent(w) ==
  /\ InStage(w, "refresh", "token_read")
  /\ \E t \in Tokens :
       /\ Fresh(t)
       /\ Step(w, [sess[w] EXCEPT !.stage = "ready", !.issue = t, !.at = now,
                                  !.revoke = {sess[w].token}])

RefreshUser(w) ==
  LET s == sess[w]
      db == users[s.user]
  IN
  /\ InStage(w, "refresh", "token_read")
  /\ \/ ~db.is_active /\ Refuse(w, s)
     \/ /\ db.is_active
        /\ \E t \in Tokens :
             /\ Fresh(t)
             /\ Step(w, [s EXCEPT !.stage = "ready", !.loaded = db, !.row = db,
                                  !.revoke = {s.token}, !.issue = t, !.at = now,
                                  !.event = "token_refresh"])

\* A token that cannot be decoded (it expired) or is revoked already is
\* answered like any other: the handler commits nothing.
Logout(w) ==
  LET s == sess[w] IN
  /\ InStage(w, "logout", "begin")
  /\ \/ ~Live(s.token) /\ Step(w, [s EXCEPT !.stage = "ready"])
     \/ /\ Live(s.token)
        /\ Step(w, [s EXCEPT !.stage = "ready", !.revoke = {s.token},
                             !.event = "logout"])

-----------------------------------------------------------------------------
(* One-time tokens: request_email_verification and request_password_reset, *)
(* then confirm_email_verification and confirm_password_reset.             *)

\* Mutant: the mail goes out before the commit.
RequestLinkMailsFirst(w) ==
  /\ sess[w].op \in LinkOps /\ sess[w].stage = "begin"
  /\ \E k \in Links :
       /\ FreshLink(k)
       /\ mail' = mail \cup {k}
       /\ sess' = [sess EXCEPT ![w].stage = "ready", ![w].new_link = k,
                               ![w].at = now, ![w].event = sess[w].op]
  /\ UNCHANGED <<now, tables, requests, history, misses>>

RequestLink(w) ==
  LET s == sess[w] IN
  /\ s.op \in LinkOps /\ s.stage = "begin"
  /\ \/ ~users[s.user].exists /\ Step(w, [s EXCEPT !.stage = "ready"])
     \/ /\ users[s.user].exists
        /\ \E k \in Links :
             /\ FreshLink(k)
             /\ Step(w, [s EXCEPT !.stage = "ready", !.new_link = k,
                                  !.at = now, !.event = s.op])

\* send_email() after the commit: it may raise, and the row stays.  It may also
\* never return, as the connection has no timeout: no fairness asks for this
\* step, and a thread may stay in it for good.
SendEmail(w) ==
  /\ sess[w].stage = "mail"
  /\ \/ mail' = mail \cup {sess[w].new_link}
     \/ UNCHANGED mail
  /\ Close(w)
  /\ UNCHANGED <<now, tables, requests, history, misses>>

KindOf(op) ==
  IF op = "verify_email_confirm"
  THEN "verify_email_request" ELSE "password_reset_request"

\* Mutant: the query forgets used_at IS NULL.
RedeemableAgain(k, op) ==
  Sent(k) /\ links[k].kind = KindOf(op) /\ links[k].expires > now

Redeemable(k, op) ==
  /\ Sent(k) /\ links[k].kind = KindOf(op)
  /\ ~links[k].used /\ links[k].expires > now

ConfirmLink(w) ==
  LET s == sess[w] IN
  /\ s.op \in ConfirmOps /\ s.stage = "begin"
  /\ \/ ~Redeemable(s.link, s.op) /\ Refuse(w, s)
     \/ /\ Redeemable(s.link, s.op)
        /\ Step(w, [s EXCEPT !.stage = "link_read",
                             !.user = links[s.link].user])

\* hash_password salts every hash, so a reset writes the column even if the
\* password is the one the account has: no password is the one it loaded.
ConfirmLinkUser(w) ==
  LET s == sess[w]
      db == users[s.user]
      Loaded == [s EXCEPT !.stage = "ready", !.redeem = {s.link},
                          !.loaded = db, !.row = db]
  IN
  \/ /\ InStage(w, "verify_email_confirm", "link_read")
     /\ Step(w, [Loaded EXCEPT !.row.is_verified = TRUE,
                               !.event = "verify_email_success"])
  \/ /\ InStage(w, "password_reset_confirm", "link_read")
     /\ Step(w, [Loaded EXCEPT !.loaded.password = NoPassword,
                               !.row.password = s.new_password,
                               !.event = "password_reset_success"])

PublicStep(w) ==
  \/ RegisterUser(w) \/ Login(w) \/ RefreshToken(w) \/ RefreshUser(w)
  \/ Logout(w) \/ RequestLink(w) \/ SendEmail(w)
  \/ ConfirmLink(w) \/ ConfirmLinkUser(w)
=============================================================================
