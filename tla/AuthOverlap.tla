----------------------------- MODULE AuthOverlap -----------------------------
(***************************************************************************)
(* What the tests and the error messages promise holds while requests do   *)
(* not meet, and the runs MCLastAdminRace and MCPasswordChangeRace show    *)
(* that it need not when they do.  This module says exactly when: it adds  *)
(* to AuthSystem two history variables that record, for every request in   *)
(* progress, which accounts other requests have changed in the tables      *)
(* since it began.  Each promise is then a property of the server with any *)
(* number of threads: it may fail for one account, and only where another  *)
(* transaction committed to that very account within the request.          *)
(***************************************************************************)
EXTENDS AuthSystem

VARIABLES
  rewritten,  \* per worker: accounts whose row of users others changed
  moved       \* per worker: accounts whose refresh tokens others changed

overlaps == <<rewritten, moved>>

RowChanged(u) == users'[u] # users[u]

TokensChanged(u) ==
  \E t \in Tokens : /\ refresh_tokens'[t] # refresh_tokens[t]
                    /\ refresh_tokens'[t].user = u

\* A worker that steps itself is not disturbed by its own changes, and one
\* that is idle has no request that could be.
Since(w, before, changed) ==
  IF sess'[w].stage = "idle" THEN {}
  ELSE IF sess'[w] # sess[w] THEN before ELSE before \cup changed

Observe ==
  /\ rewritten' = [w \in Workers |->
       Since(w, rewritten[w], {u \in Users : RowChanged(u)})]
  /\ moved' = [w \in Workers |->
       Since(w, moved[w], {u \in Users : TokensChanged(u)})]

OverlapInit ==
  /\ Init
  /\ rewritten = [w \in Workers |-> {}]
  /\ moved = [w \in Workers |-> {}]

OverlapNext == Next /\ Observe

OverlapSpec == OverlapInit /\ [][OverlapNext]_<<vars, overlaps>>

-----------------------------------------------------------------------------
(* The promises, with the overlap each of them tolerates                   *)

Leaves(w) == sess[w].stage = "ready" /\ sess'[w] # sess[w]

NoSessionLeft(u) ==
  \A t \in Tokens : refresh_tokens'[t].user = u => ~Live(t)'

\* "Refresh token revoked or expired": a token whose row is revoked is
\* exchanged for a new one only by a request that was in progress when
\* another one changed the tokens of its owner (auth_service.refresh_tokens
\* reads the row, and revokes it at the commit).
RevokedIsNotExchanged ==
  [][\A w \in Workers :
       Leaves(w) /\ sess[w].op = "refresh" /\ sess[w].user \notin moved[w]
       => ~refresh_tokens[sess[w].token].revoked]_<<vars, overlaps>>

\* test_change_password_revokes_sessions: after a password change no refresh
\* token of the account is accepted, unless its tokens changed between the
\* beginning of the request and its commit (user_service.change_password).
PasswordChangeIsFinal ==
  [][\A w \in Workers :
       LET u == sess[w].user IN
       Leaves(w) /\ sess[w].op = "change_password" /\ u \notin moved[w]
       => NoSessionLeft(u)]_<<vars, overlaps>>

\* A transaction that deactivates an account leaves it no live session, and
\* one that opens a session opens it for an active account, unless another
\* one committed to that account meanwhile (deactivate_account and
\* admin_update_user on one side, login and refresh_tokens on the other).
InactiveGetsNoSession ==
  [][\A w \in Workers :
       LET u == sess[w].user IN
       Leaves(w) /\ u \in Users \ (rewritten[w] \cup moved[w])
         /\ (sess[w].issue # NoToken \/ users[u].is_active)
       => users'[u].is_active \/ NoSessionLeft(u)]_<<vars, overlaps>>

\* "Cannot demote the last active admin", "Cannot deactivate the last active
\* admin": an update of an account leaves the service an active administrator,
\* unless the row of some account changed since the update began
\* (admin_update_user counts, and commits what it decided later).
UpdateSparesAnAdmin ==
  [][\A w \in Workers :
       Leaves(w) /\ sess[w].op = "admin_update" /\ rewritten[w] = {}
         /\ ActiveAdmins # {}
       => ActiveAdmins' # {}]_<<vars, overlaps>>

\* What a request was let in for is still so when its change is committed: its
\* account is active, an administrator's has the role, and the password given
\* for the current one is the current one.  All three are checked on the row
\* loaded when the request began, several statements before the commit
\* (get_current_user, require_role, change_password).  A demotion or a
\* password reset that commits in between goes unnoticed, but nothing else
\* does: neither a change of another account nor the request's own.
ChangesAreAuthorized ==
  [][\A w \in Workers :
       LET s == sess[w] IN
       Leaves(w) /\ s.op \in BearerOps /\ s.actor \notin rewritten[w] =>
         /\ users[s.actor].is_active
         /\ s.op \in AdminOps => s.actor \in ActiveAdmins
         /\ s.op = "change_password" => users[s.actor].password = s.password
    ]_<<vars, overlaps>>
=============================================================================
