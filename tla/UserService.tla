---------------------------- MODULE UserService ----------------------------
(***************************************************************************)
(* The requests of a signed-in user and of an administrator:               *)
(* backend/services/user_service.py under backend/api/user_profile.py and  *)
(* backend/api/users.py, behind the checks of backend/api/dependencies.py. *)
(* DELETE /users/{id} is admin_update with is_active = "off".              *)
(***************************************************************************)
EXTENDS AuthStore

\* Mutant: the role is not looked at.
AuthorizedAnyRole(u, op) ==
  access[u] > now /\ users[u].exists /\ users[u].is_active

\* get_current_user and require_role: the row is loaded here, once.
Authorized(u, op) ==
  /\ access[u] > now
  /\ users[u].exists /\ users[u].is_active
  /\ op \in AdminOps => users[u].role = "admin"

Authenticate(w) ==
  LET s == sess[w] IN
  /\ s.op \in BearerOps /\ s.stage = "begin"
  /\ \/ ~Authorized(s.actor, s.op) /\ Refuse(w, s)
     \/ /\ Authorized(s.actor, s.op)
        /\ Step(w, [s EXCEPT !.stage = "authed", !.user = s.actor,
                             !.loaded = users[s.actor],
                             !.row = users[s.actor]])

\* _revoke_refresh_tokens: the live tokens of the user the session holds,
\* and an audit event when there was one.
TokensOf(u) == {t \in Tokens : refresh_tokens[t].user = u}

\* Mutants: the token to keep is the one revoked; the tokens of the caller are
\* revoked and not those of the user.
RevokeAllOfInverted(s, keep, event) ==
  LET live == {t \in TokensOf(s.user) : Live(t)}
      gone == IF keep \cap Tokens = {} THEN live ELSE live \cap keep
  IN
  [s EXCEPT !.seen = TokensOf(s.user) \ keep, !.revoke = gone,
            !.revoke_event = IF gone = {} THEN "none" ELSE event]

RevokeAllOfActor(s, keep, event) ==
  LET live == {t \in TokensOf(s.actor) : Live(t)} \ keep IN
  [s EXCEPT !.seen = TokensOf(s.user) \ keep, !.revoke = live,
            !.revoke_event = IF live = {} THEN "none" ELSE event]

RevokeAllOf(s, keep, event) ==
  LET live == {t \in TokensOf(s.user) : Live(t)} \ keep IN
  [s EXCEPT !.seen = TokensOf(s.user) \ keep, !.revoke = live,
            !.revoke_event = IF live = {} THEN "none" ELSE event]

\* Mutant: deactivated administrators count.
CountAdminsEver ==
  Cardinality({u \in Users : users[u].exists /\ users[u].role = "admin"})

CountAdmins ==
  Cardinality({u \in Users : users[u].exists /\ users[u].is_active
                              /\ users[u].role = "admin"})

-----------------------------------------------------------------------------
(* /auth/me                                                                *)

PatchMe(w) ==
  /\ InStage(w, "patch_me", "authed")
  /\ Step(w, [sess[w] EXCEPT !.stage = "ready", !.event = "profile_updated"])

\* Mutant: the sessions survive.
ChangePasswordOnly(w) ==
  LET s == sess[w] IN
  /\ InStage(w, "change_password", "authed")
  /\ Step(w, [s EXCEPT !.stage = "ready", !.row.password = s.new_password,
                       !.event = "password_changed"])

ChangePassword(w) ==
  LET s == sess[w]
      refused == s.password # s.row.password \/ s.password = s.new_password
  IN
  /\ InStage(w, "change_password", "authed")
  /\ \/ refused /\ Refuse(w, s)
     \/ /\ ~refused
        /\ Step(w, [RevokeAllOf(s, {}, "session_revoked") EXCEPT
                     !.stage = "ready", !.row.password = s.new_password,
                     !.event = "password_changed"])

\* The row is active: Authenticate has seen it in this session.
DeactivateMe(w) ==
  /\ InStage(w, "deactivate_me", "authed")
  /\ Step(w, [RevokeAllOf(sess[w], {}, "account_deactivated") EXCEPT
               !.stage = "ready",
               !.row.is_active = FALSE, !.row.deactivated = TRUE,
               !.event = "account_deactivated"])

RevokeSession(w) ==
  LET s == sess[w]
      found == Live(s.token) /\ refresh_tokens[s.token].user = s.user
  IN
  /\ InStage(w, "revoke_session", "authed")
  /\ \/ ~found /\ Refuse(w, s)
     \/ /\ found
        /\ Step(w, [s EXCEPT !.stage = "ready", !.revoke = {s.token},
                             !.event = "session_revoked"])

\* Mutant: an event type the enumeration does not have.
RevokeAllSessionsUntyped(w) ==
  /\ InStage(w, "revoke_all", "authed")
  /\ Step(w, [RevokeAllOf(sess[w], {sess[w].token}, "all_sessions_revoked")
              EXCEPT !.stage = "ready"])

\* token is keep_refresh_token, NoToken when the body has none.  One that has
\* expired does not decode.
RevokeAllSessions(w) ==
  LET s == sess[w]
      undecodable ==
        s.token # NoToken /\ refresh_tokens[s.token].expires <= now
  IN
  /\ InStage(w, "revoke_all", "authed")
  /\ \/ undecodable /\ Refuse(w, s)
     \/ /\ ~undecodable
        /\ Step(w, [RevokeAllOf(s, {s.token}, "session_revoked")
                    EXCEPT !.stage = "ready"])

-----------------------------------------------------------------------------
(* /users/{id}                                                             *)

\* get_user_by_id.  The administrator's own row is in the session already
\* and is not read again.
LoadTarget(w) ==
  LET s == sess[w]
      db == users[s.target]
  IN
  /\ s.op \in AdminOps /\ s.stage = "authed"
  /\ \/ s.target = s.actor /\ Step(w, [s EXCEPT !.stage = "loaded"])
     \/ s.target # s.actor /\ ~db.exists /\ Refuse(w, s)
     \/ /\ s.target # s.actor /\ db.exists
        /\ Step(w, [s EXCEPT !.stage = "loaded", !.user = s.target,
                             !.loaded = db, !.row = db])

Switched(value, current) == IF value = "keep" THEN current ELSE value = "on"

\* The end of admin_update_user.
Updated(s) ==
  [s EXCEPT !.stage = "ready", !.event = "admin_user_updated",
            !.row.is_verified = Switched(s.payload.is_verified, @)]

AdminUpdateRole(w) ==
  LET s == sess[w]
      role == IF s.payload.role = "keep" THEN s.row.role ELSE s.payload.role
      demotion == s.row.role = "admin" /\ role # "admin"
      refused == \/ s.actor = s.target /\ s.payload.is_active = "off"
                 \/ demotion /\ CountAdmins <= 1
  IN
  /\ InStage(w, "admin_update", "loaded")
  /\ \/ refused /\ Refuse(w, s)
     \/ /\ ~refused
        /\ Step(w, [s EXCEPT !.stage = "role_done", !.row.role = role])

\* Mutant: reactivation leaves deactivated_at.  In the second one a
\* deactivation leaves the sessions.
AdminUpdateActiveKeepsStamp(w) ==
  LET s == sess[w]
      active == Switched(s.payload.is_active, s.row.is_active)
  IN
  /\ InStage(w, "admin_update", "role_done")
  /\ Step(w, [Updated(s) EXCEPT !.row.is_active = active,
                                !.row.deactivated = @ \/ ~active])

AdminUpdateActiveKeepsSessions(w) ==
  LET s == sess[w]
      active == Switched(s.payload.is_active, s.row.is_active)
  IN
  /\ InStage(w, "admin_update", "role_done")
  /\ Step(w, [Updated(s) EXCEPT !.row.is_active = active,
                                !.row.deactivated = ~active])

AdminUpdateActive(w) ==
  LET s == sess[w]
      active == Switched(s.payload.is_active, s.row.is_active)
      deactivation == s.row.is_active /\ ~active
      refused == deactivation /\ s.row.role = "admin" /\ CountAdmins <= 1
  IN
  /\ InStage(w, "admin_update", "role_done")
  /\ \/ refused /\ Refuse(w, s)
     \/ active = s.row.is_active /\ Step(w, Updated(s))
     \/ /\ active /\ ~s.row.is_active
        /\ Step(w, [Updated(s) EXCEPT !.row.is_active = TRUE,
                                      !.row.deactivated = FALSE])
     \/ /\ deactivation /\ ~refused
        /\ Step(w, [s EXCEPT !.stage = "revoke", !.row.is_active = FALSE,
                             !.row.deactivated = TRUE])

AdminUpdateRevoke(w) ==
  /\ InStage(w, "admin_update", "revoke")
  /\ Step(w, Updated(RevokeAllOf(sess[w], {}, "admin_sessions_revoked")))

AdminUnlock(w) ==
  LET s == sess[w] IN
  /\ InStage(w, "admin_unlock", "loaded")
  /\ Step(w, [s EXCEPT !.stage = "ready", !.event = "admin_user_unlocked",
                       !.row.failed_attempts = 0, !.row.locked_until = 0])

AdminRevokeSessions(w) ==
  /\ InStage(w, "admin_revoke", "loaded")
  /\ Step(w, [RevokeAllOf(sess[w], {}, "admin_sessions_revoked")
              EXCEPT !.stage = "ready"])

BearerStep(w) ==
  \/ Authenticate(w) \/ PatchMe(w) \/ ChangePassword(w) \/ DeactivateMe(w)
  \/ RevokeSession(w) \/ RevokeAllSessions(w) \/ LoadTarget(w)
  \/ AdminUpdateRole(w) \/ AdminUpdateActive(w) \/ AdminUpdateRevoke(w)
  \/ AdminUnlock(w) \/ AdminRevokeSessions(w)
=============================================================================
