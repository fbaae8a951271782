------------------------- MODULE AuthOverlapProofs -------------------------
(***************************************************************************)
(* What the tests and the error messages promise, for any number of        *)
(* threads, accounts, tokens and requests: the properties of AuthOverlap,  *)
(* each with the overlap it tolerates and no other.                        *)
(*                                                                         *)
(* A handler checks the rows it reads and writes several statements later. *)
(* What it has checked by then is still so at its commit for every account *)
(* that no other transaction has touched since the request began.  That is *)
(* the invariant: Current(s, x, y) says of each stage what the handler has *)
(* checked, in terms of the rows as they are now, for the accounts outside *)
(* x (rows of users others changed) and y (refresh tokens others changed). *)
(* A step of another thread may falsify a clause for one account, but then *)
(* AuthOverlap adds that account to x or to y in the same step             *)
(* (Undisturbed).                                                          *)
(***************************************************************************)
EXTENDS AuthRequestProofs, AuthOverlap

\* The stages of a request behind get_current_user, and those in which its
\* session has the row it will write.
Holding == {"authed", "loaded", "role_done", "revoke"}

HasRow(s) == s.stage \in Holding \/ (s.stage = "ready" /\ s.op \in BearerOps)

\* get_current_user, require_role and change_password would let the request
\* in again, and the row held is the committed one.
Admitted(s, x) ==
  /\ s.stage \in Holding => s.op \in BearerOps
  /\ HasRow(s) =>
       /\ s.user \in Users
       /\ s.user \notin x => s.loaded = users[s.user]
       /\ s.actor \notin x =>
            /\ users[s.actor].exists /\ users[s.actor].is_active
            /\ s.op \in AdminOps => users[s.actor].role = "admin"
  /\ s.op = "change_password" /\ s.stage = "ready" /\ s.actor \notin x =>
       users[s.actor].password = s.password

\* authenticate_user and refresh_tokens would accept it again.
Accepted(s, x, y) ==
  /\ \A t \in Tokens :
       Exchanges(s, t) /\ refresh_tokens[t].user \notin y
       => ~refresh_tokens[t].revoked
  /\ s.op = "refresh" /\ s.stage = "ready" => s.issue \in Tokens
  /\ s.issue \in Tokens =>
       /\ s.op \in {"login", "refresh"}
       /\ s.user \notin x => users[s.user].is_active

\* A password change and a deactivation revoke every live token.
MustRevoke(s) ==
  /\ s.stage = "ready"
  /\ s.op = "change_password" \/ (s.loaded.is_active /\ ~s.row.is_active)

Revokes(s, y) ==
  /\ s.stage \notin {"revoke", "ready"} => s.row.is_active = s.loaded.is_active
  /\ MustRevoke(s) /\ s.user \notin y =>
       \A t \in Tokens :
         Live(t) /\ refresh_tokens[t].user = s.user => t \in s.revoke

\* An update that takes an administrator away leaves another one.
ActiveAdmin(row) == row.exists /\ row.is_active /\ row.role = "admin"

SparesAnAdmin(s, x) ==
  HasRow(s) /\ s.op = "admin_update"
    /\ ActiveAdmin(s.loaded) /\ ~ActiveAdmin(s.row) =>
    \E v \in Users \ {s.user} : v \in x \/ ActiveAdmin(users[v])

Current(s, x, y) ==
  Admitted(s, x) /\ Accepted(s, x, y) /\ Revokes(s, y) /\ SparesAnAdmin(s, x)

Orderly == \A w \in Workers : Current(sess[w], rewritten[w], moved[w])

OverlapInv == TokenInv /\ RequestInv /\ Orderly

\* What a session of a worker holds, gathered.
LEMMA SessionFacts ==
  ASSUME NEW w \in Workers, OverlapInv
  PROVE  /\ TypeOK /\ sess[w] \in Session /\ ArgumentsOK(sess[w])
         /\ Pending(sess[w]) /\ Tidy(sess[w])
         /\ Current(sess[w], rewritten[w], moved[w])
         /\ sess[w].stage # "ready" => sess[w].issue = NoToken
         /\ sess[w].stage \notin {"revoke", "ready"} =>
              sess[w].row.is_active = sess[w].loaded.is_active
         /\ sess[w].row \in UserRow /\ sess[w].loaded \in UserRow
         /\ now \in Nat
  BY DEF OverlapInv, TokenInv, TypeInv, TypeOK, RequestInv, Orderly, Pending,
         Current, Revokes, Session

-----------------------------------------------------------------------------
(* The steps of the others                                                 *)

OwnersKept ==
  \A t \in Tokens :
    Issued(t) => refresh_tokens'[t].user = refresh_tokens[t].user

\* A session that does not step: what it has checked stays so but for the
\* accounts that the step adds to its overlap.
LEMMA Undisturbed ==
  ASSUME OverlapInv, Observe, NEW v \in Workers, sess'[v] = sess[v],
         now' \in Nat, now <= now', OwnersKept
  PROVE  Current(sess[v], rewritten[v], moved[v])'
  <1> PICK s, x, y, a, b :
        /\ s = sess[v] /\ x = rewritten[v] /\ y = moved[v]
        /\ a = rewritten'[v] /\ b = moved'[v]
    OBVIOUS
  <1>0. /\ TypeOK /\ s \in Session /\ ArgumentsOK(s) /\ Pending(s) /\ Tidy(s)
        /\ Admitted(s, x) /\ Accepted(s, x, y) /\ Revokes(s, y)
        /\ SparesAnAdmin(s, x) /\ sess'[v] = s /\ now \in Nat
    BY SessionFacts DEF Current
  <1>1. /\ s.stage # "idle" =>
             /\ \A u \in Users : u \notin a => u \notin x /\ users'[u] = users[u]
             /\ \A u \in x : u \in a
             /\ \A t \in Tokens :
                  /\ Issued(t) /\ refresh_tokens[t].user \notin b =>
                       /\ refresh_tokens[t].user \notin y
                       /\ refresh_tokens'[t] = refresh_tokens[t]
                  /\ refresh_tokens'[t].user \in Users \ b =>
                       refresh_tokens'[t] = refresh_tokens[t]
             /\ \A u \in y : u \in b
    <2> SUFFICES ASSUME s.stage # "idle"
                 PROVE  /\ a = x \cup {u \in Users : RowChanged(u)}
                        /\ b = y \cup {u \in Users : TokensChanged(u)}
      BY <1>0, Rows DEF RowChanged, TokensChanged, OwnersKept
    <2> QED BY <1>0 DEF Observe, Since
  <1>2. HasRow(s) => s.user \in Users /\ s.actor \in Users
                     /\ s.stage # "idle" /\ s.op \in BearerOps
    BY <1>0 DEF Admitted, HasRow, Holding, ArgumentsOK
  <1>3. Admitted(s, a)'
    <2>1. s.op = "change_password" => s.op \in BearerOps
      BY DEF BearerOps, SelfOps
    <2>2. s.op = "change_password" /\ s.stage = "ready" => HasRow(s)
      BY <2>1 DEF HasRow
    <2> QED BY <1>0, <1>1, <1>2, <2>2 DEF Admitted, HasRow
  <1>4. Accepted(s, a, b)'
    <2>1. ASSUME NEW t \in Tokens, Exchanges(s, t),
                 refresh_tokens'[t].user \notin b
          PROVE  ~refresh_tokens'[t].revoked
      <3>1. Issued(t) /\ s.stage # "idle"
        BY <1>0, <2>1 DEF Exchanges, Pending
      <3>2. refresh_tokens'[t].user = refresh_tokens[t].user
        BY <3>1 DEF OwnersKept
      <3> QED BY <1>0, <1>1, <2>1, <3>1, <3>2 DEF Accepted
    <2>2. s.issue \in Tokens =>
            /\ s.op \in {"login", "refresh"}
            /\ s.user \notin a => users'[s.user].is_active
      <3>1. s.issue \in Tokens => s.stage # "idle" /\ s.user \in Users
        BY <1>0, Members DEF Pending
      <3> QED BY <1>0, <1>1, <3>1 DEF Accepted
    <2>3. s.op = "refresh" /\ s.stage = "ready" => s.issue \in Tokens
      BY <1>0 DEF Accepted
    <2> QED BY <2>1, <2>2, <2>3 DEF Accepted, Exchanges
  <1>5. Revokes(s, b)'
    <2>1. ASSUME NEW t \in Tokens, Live(t)', refresh_tokens'[t].user = s.user,
                 MustRevoke(s), s.user \notin b
          PROVE  t \in s.revoke
      <3>1. s.op \in BearerOps
        BY <1>0, <2>1
        DEF MustRevoke, Tidy, Changes, BearerOps, SelfOps, AdminOps
      <3>2. s.user \in Users /\ s.stage # "idle"
        BY <1>2, <2>1, <3>1 DEF HasRow, MustRevoke
      <3>3. refresh_tokens'[t] = refresh_tokens[t] /\ s.user \notin y
        BY <1>1, <2>1, <3>2
      <3>4. refresh_tokens[t].expires \in Nat
        BY <1>0 DEF TypeOK, RefreshRow
      <3>5. Live(t)
        BY <1>0, <2>1, <3>3, <3>4 DEF Live, Issued
      <3> QED BY <1>0, <2>1, <3>3, <3>5 DEF Revokes
    <2> QED BY <1>0, <2>1 DEF Revokes, MustRevoke
  <1>6. SparesAnAdmin(s, a)'
    BY <1>0, <1>1, <1>2 DEF SparesAnAdmin
  <1> QED BY <1>0, <1>3, <1>4, <1>5, <1>6 DEF Current
-----------------------------------------------------------------------------
(* The steps of a session itself                                           *)

\* A session that has read nothing, or has nothing left to write.
Plain(r) ==
  r.stage \in {"idle", "begin", "mail"} /\ r.loaded = r.row /\ r.issue = NoToken

LEMMA NoSessionPlain == Plain(NoSession)
  BY DEF Plain, NoSession

LEMMA PlainCurrent ==
  ASSUME NEW r, Plain(r), NEW x, NEW y
  PROVE  Current(r, x, y)
  <1>1. Admitted(r, x) /\ SparesAnAdmin(r, x)
    BY DEF Plain, Admitted, SparesAnAdmin, HasRow, Holding
  <1>2. Accepted(r, x, y)
    BY Members DEF Plain, Accepted, Exchanges
  <1>3. Revokes(r, y)
    BY DEF Plain, Revokes, MustRevoke
  <1> QED BY <1>1, <1>2, <1>3 DEF Current

\* The handler goes on: the tables are as they were.
LEMMA StepOrderly ==
  ASSUME OverlapInv, Observe, NEW w \in Workers, NEW r, Step(w, r),
         r.stage # "idle", Current(r, rewritten[w], moved[w])
  PROVE  Orderly'
  <1>0. now \in Nat /\ OwnersKept /\ sess \in [Workers -> Session]
    BY SessionFacts DEF OwnersKept, Step, tables, OverlapInv, TokenInv, TypeInv,
                        TypeOK
  <1>1. \A v \in Workers \ {w} : Current(sess[v], rewritten[v], moved[v])'
    BY <1>0, Undisturbed DEF Step
  <1>2. Current(sess[w], rewritten[w], moved[w])'
    <2> PICK x, y : x = rewritten[w] /\ y = moved[w]
      OBVIOUS
    <2>1. /\ sess'[w] = r /\ rewritten'[w] = x /\ moved'[w] = y
          /\ UNCHANGED <<now, users, refresh_tokens>>
      BY <1>0 DEF Step, tables, Observe, Since, RowChanged, TokensChanged
    <2>2. Current(r, x, y)'
      BY <2>1
      DEF Current, Admitted, Accepted, Revokes, SparesAnAdmin, Live, Issued
    <2> QED BY <2>1, <2>2
        DEF Current, Admitted, Accepted, Revokes, SparesAnAdmin
  <1> QED BY <1>1, <1>2 DEF Orderly

\* A request begins, or is over.
LEMMA PlainOrderly ==
  ASSUME OverlapInv, Observe, NEW w \in Workers, NEW r, Plain(r),
         sess' = [sess EXCEPT ![w] = r], UNCHANGED now, OwnersKept
  PROVE  Orderly'
  <1>0. now \in Nat /\ sess \in [Workers -> Session]
    BY SessionFacts DEF OverlapInv, TokenInv, TypeInv, TypeOK
  <1>1. \A v \in Workers \ {w} : Current(sess[v], rewritten[v], moved[v])'
    BY <1>0, Undisturbed
  <1>2. sess'[w] = r /\ Plain(sess[w])'
    BY <1>0 DEF Plain
  <1>3. Current(sess[w], rewritten[w], moved[w])'
    <2>1. Admitted(sess[w], rewritten[w])'
      BY <1>2 DEF Plain, Admitted, HasRow, Holding
    <2>2. Accepted(sess[w], rewritten[w], moved[w])'
      BY <1>2, Members DEF Plain, Accepted, Exchanges
    <2>3. Revokes(sess[w], moved[w])' /\ SparesAnAdmin(sess[w], rewritten[w])'
      BY <1>2 DEF Plain, Revokes, MustRevoke, SparesAnAdmin, HasRow, Holding
    <2> QED BY <2>1, <2>2, <2>3 DEF Current
  <1> QED BY <1>1, <1>3 DEF Orderly

\* No transaction gives a refresh token to another user.
LEMMA WriteOwners ==
  ASSUME TypeOK, NEW s, s.issue \in Tokens => ~Issued(s.issue), Write(s)
  PROVE  OwnersKept
  BY DEF TypeOK, RefreshRow, Write, OwnersKept

\* A handler that raises has no token to insert, whether or not what it
\* changed is rolled back.
LEMMA RejectOrderly ==
  ASSUME OverlapInv, Observe, NEW w \in Workers, NEW s, s.issue = NoToken,
         Reject(w, s) \/ Refuse(w, s)
  PROVE  Orderly'
  <1>1. Reject(w, s)
    BY DEF Refuse
  <1>2. OwnersKept
    <2>1. CASE UNCHANGED tables
      BY <2>1 DEF tables, OwnersKept
    <2>2. CASE Write(s)
      BY <2>2, WriteOwners, Members DEF OverlapInv, TokenInv, TypeInv
    <2> QED BY <1>1, <2>1, <2>2 DEF Reject
  <1> QED BY <1>1, <1>2, NoSessionPlain, PlainOrderly DEF Reject, Close

LEMMA HandlerRefuses ==
  ASSUME OverlapInv, Observe, NEW w \in Workers, sess[w].stage # "ready",
         Refuse(w, sess[w])
  PROVE  Orderly'
  BY SessionFacts, RejectOrderly

\* A request that holds no row of an account goes on.
LEMMA FreeCurrent ==
  ASSUME NEW r, NEW x, NEW y, r.stage \notin Holding, r.op \notin BearerOps,
         r.op # "refresh" \/ r.stage # "ready", r.issue = NoToken,
         \A t \in Tokens :
           r.stage = "token_read" /\ r.token = t => ~refresh_tokens[t].revoked,
         r.row.is_active = r.loaded.is_active
  PROVE  Current(r, x, y)
  <1>1. ~HasRow(r) /\ r.op # "change_password"
    BY DEF HasRow, BearerOps, SelfOps
  <1>2. Admitted(r, x) /\ SparesAnAdmin(r, x)
    BY <1>1 DEF Admitted, SparesAnAdmin
  <1>3. Accepted(r, x, y)
    BY Members DEF Accepted, Exchanges
  <1>4. Revokes(r, y)
    BY <1>1 DEF Revokes, MustRevoke
  <1> QED BY <1>2, <1>3, <1>4 DEF Current
-----------------------------------------------------------------------------
(* The public requests                                                     *)

LEMMA LoginOrderly ==
  ASSUME OverlapInv, Observe, NEW w \in Workers, Login(w)
  PROVE  Orderly'
  <1> PICK s, x, y : s = sess[w] /\ x = rewritten[w] /\ y = moved[w]
    OBVIOUS
  <1> DEFINE db == users[s.user]
             Loaded(row, event) ==
               [s EXCEPT !.loaded = db, !.row = row, !.event = event]
  <1>0. /\ TypeOK /\ s \in Session /\ Pending(s) /\ s.op = "login"
        /\ s.stage = "begin" /\ s.user \in Users /\ s.issue = NoToken
    BY SessionFacts DEF Login, InStage, ArgumentsOK, AccountOps
  <1>1. db \in UserRow /\ Unlocked(db).is_active = db.is_active
    BY <1>0 DEF TypeOK, Unlocked, UserRow
  <1>2. ASSUME NEW r, r = [s EXCEPT !.event = "login_failure"], Refuse(w, r)
        PROVE  Orderly'
    BY <1>0, <1>2, RejectOrderly DEF Session
  <1>3. ASSUME NEW row, NEW event, NEW r, r = Loaded(row, event),
               Reject(w, r) \/ Refuse(w, r)
        PROVE  Orderly'
    <2>1. r.issue = NoToken
      BY <1>0, <1>3 DEF Session
    <2> QED BY <1>3, <2>1, RejectOrderly
  <1>4. ASSUME NEW t \in Tokens, db.is_active,
               NEW r, r = [Loaded(Unlocked(db), "login_success") EXCEPT
                             !.stage = "ready", !.issue = t, !.at = now],
               Step(w, r)
        PROVE  Orderly'
    <2>1. /\ r.op = "login" /\ r.stage = "ready" /\ r.issue = t
          /\ r.user = s.user /\ r.token = s.token
          /\ r.loaded = db /\ r.row = Unlocked(db)
      BY <1>0, <1>4 DEF Session
    <2>2. r.token = NoToken
      BY <1>0, <2>1 DEF Pending
    <2>3. "login" \notin BearerOps
      BY OpsApart
    <2>4. Admitted(r, x) /\ SparesAnAdmin(r, x)
      BY <2>1, <2>3 DEF Admitted, SparesAnAdmin, HasRow, Holding
    <2>5. Accepted(r, x, y)
      BY <1>4, <2>1, <2>2, Members DEF Accepted, Exchanges
    <2>6. Revokes(r, y)
      BY <1>1, <2>1 DEF Revokes, MustRevoke
    <2> QED BY <1>4, <2>1, <2>4, <2>5, <2>6, StepOrderly DEF Current
  <1> HIDE DEF db, Loaded
  <1> QED BY <1>2, <1>3, <1>4 DEF Login, db, Loaded

LEMMA PublicOrderly ==
  ASSUME OverlapInv, Observe, NEW w \in Workers, PublicStep(w)
  PROVE  Orderly'
  <1> PICK s, x, y : s = sess[w] /\ x = rewritten[w] /\ y = moved[w]
    OBVIOUS
  <1>0. /\ TypeOK /\ s \in Session /\ ArgumentsOK(s) /\ Pending(s)
        /\ Current(s, x, y) /\ Tidy(s)
        /\ s.stage # "ready" => s.issue = NoToken
        /\ s.stage \notin {"revoke", "ready"} =>
             s.row.is_active = s.loaded.is_active
        /\ s.stage = "begin" => s.loaded = NoRow /\ s.row = NoRow
    BY SessionFacts DEF Tidy
  <1>o. \A op \in {"register", "login", "refresh", "logout"} \cup LinkOps
                  \cup ConfirmOps : op \notin BearerOps
    BY OpsApart
  <1>l. "refresh" \notin LinkOps \cup ConfirmOps
    BY DEF LinkOps, ConfirmOps
  <1>r. ASSUME Refuse(w, s), s.stage \in {"begin", "token_read"}
        PROVE  Orderly'
    BY <1>r, HandlerRefuses
  \* A step that leaves the row of the session as it is.
  <1>1. ASSUME NEW r, r.op = s.op, r.row.is_active = r.loaded.is_active,
               r.issue = NoToken, r.stage \in {"ready", "link_read"},
               s.op \notin BearerOps, s.op # "refresh", Step(w, r)
        PROVE  Orderly'
    <2>1. Current(r, x, y)
      BY <1>1, FreeCurrent DEF Holding
    <2> QED BY <1>1, <2>1, StepOrderly
  <1>2. ASSUME NEW r, r = [s EXCEPT !.stage = "ready", !.event = "register",
                                    !.row = NewUser(s.password)],
               InStage(w, "register", "begin"), Step(w, r)
        PROVE  Orderly'
    <2>1. /\ r.op = "register" /\ s.op = "register" /\ r.stage = "ready"
          /\ r.issue = NoToken
          /\ r.row = NewUser(s.password) /\ r.loaded = NoRow
      BY <1>0, <1>2 DEF Session, InStage
    <2>2. r.row.is_active = r.loaded.is_active
      BY <2>1 DEF NewUser, NoRow
    <2> QED BY <1>1, <1>2, <1>o, <2>1, <2>2
  <1>3. ASSUME NEW r, r = [s EXCEPT !.stage = "token_read",
                                    !.user = refresh_tokens[s.token].user],
               InStage(w, "refresh", "begin"), Live(s.token), Step(w, r)
        PROVE  Orderly'
    <2>1. /\ r.op = "refresh" /\ r.loaded = s.loaded /\ r.row = s.row
          /\ r.issue = NoToken /\ r.stage = "token_read" /\ r.token = s.token
          /\ s.stage = "begin"
      BY <1>0, <1>3 DEF InStage, Session
    <2>2. Current(r, x, y)
      BY <1>0, <1>3, <1>o, <2>1, FreeCurrent DEF Holding, Live
    <2> QED BY <1>3, <2>1, <2>2, StepOrderly
  <1>4. ASSUME NEW t \in Tokens, InStage(w, "refresh", "token_read"),
               users[s.user].is_active,
               NEW r, r = [s EXCEPT !.stage = "ready",
                             !.loaded = users[s.user], !.row = users[s.user],
                             !.revoke = {s.token}, !.issue = t,
                             !.at = now, !.event = "token_refresh"],
               Step(w, r)
        PROVE  Orderly'
    <2>1. /\ r.op = "refresh" /\ r.stage = "ready" /\ r.issue = t
          /\ r.user = s.user /\ r.token = s.token
          /\ r.loaded = users[s.user] /\ r.row = r.loaded
          /\ s.stage = "token_read"
      BY <1>0, <1>4 DEF InStage, Session
    <2>2. Admitted(r, x) /\ SparesAnAdmin(r, x)
      BY <1>o, <2>1 DEF Admitted, SparesAnAdmin, HasRow, Holding
    <2>3. Accepted(r, x, y)
      BY <1>0, <1>4, <2>1 DEF Accepted, Exchanges, Current
    <2>4. Revokes(r, y)
      BY <2>1 DEF Revokes, MustRevoke
    <2> QED BY <1>4, <2>1, <2>2, <2>3, <2>4, StepOrderly DEF Current
  <1>5. ASSUME NEW r, InStage(w, "logout", "begin"), Step(w, r),
               \/ r = [s EXCEPT !.stage = "ready"]
               \/ r = [s EXCEPT !.stage = "ready", !.revoke = {s.token},
                                !.event = "logout"]
        PROVE  Orderly'
    <2>1. /\ r.op = s.op /\ r.stage = "ready" /\ r.issue = NoToken
          /\ r.loaded = s.loaded /\ r.row = s.row
          /\ s.op = "logout" /\ s.stage = "begin"
      BY <1>0, <1>5 DEF InStage, Session
    <2> QED BY <1>0, <1>1, <1>5, <1>o, <2>1
  <1>6. ASSUME NEW r, s.op \in LinkOps, s.stage = "begin", Step(w, r),
               \/ r = [s EXCEPT !.stage = "ready"]
               \/ \E k : r = [s EXCEPT !.stage = "ready", !.new_link = k,
                                       !.at = now, !.event = s.op]
        PROVE  Orderly'
    <2>1. /\ r.op = s.op /\ r.stage = "ready" /\ r.issue = NoToken
          /\ r.loaded = s.loaded /\ r.row = s.row
      BY <1>0, <1>6 DEF Session
    <2> QED BY <1>0, <1>1, <1>6, <1>o, <1>l, <2>1
  <1>7. ASSUME NEW r, s.op \in ConfirmOps, s.stage = "begin", Step(w, r),
               r = [s EXCEPT !.stage = "link_read",
                             !.user = links[s.link].user]
        PROVE  Orderly'
    <2>1. /\ r.op = s.op /\ r.stage = "link_read" /\ r.issue = NoToken
          /\ r.loaded = s.loaded /\ r.row = s.row
      BY <1>0, <1>7 DEF Session
    <2> QED BY <1>0, <1>1, <1>7, <1>o, <1>l, <2>1
  <1>a. CASE RegisterUser(w)
    BY <1>2, <1>a, <1>r DEF RegisterUser, InStage
  <1>b. CASE Login(w)
    BY <1>b, LoginOrderly
  <1>c. CASE RefreshToken(w)
    BY <1>3, <1>c, <1>r DEF RefreshToken, InStage
  <1>d. CASE RefreshUser(w)
    BY <1>4, <1>d, <1>r DEF RefreshUser, InStage
  <1>e. CASE Logout(w)
    BY <1>5, <1>e DEF Logout
  <1>f. CASE RequestLink(w)
    BY <1>6, <1>f DEF RequestLink
  <1>g. CASE SendEmail(w)
    <2>1. OwnersKept /\ UNCHANGED now
      BY <1>g DEF SendEmail, tables, OwnersKept
    <2> QED BY <1>g, <2>1, NoSessionPlain, PlainOrderly DEF SendEmail, Close
  <1>h. CASE ConfirmLink(w)
    BY <1>7, <1>h, <1>r DEF ConfirmLink
  <1>i. CASE ConfirmLinkUser(w)
    <2> DEFINE db == users[s.user]
               Loaded == [s EXCEPT !.stage = "ready", !.redeem = {s.link},
                                   !.loaded = db, !.row = db]
    <2>1. s.op \in ConfirmOps /\ s.stage = "link_read"
      BY <1>i DEF ConfirmLinkUser, InStage, ConfirmOps
    <2>2. db \in UserRow
      BY <1>0, <2>1 DEF ArgumentsOK, TypeOK
    <2>3. ASSUME NEW r, Step(w, r),
                 \/ r = [Loaded EXCEPT !.row.is_verified = TRUE,
                                       !.event = "verify_email_success"]
                 \/ r = [Loaded EXCEPT !.loaded.password = NoPassword,
                                       !.row.password = s.new_password,
                                       !.event = "password_reset_success"]
          PROVE  Orderly'
      <3>1. /\ r.op = s.op /\ r.stage = "ready" /\ r.issue = s.issue
            /\ \/ r.loaded = db /\ r.row = [db EXCEPT !.is_verified = TRUE]
               \/ /\ r.loaded = [db EXCEPT !.password = NoPassword]
                  /\ r.row = [db EXCEPT !.password = s.new_password]
        BY <1>0, <2>3 DEF Session
      <3>2. r.row.is_active = r.loaded.is_active
        BY <2>2, <3>1 DEF UserRow
      <3> QED BY <1>0, <1>1, <1>o, <1>l, <2>1, <2>3, <3>1, <3>2
    <2> QED BY <1>i, <2>3 DEF ConfirmLinkUser
  <1> QED BY <1>a, <1>b, <1>c, <1>d, <1>e, <1>f, <1>g, <1>h, <1>i
          DEF PublicStep
-----------------------------------------------------------------------------
(* The requests of a signed-in user and of an administrator                *)

\* A request that got past get_current_user goes on with the row it has.
LEMMA HeldCurrent ==
  ASSUME NEW s, NEW r, NEW x, NEW y, Current(s, x, y), s.stage \in Holding,
         r.stage \in Holding \cup {"ready"}, Keeps(s, r), r.user = s.user,
         r.loaded = s.loaded, r.issue = NoToken,
         r.op = "change_password" /\ r.stage = "ready" /\ r.actor \notin x =>
           users[r.actor].password = r.password,
         Revokes(r, y), SparesAnAdmin(r, x)
  PROVE  Current(r, x, y)
  <1>1. s.op \in BearerOps /\ HasRow(s) /\ r.op = s.op /\ r.actor = s.actor
    BY DEF Current, Admitted, HasRow, Keeps
  <1>2. Admitted(r, x)
    BY <1>1 DEF Current, Admitted
  <1>3. r.op # "refresh" /\ r.stage # "token_read"
    BY <1>1, OpsApart DEF Holding
  <1>4. Accepted(r, x, y)
    BY <1>3, Members DEF Accepted, Exchanges
  <1> QED BY <1>2, <1>4 DEF Current

\* What RevokeAllOf gathers.
LEMMA RevokeAllLive ==
  ASSUME NEW s \in Session, NEW event, TypeOK
  PROVE  LET r == RevokeAllOf(s, {}, event) IN
         \A t \in Tokens :
           Live(t) /\ refresh_tokens[t].user = s.user => t \in r.revoke
  <1>1. RevokeAllOf(s, {}, event).revoke
          = {t \in TokensOf(s.user) : Live(t)} \ {}
    BY DEF RevokeAllOf, Session
  <1> QED BY <1>1 DEF TokensOf

LEMMA SelfOrderly ==
  ASSUME OverlapInv, Observe, NEW w \in Workers,
         \/ Authenticate(w) \/ PatchMe(w) \/ ChangePassword(w)
         \/ DeactivateMe(w) \/ RevokeSession(w) \/ RevokeAllSessions(w)
  PROVE  Orderly'
  <1> PICK s, x, y : s = sess[w] /\ x = rewritten[w] /\ y = moved[w]
    OBVIOUS
  <1>0. /\ TypeOK /\ s \in Session /\ ArgumentsOK(s) /\ Current(s, x, y)
        /\ Tidy(s)
        /\ s.stage # "ready" => s.issue = NoToken
        /\ s.stage \notin {"revoke", "ready"} =>
             s.row.is_active = s.loaded.is_active
        /\ s.row \in UserRow
    BY SessionFacts
  <1>o. /\ SelfOps \subseteq BearerOps
        /\ "session_revoked" \in RevokeEvents
        /\ "account_deactivated" \in RevokeEvents
        /\ "authed" \in Holding /\ "ready" \notin Holding
    BY OpsApart DEF RevokeEvents, Holding
  <1>r. ASSUME Refuse(w, s), s.stage \in {"begin", "authed"}
        PROVE  Orderly'
    BY <1>r, HandlerRefuses
  <1>1. CASE Authenticate(w)
    <2>1. ASSUME NEW r, Authorized(s.actor, s.op), Step(w, r),
                 r = [s EXCEPT !.stage = "authed", !.user = s.actor,
                               !.loaded = users[s.actor],
                               !.row = users[s.actor]]
          PROVE  Orderly'
      <3>1. /\ r.op = s.op /\ r.stage = "authed" /\ r.actor = s.actor
            /\ r.user = s.actor /\ r.loaded = users[s.actor]
            /\ r.row = r.loaded /\ r.issue = NoToken
            /\ s.op \in BearerOps /\ s.actor \in Users
        BY <1>0, <1>1, <2>1 DEF Session, Authenticate, ArgumentsOK
      <3>2. Admitted(r, x) /\ SparesAnAdmin(r, x)
        BY <2>1, <3>1 DEF Admitted, Authorized, SparesAnAdmin
      <3>3. Accepted(r, x, y)
        BY <3>1, Members DEF Accepted, Exchanges
      <3>4. Revokes(r, y)
        BY <3>1 DEF Revokes, MustRevoke
      <3> QED BY <2>1, <3>1, <3>2, <3>3, <3>4, StepOrderly DEF Current
    <2> QED BY <1>1, <1>r, <2>1 DEF Authenticate
  <1>2. ASSUME NEW r, s.op \in SelfOps, s.stage = "authed", Step(w, r),
               r.stage = "ready", Keeps(s, r), r.user = s.user,
               r.loaded = s.loaded, r.issue = s.issue,
               r.op = "change_password" /\ r.actor \notin x =>
                 users[r.actor].password = r.password,
               \/ /\ r.row.is_active = s.row.is_active
                  /\ r.op # "change_password"
               \/ \A t \in Tokens :
                    Live(t) /\ refresh_tokens[t].user = s.user => t \in r.revoke
        PROVE  Orderly'
    <2>1. SparesAnAdmin(r, x)
      BY <1>2, OpsApart DEF SparesAnAdmin, Keeps, AdminOps
    <2>2. Revokes(r, y)
      BY <1>0, <1>2 DEF Revokes, MustRevoke
    <2>3. Current(r, x, y)
      BY <1>0, <1>2, <1>o, <2>1, <2>2, HeldCurrent
    <2> QED BY <1>2, <2>3, StepOrderly
  <1>3. CASE PatchMe(w)
    <2>1. PICK r : r = [s EXCEPT !.stage = "ready",
                                 !.event = "profile_updated"]
      OBVIOUS
    <2>2. /\ Keeps(s, r) /\ r.stage = "ready" /\ r.user = s.user
          /\ r.issue = s.issue /\ r.loaded = s.loaded /\ r.row = s.row
          /\ s.op = "patch_me" /\ s.stage = "authed" /\ Step(w, r)
      BY <1>0, <1>3, <2>1 DEF Session, Keeps, PatchMe, InStage
    <2>3. r.op = "patch_me" /\ s.op \in SelfOps
      BY <2>2 DEF Keeps, SelfOps
    <2> QED BY <1>2, <2>2, <2>3
  <1>4. CASE ChangePassword(w)
    <2>1. ASSUME NEW q, q = RevokeAllOf(s, {}, "session_revoked"),
                 NEW r, r = [q EXCEPT !.stage = "ready",
                                      !.row.password = s.new_password,
                                      !.event = "password_changed"],
                 s.password = s.row.password, Step(w, r)
          PROVE  Orderly'
      <3>1. s.op = "change_password" /\ s.stage = "authed" /\ s.op \in SelfOps
        BY <1>4 DEF ChangePassword, InStage, SelfOps
      <3>2. q \in Session /\ q.row = s.row /\ q.loaded = s.loaded
            /\ q.user = s.user /\ Keeps(s, q) /\ q.issue = s.issue
        BY <1>0, <1>o, <2>1, RevokeAllKeeps DEF Keeps
      <3>3. \A t \in Tokens :
              Live(t) /\ refresh_tokens[t].user = s.user => t \in q.revoke
        BY <1>0, <2>1, RevokeAllLive
      <3>4. q.password = s.password
        BY <1>0, <2>1 DEF RevokeAllOf, Session
      <3>5. /\ Keeps(s, r) /\ r.stage = "ready" /\ r.user = s.user
            /\ r.issue = s.issue /\ r.loaded = s.loaded
            /\ r.revoke = q.revoke /\ r.password = s.password
        BY <2>1, <3>2, <3>4 DEF Session, Keeps
      <3>6. r.actor \notin x => users[r.actor].password = r.password
        <4>1. /\ HasRow(s) /\ s.user = s.actor
              /\ s.user \notin x => s.loaded = users[s.user]
          BY <1>0, <1>o, <3>1 DEF HasRow, Current, Admitted, Tidy
        <4>2. s.loaded.password = s.row.password
          BY <1>0, <3>1 DEF Tidy, Changes
        <4> QED BY <2>1, <3>5, <4>1, <4>2 DEF Keeps
      <3> QED BY <1>2, <2>1, <3>1, <3>3, <3>5, <3>6
    <2> QED BY <1>4, <1>r, <2>1 DEF ChangePassword, InStage
  <1>5. CASE DeactivateMe(w)
    <2>1. ASSUME NEW q, q = RevokeAllOf(s, {}, "account_deactivated"),
                 NEW r, r = [q EXCEPT !.stage = "ready",
                                      !.row.is_active = FALSE,
                                      !.row.deactivated = TRUE,
                                      !.event = "account_deactivated"],
                 Step(w, r)
          PROVE  Orderly'
      <3>1. s.op = "deactivate_me" /\ s.stage = "authed" /\ s.op \in SelfOps
        BY <1>5 DEF DeactivateMe, InStage, SelfOps
      <3>2. q \in Session /\ q.row = s.row /\ q.loaded = s.loaded
            /\ q.user = s.user /\ Keeps(s, q) /\ q.issue = s.issue
        BY <1>0, <1>o, <2>1, RevokeAllKeeps DEF Keeps
      <3>3. \A t \in Tokens :
              Live(t) /\ refresh_tokens[t].user = s.user => t \in q.revoke
        BY <1>0, <2>1, RevokeAllLive
      <3>4. /\ Keeps(s, r) /\ r.stage = "ready" /\ r.user = s.user
            /\ r.issue = s.issue /\ r.loaded = s.loaded
            /\ r.revoke = q.revoke
        BY <2>1, <3>2 DEF Session, Keeps
      <3>5. r.op # "change_password"
        BY <3>1, <3>4 DEF Keeps
      <3> QED BY <1>2, <2>1, <3>1, <3>3, <3>4, <3>5
    <2> QED BY <1>5, <2>1 DEF DeactivateMe, InStage
  <1>6. CASE RevokeSession(w)
    <2>1. ASSUME NEW r, r = [s EXCEPT !.stage = "ready", !.revoke = {s.token},
                                      !.event = "session_revoked"],
                 Step(w, r)
          PROVE  Orderly'
      <3>1. /\ Keeps(s, r) /\ r.stage = "ready" /\ r.user = s.user
            /\ r.issue = s.issue /\ r.loaded = s.loaded /\ r.row = s.row
            /\ s.op = "revoke_session" /\ s.stage = "authed"
        BY <1>0, <1>6, <2>1 DEF Session, Keeps, RevokeSession, InStage
      <3>2. r.op = "revoke_session" /\ s.op \in SelfOps
        BY <3>1 DEF Keeps, SelfOps
      <3> QED BY <1>2, <2>1, <3>1, <3>2
    <2> QED BY <1>6, <1>r, <2>1 DEF RevokeSession, InStage
  <1>7. CASE RevokeAllSessions(w)
    <2>1. ASSUME NEW q, q = RevokeAllOf(s, {s.token}, "session_revoked"),
                 NEW r, r = [q EXCEPT !.stage = "ready"], Step(w, r)
          PROVE  Orderly'
      <3>1. s.op = "revoke_all" /\ s.stage = "authed" /\ s.op \in SelfOps
        BY <1>7 DEF RevokeAllSessions, InStage, SelfOps
      <3>2. q \in Session /\ q.row = s.row /\ q.loaded = s.loaded
            /\ q.user = s.user /\ Keeps(s, q) /\ q.issue = s.issue
        BY <1>0, <1>o, <2>1, RevokeAllKeeps DEF Keeps
      <3>3. /\ Keeps(s, r) /\ r.stage = "ready" /\ r.user = s.user
            /\ r.issue = s.issue /\ r.loaded = s.loaded /\ r.row = s.row
        BY <2>1, <3>2 DEF Session, Keeps
      <3>4. r.op # "change_password"
        BY <3>1, <3>3 DEF Keeps
      <3> QED BY <1>2, <2>1, <3>1, <3>3, <3>4
    <2> QED BY <1>7, <1>r, <2>1 DEF RevokeAllSessions, InStage
  <1> QED BY <1>1, <1>3, <1>4, <1>5, <1>6, <1>7
\* Of two active administrators one is left.
LEMMA AnotherAdmin ==
  ASSUME NEW u, ~(CountAdmins <= 1)
  PROVE  \E v \in Users \ {u} : ActiveAdmin(users[v])
  <1> DEFINE S == {v \in Users : ActiveAdmin(users[v])}
  <1>1. CountAdmins = Cardinality(S)
    BY DEF CountAdmins, ActiveAdmin
  <1>2. IsFiniteSet(S) /\ Cardinality(S) \in Nat
    BY FiniteAssumption, FS_Subset, FS_CardinalityType DEF FiniteAssumption
  <1>3. IsFiniteSet({u}) /\ Cardinality({u}) = 1
    BY FS_Singleton
  <1>4. ~(S \subseteq {u})
    <2>1. S \subseteq {u} => Cardinality(S) <= 1
      <3> HIDE DEF S
      <3> QED BY <1>3, FS_Subset
    <2> QED BY <1>1, <2>1
  <1> QED BY <1>4

LEMMA AdminOrderly ==
  ASSUME OverlapInv, Observe, NEW w \in Workers,
         \/ LoadTarget(w) \/ AdminUpdateRole(w) \/ AdminUpdateActive(w)
         \/ AdminUpdateRevoke(w) \/ AdminUnlock(w) \/ AdminRevokeSessions(w)
  PROVE  Orderly'
  <1> PICK s, x, y : s = sess[w] /\ x = rewritten[w] /\ y = moved[w]
    OBVIOUS
  <1>0. /\ TypeOK /\ s \in Session /\ ArgumentsOK(s) /\ Current(s, x, y)
        /\ s.stage # "ready" => s.issue = NoToken
        /\ s.stage \notin {"revoke", "ready"} =>
             s.row.is_active = s.loaded.is_active
        /\ s.row \in UserRow /\ s.loaded \in UserRow
        /\ SparesAnAdmin(s, x)
    BY SessionFacts DEF Current
  <1>o. /\ {"admin_update", "admin_unlock", "admin_revoke"} = AdminOps
        /\ AdminOps \subseteq BearerOps /\ "change_password" \notin AdminOps
        /\ "authed" \in Holding /\ "loaded" \in Holding
        /\ "role_done" \in Holding /\ "revoke" \in Holding
        /\ "admin_sessions_revoked" \in RevokeEvents
        /\ "idle" \notin Holding \cup {"ready"}
    BY OpsApart DEF AdminOps, RevokeEvents, Holding
  <1>r. ASSUME Refuse(w, s), s.stage \in {"authed", "loaded", "role_done"}
        PROVE  Orderly'
    BY <1>r, HandlerRefuses
  <1>1. ASSUME NEW r, s.op \in AdminOps, s.stage \in Holding, Step(w, r),
               r.stage \in Holding \cup {"ready"}, Keeps(s, r),
               r.user = s.user, r.loaded = s.loaded, r.issue = s.issue,
               SparesAnAdmin(r, x),
               r.stage \notin {"revoke", "ready"} =>
                 r.row.is_active = r.loaded.is_active,
               \/ r.row.is_active = s.loaded.is_active
               \/ r.row.is_active
               \/ r.stage # "ready"
               \/ \A t \in Tokens :
                    Live(t) /\ refresh_tokens[t].user = s.user => t \in r.revoke
        PROVE  Orderly'
    <2>1. r.op # "change_password"
      BY <1>1, <1>o DEF Keeps
    <2>2. Revokes(r, y)
      BY <1>1, <2>1 DEF Revokes, MustRevoke
    <2>3. r.issue = NoToken
      BY <1>0, <1>1 DEF Holding
    <2>4. Current(r, x, y)
      BY <1>0, <1>1, <2>1, <2>2, <2>3, HeldCurrent
    <2> QED BY <1>1, <1>o, <2>4, StepOrderly
  <1>2. ASSUME NEW r, r.op = s.op, r.user = s.user, r.loaded = s.loaded,
               s.stage \in Holding, ActiveAdmin(s.row) => ActiveAdmin(r.row)
        PROVE  SparesAnAdmin(r, x)
    BY <1>0, <1>2 DEF SparesAnAdmin, HasRow
  <1>a. CASE LoadTarget(w)
    <2>0. s.op \in AdminOps /\ s.stage = "authed"
      BY <1>a DEF LoadTarget
    <2>1. ASSUME NEW r, r = [s EXCEPT !.stage = "loaded"], Step(w, r)
          PROVE  Orderly'
      <3>1. /\ Keeps(s, r) /\ r.stage = "loaded" /\ r.user = s.user
            /\ r.issue = s.issue /\ r.loaded = s.loaded /\ r.row = s.row
            /\ r.op = s.op
        BY <1>0, <2>1 DEF Session, Keeps
      <3>2. SparesAnAdmin(r, x)
        BY <1>2, <1>o, <2>0, <3>1
      <3> QED BY <1>0, <1>1, <1>o, <2>0, <2>1, <3>1, <3>2
    <2>2. ASSUME NEW r, r = [s EXCEPT !.stage = "loaded", !.user = s.target,
                                      !.loaded = users[s.target],
                                      !.row = users[s.target]],
                 Step(w, r)
          PROVE  Orderly'
      <3>1. /\ r.op = s.op /\ r.stage = "loaded" /\ r.actor = s.actor
            /\ r.user = s.target /\ r.loaded = users[s.target]
            /\ r.row = r.loaded /\ r.issue = NoToken
            /\ s.target \in Users
        BY <1>0, <2>0, <2>2 DEF Session, ArgumentsOK
      <3>2. Admitted(r, x)
        BY <1>0, <1>o, <2>0, <3>1 DEF Current, Admitted, HasRow
      <3>3. Accepted(r, x, y)
        BY <3>1, Members DEF Accepted, Exchanges
      <3>4. Revokes(r, y) /\ SparesAnAdmin(r, x)
        BY <3>1 DEF Revokes, MustRevoke, SparesAnAdmin
      <3> QED BY <2>2, <3>1, <3>2, <3>3, <3>4, StepOrderly DEF Current
    <2> QED BY <1>a, <1>r, <2>1, <2>2 DEF LoadTarget
  <1>b. CASE AdminUpdateRole(w)
    <2> DEFINE role == IF s.payload.role = "keep" THEN s.row.role
                       ELSE s.payload.role
    <2>0. s.op = "admin_update" /\ s.stage = "loaded"
      BY <1>b DEF AdminUpdateRole, InStage
    <2>1. ASSUME s.row.role = "admin" /\ role # "admin" => ~(CountAdmins <= 1),
                 NEW r, r = [s EXCEPT !.stage = "role_done", !.row.role = role],
                 Step(w, r)
          PROVE  Orderly'
      <3> HIDE DEF role
      <3>1. /\ Keeps(s, r) /\ r.stage = "role_done" /\ r.user = s.user
            /\ r.issue = s.issue /\ r.loaded = s.loaded
            /\ r.row = [s.row EXCEPT !.role = role] /\ r.op = s.op
        BY <1>0, <2>1 DEF Session, Keeps
      <3>2. /\ r.row.exists = s.row.exists /\ r.row.role = role
            /\ r.row.is_active = s.row.is_active
        BY <1>0, <3>1 DEF UserRow
      <3>3. SparesAnAdmin(r, x)
        <4>1. CASE s.row.role = "admin" /\ role # "admin"
          BY <2>1, <4>1, AnotherAdmin DEF SparesAnAdmin
        <4>2. CASE ~(s.row.role = "admin" /\ role # "admin")
          BY <1>2, <1>o, <2>0, <3>1, <3>2, <4>2 DEF ActiveAdmin
        <4> QED BY <4>1, <4>2
      <3> QED BY <1>0, <1>1, <1>o, <2>0, <2>1, <3>1, <3>2, <3>3
    <2> QED BY <1>b, <1>r, <2>0, <2>1 DEF AdminUpdateRole
  <1>c. CASE AdminUpdateActive(w)
    <2>0. s.op = "admin_update" /\ s.stage = "role_done"
      BY <1>c DEF AdminUpdateActive, InStage
    <2>1. ASSUME NEW u, u = Updated(s), NEW r, Step(w, r),
                 \/ r = u
                 \/ r = [u EXCEPT !.row.is_active = TRUE,
                                  !.row.deactivated = FALSE]
          PROVE  Orderly'
      <3>1. /\ Keeps(s, u) /\ u.stage = "ready" /\ u.user = s.user
            /\ u.issue = s.issue /\ u.loaded = s.loaded
            /\ u.row.exists = s.row.exists /\ u.row.role = s.row.role
            /\ u.row.is_active = s.row.is_active
            /\ u.row \in UserRow /\ u \in Session
        BY <1>0, <2>1, UpdatedKeeps
      <3>2. /\ Keeps(s, r) /\ r.stage = "ready" /\ r.user = s.user
            /\ r.issue = s.issue /\ r.loaded = s.loaded /\ r.op = s.op
            /\ r.row \in {u.row, [u.row EXCEPT !.is_active = TRUE,
                                               !.deactivated = FALSE]}
        BY <2>1, <3>1 DEF Session, Keeps
      <3>3. /\ r.row.exists = s.row.exists /\ r.row.role = s.row.role
            /\ r.row.is_active = s.row.is_active \/ r.row.is_active
        BY <3>1, <3>2 DEF UserRow
      <3>4. SparesAnAdmin(r, x)
        BY <1>2, <1>o, <2>0, <3>2, <3>3 DEF ActiveAdmin
      <3> QED BY <1>0, <1>1, <1>o, <2>0, <2>1, <3>2, <3>3, <3>4
    <2>2. ASSUME s.row.role = "admin" => ~(CountAdmins <= 1), NEW r,
                 r = [s EXCEPT !.stage = "revoke", !.row.is_active = FALSE,
                               !.row.deactivated = TRUE],
                 Step(w, r)
          PROVE  Orderly'
      <3>1. /\ Keeps(s, r) /\ r.stage = "revoke" /\ r.user = s.user
            /\ r.issue = s.issue /\ r.loaded = s.loaded /\ r.op = s.op
        BY <1>0, <2>2 DEF Session, Keeps
      <3>2. SparesAnAdmin(r, x)
        <4>1. CASE s.row.role = "admin"
          BY <2>2, <4>1, AnotherAdmin DEF SparesAnAdmin
        <4>2. CASE s.row.role # "admin"
          BY <1>2, <1>o, <2>0, <3>1, <4>2 DEF ActiveAdmin
        <4> QED BY <4>1, <4>2
      <3> QED BY <1>1, <1>o, <2>0, <2>2, <3>1, <3>2
    <2> QED BY <1>c, <1>r, <2>0, <2>1, <2>2 DEF AdminUpdateActive
  <1>d. CASE AdminUpdateRevoke(w)
    <2>1. ASSUME NEW q, q = RevokeAllOf(s, {}, "admin_sessions_revoked"),
                 NEW r, r = Updated(q), Step(w, r)
          PROVE  Orderly'
      <3>0. s.op = "admin_update" /\ s.stage = "revoke"
        BY <1>d DEF AdminUpdateRevoke, InStage
      <3>1. q \in Session /\ q.row = s.row /\ q.loaded = s.loaded
            /\ q.user = s.user /\ Keeps(s, q) /\ q.issue = s.issue
        BY <1>0, <1>o, <2>1, RevokeAllKeeps DEF Keeps
      <3>2. \A t \in Tokens :
              Live(t) /\ refresh_tokens[t].user = s.user => t \in q.revoke
        BY <1>0, <2>1, RevokeAllLive
      <3>3. /\ Keeps(q, r) /\ r.stage = "ready" /\ r.user = q.user
            /\ r.issue = q.issue /\ r.loaded = q.loaded
            /\ r.row.exists = q.row.exists /\ r.row.role = q.row.role
            /\ r.row.is_active = q.row.is_active
        BY <2>1, <3>1, UpdatedKeeps
      <3>4. r.revoke = q.revoke
        BY <2>1, <3>1 DEF Updated, Session
      <3>5. Keeps(s, r) /\ r.op = s.op
        BY <3>1, <3>3 DEF Keeps
      <3>6. SparesAnAdmin(r, x)
        BY <1>2, <1>o, <3>0, <3>1, <3>3, <3>5 DEF ActiveAdmin
      <3> QED BY <1>1, <1>o, <2>1, <3>0, <3>1, <3>2, <3>3, <3>4, <3>5, <3>6
    <2> QED BY <1>d, <2>1 DEF AdminUpdateRevoke
  <1>e. CASE AdminUnlock(w)
    <2>1. ASSUME NEW r, r = [s EXCEPT !.stage = "ready",
                                      !.event = "admin_user_unlocked",
                                      !.row.failed_attempts = 0,
                                      !.row.locked_until = 0],
                 Step(w, r)
          PROVE  Orderly'
      <3>0. s.op = "admin_unlock" /\ s.stage = "loaded"
        BY <1>e DEF AdminUnlock, InStage
      <3>1. /\ Keeps(s, r) /\ r.stage = "ready" /\ r.user = s.user
            /\ r.issue = s.issue /\ r.loaded = s.loaded /\ r.op = s.op
            /\ r.row = [s.row EXCEPT !.failed_attempts = 0,
                                     !.locked_until = 0]
        BY <1>0, <2>1 DEF Session, Keeps
      <3>2. r.row.is_active = s.row.is_active
        BY <1>0, <3>1 DEF UserRow
      <3>3. SparesAnAdmin(r, x)
        BY <3>0, <3>1 DEF SparesAnAdmin
      <3> QED BY <1>0, <1>1, <1>o, <2>1, <3>0, <3>1, <3>2, <3>3
    <2> QED BY <1>e, <2>1 DEF AdminUnlock, InStage
  <1>f. CASE AdminRevokeSessions(w)
    <2>1. ASSUME NEW q, q = RevokeAllOf(s, {}, "admin_sessions_revoked"),
                 NEW r, r = [q EXCEPT !.stage = "ready"], Step(w, r)
          PROVE  Orderly'
      <3>0. s.op = "admin_revoke" /\ s.stage = "loaded"
        BY <1>f DEF AdminRevokeSessions, InStage
      <3>1. q \in Session /\ q.row = s.row /\ q.loaded = s.loaded
            /\ q.user = s.user /\ Keeps(s, q) /\ q.issue = s.issue
        BY <1>0, <1>o, <2>1, RevokeAllKeeps DEF Keeps
      <3>2. /\ Keeps(s, r) /\ r.stage = "ready" /\ r.user = s.user
            /\ r.issue = s.issue /\ r.loaded = s.loaded /\ r.row = s.row
            /\ r.op = s.op
        BY <2>1, <3>1 DEF Session, Keeps
      <3>3. SparesAnAdmin(r, x)
        BY <3>0, <3>2 DEF SparesAnAdmin
      <3> QED BY <1>0, <1>1, <1>o, <2>1, <3>0, <3>2, <3>3
    <2> QED BY <1>f, <2>1 DEF AdminRevokeSessions
  <1> QED BY <1>a, <1>b, <1>c, <1>d, <1>e, <1>f
-----------------------------------------------------------------------------
(* The commit, the clients and the clock                                   *)

LEMMA CommitOrderly ==
  ASSUME OverlapInv, Observe, NEW w \in Workers, Commit(w)
  PROVE  Orderly'
  <1> PICK s : s = sess[w]
    OBVIOUS
  <1>0. TypeOK /\ Pending(s)
    BY SessionFacts
  <1>1. CASE Refuse(w, NoSession)
    BY <1>1, NothingPending, RejectOrderly
  <1>2. CASE /\ Write(s) /\ UNCHANGED now
             /\ IF s.new_link = NoLink THEN Close(w)
                ELSE sess' = [sess EXCEPT ![w] =
                       [NoSession EXCEPT !.op = s.op, !.stage = "mail",
                                         !.new_link = s.new_link]]
    <2>1. OwnersKept
      BY <1>0, <1>2, WriteOwners DEF Pending
    <2>2. PICK r : sess' = [sess EXCEPT ![w] = r] /\ Plain(r)
      <3>1. CASE s.new_link = NoLink
        BY <1>2, <3>1, NoSessionPlain DEF Close
      <3>2. CASE s.new_link # NoLink
        <4>1. PICK r : r = [NoSession EXCEPT !.op = s.op, !.stage = "mail",
                                             !.new_link = s.new_link]
          OBVIOUS
        <4>2. Plain(r)
          BY <4>1 DEF NoSession, Plain
        <4> QED BY <1>2, <3>2, <4>1, <4>2
      <3> QED BY <3>1, <3>2
    <2> QED BY <1>2, <2>1, <2>2, PlainOrderly
  <1> QED BY <1>1, <1>2 DEF Commit

\* A request begins with nothing loaded.
LEMMA ReceiveOrderly ==
  ASSUME OverlapInv, Observe, NEW w \in Workers, NEW r, Receive(w, r),
         r.stage = "begin", r.loaded = NoRow, r.row = NoRow, r.issue = NoToken
  PROVE  Orderly'
  <1>1. Plain(r) /\ OwnersKept /\ UNCHANGED now
    BY DEF Plain, OwnersKept, Receive, tables
  <1> QED BY <1>1, PlainOrderly DEF Receive

LEMMA ClientOrderly ==
  ASSUME OverlapInv, Observe, NEW w \in Workers, Client(w)
  PROVE  Orderly'
  <1>1. ASSUME NEW u, NEW pw, NEW op,
               Receive(w, [Request(op) EXCEPT !.user = u, !.password = pw])
        PROVE  Orderly'
    BY <1>1, ReceiveOrderly DEF Request, NoSession
  <1>2. ASSUME NEW t, NEW op, Receive(w, [Request(op) EXCEPT !.token = t])
        PROVE  Orderly'
    BY <1>2, ReceiveOrderly DEF Request, NoSession
  <1>3. ASSUME NEW u, NEW op, Receive(w, [Request(op) EXCEPT !.user = u])
        PROVE  Orderly'
    BY <1>3, ReceiveOrderly DEF Request, NoSession
  <1>4. ASSUME NEW k, NEW op, Receive(w, [Request(op) EXCEPT !.link = k])
        PROVE  Orderly'
    BY <1>4, ReceiveOrderly DEF Request, NoSession
  <1>5. ASSUME NEW k, NEW pw, NEW op,
               Receive(w, [Request(op) EXCEPT !.link = k, !.new_password = pw])
        PROVE  Orderly'
    BY <1>5, ReceiveOrderly DEF Request, NoSession
  <1>6. ASSUME NEW u, NEW op, Receive(w, [Request(op) EXCEPT !.actor = u])
        PROVE  Orderly'
    BY <1>6, ReceiveOrderly DEF Request, NoSession
  <1>7. ASSUME NEW u, NEW pw, NEW new, NEW op,
               Receive(w, [Request(op) EXCEPT !.actor = u, !.password = pw,
                                              !.new_password = new])
        PROVE  Orderly'
    BY <1>7, ReceiveOrderly DEF Request, NoSession
  <1>8. ASSUME NEW u, NEW t, NEW op,
               Receive(w, [Request(op) EXCEPT !.actor = u, !.token = t])
        PROVE  Orderly'
    BY <1>8, ReceiveOrderly DEF Request, NoSession
  <1>9. ASSUME NEW u, NEW x, NEW op,
               Receive(w, [Request(op) EXCEPT !.actor = u, !.target = x])
        PROVE  Orderly'
    BY <1>9, ReceiveOrderly DEF Request, NoSession
  <1>10. ASSUME NEW u, NEW x, NEW p, NEW op,
               Receive(w, [Request(op) EXCEPT !.actor = u, !.target = x,
                                              !.payload = p])
        PROVE  Orderly'
    BY <1>10, ReceiveOrderly DEF Request, NoSession
  <1>a. CASE ReceiveCredentials(w)
    BY <1>a, <1>1 DEF ReceiveCredentials
  <1>b. CASE ReceiveRefreshToken(w)
    BY <1>b, <1>2 DEF ReceiveRefreshToken
  <1>c. CASE ReceiveAddress(w)
    BY <1>c, <1>3 DEF ReceiveAddress
  <1>d. CASE ReceiveLink(w)
    BY <1>d, <1>4, <1>5 DEF ReceiveLink
  <1>e. CASE ReceiveSelf(w)
    BY <1>e, <1>6, <1>7, <1>8 DEF ReceiveSelf
  <1>f. CASE ReceiveAdmin(w)
    BY <1>f, <1>9, <1>10 DEF ReceiveAdmin
  <1> QED BY <1>a, <1>b, <1>c, <1>d, <1>e, <1>f DEF Client

LEMMA InitOverlap == OverlapInit => OverlapInv
  <1> SUFFICES ASSUME OverlapInit PROVE Orderly
    BY InitTokens, InitRequest DEF OverlapInv, OverlapInit
  <1>1. \A w \in Workers : sess[w] = NoSession
    BY DEF OverlapInit, Init
  <1> QED BY <1>1, NoSessionPlain, PlainCurrent DEF Orderly

LEMMA NextOverlap ==
  OverlapInv /\ [OverlapNext]_<<vars, overlaps>> => OverlapInv'
  <1> SUFFICES ASSUME OverlapInv, [OverlapNext]_<<vars, overlaps>>
               PROVE  OverlapInv'
    OBVIOUS
  <1>1. TokenInv' /\ RequestInv'
    BY TokensKept, NextRequest DEF OverlapInv, OverlapNext
  <1>2. CASE UNCHANGED <<vars, overlaps>>
    <2>1. UNCHANGED <<now, users, refresh_tokens, sess, rewritten, moved>>
      BY <1>2 DEF vars, tables, overlaps
    <2>2. Orderly'
      BY <2>1 DEF OverlapInv, Orderly, Current, Admitted, Accepted, Revokes,
                  SparesAnAdmin, Live, Issued
    <2> QED BY <1>1, <2>2 DEF OverlapInv
  <1>3. CASE Next /\ Observe
    <2>1. ASSUME NEW w \in Workers, Client(w) PROVE Orderly'
      BY <1>3, <2>1, ClientOrderly
    <2>2. ASSUME NEW w \in Workers, Handle(w) PROVE Orderly'
      BY <1>3, <2>2, PublicOrderly, SelfOrderly, AdminOrderly, CommitOrderly
      DEF Handle, BearerStep
    <2>3. CASE Tick \/ Quiet
      <3>1. now \in Nat
        BY DEF OverlapInv, TokenInv, TypeInv, TypeOK
      <3>2. UNCHANGED sess /\ OwnersKept /\ now' \in Nat /\ now <= now'
        BY <2>3, <3>1 DEF Tick, Quiet, vars, tables, OwnersKept
      <3>3. ASSUME NEW v \in Workers
            PROVE  Current(sess[v], rewritten[v], moved[v])'
        BY <1>3, <3>2, Undisturbed
      <3> QED BY <1>1, <3>3 DEF Orderly, OverlapInv
    <2> QED BY <1>1, <1>3, <2>1, <2>2, <2>3 DEF Next, OverlapInv
  <1> QED BY <1>2, <1>3 DEF OverlapNext

-----------------------------------------------------------------------------
(* What the invariant says of a commit                                     *)

\* A worker changes no session but its own.
LEMMA OwnSession ==
  ASSUME NEW v \in Workers, NEW w \in Workers \ {v}, sess \in [Workers -> Session],
         Client(v) \/ Handle(v)
  PROVE  sess'[w] = sess[w]
  <1>1. ASSUME NEW r, sess' = [sess EXCEPT ![v] = r] PROVE sess'[w] = sess[w]
    BY <1>1
  <1>2. ASSUME NEW r, Step(v, r) \/ Reject(v, r) \/ Refuse(v, r) \/ Receive(v, r)
        PROVE  sess'[w] = sess[w]
    BY <1>1, <1>2 DEF Step, Reject, Refuse, Close, Receive
  <1>3. CASE Client(v)
    BY <1>2, <1>3
    DEF Client, ReceiveCredentials, ReceiveRefreshToken, ReceiveAddress,
        ReceiveLink, ReceiveSelf, ReceiveAdmin
  <1>4. CASE PublicStep(v)
    <2>1. CASE SendEmail(v)
      BY <1>1, <2>1 DEF SendEmail, Close
    <2>2. CASE Login(v)
      BY <1>2, <2>2 DEF Login
    <2>3. CASE ConfirmLinkUser(v)
      BY <1>2, <2>3 DEF ConfirmLinkUser
    <2> QED BY <1>2, <1>4, <2>1, <2>2, <2>3
            DEF PublicStep, RegisterUser, RefreshToken, RefreshUser, Logout,
                RequestLink, ConfirmLink
  <1>5. CASE BearerStep(v)
    BY <1>2, <1>5
    DEF BearerStep, Authenticate, PatchMe, ChangePassword, DeactivateMe,
        RevokeSession, RevokeAllSessions, LoadTarget, AdminUpdateRole,
        AdminUpdateActive, AdminUpdateRevoke, AdminUnlock, AdminRevokeSessions
  <1>6. CASE Commit(v)
    BY <1>1, <1>2, <1>6 DEF Commit, Close
  <1> QED BY <1>3, <1>4, <1>5, <1>6 DEF Handle

\* A session that is ready is left by its commit only.
LEMMA ReadyCommits ==
  ASSUME TypeOK, [Next]_vars, NEW w \in Workers, Leaves(w)
  PROVE  Commit(w)
  <1>0. sess \in [Workers -> Session] /\ sess[w].stage = "ready"
        /\ sess'[w] # sess[w]
    BY DEF TypeOK, Leaves
  <1>1. ~Client(w)
    BY <1>0 DEF Client, ReceiveCredentials, ReceiveRefreshToken, ReceiveAddress,
       ReceiveLink, ReceiveSelf, ReceiveAdmin, Receive
  <1>2. ~PublicStep(w)
    BY <1>0
    DEF PublicStep, RegisterUser, Login, RefreshToken, RefreshUser, Logout,
        RequestLink, SendEmail, ConfirmLink, ConfirmLinkUser, InStage
  <1>3. ~BearerStep(w)
    BY <1>0
    DEF BearerStep, Authenticate, PatchMe, ChangePassword, DeactivateMe,
        RevokeSession, RevokeAllSessions, LoadTarget, AdminUpdateRole,
        AdminUpdateActive, AdminUpdateRevoke, AdminUnlock,
        AdminRevokeSessions, InStage
  <1>4. ~(Tick \/ Quiet \/ UNCHANGED vars)
    BY <1>0 DEF Tick, Quiet, vars
  <1> QED BY <1>0, <1>1, <1>2, <1>3, <1>4, OwnSession DEF Next, Handle

\* A column of an account that the session holds as it loaded it stays as it
\* is committed.
LEMMA ActivityKept ==
  ASSUME NEW s, Write(s), NEW u \in Users
  PROVE  /\ s.row.is_active = s.loaded.is_active =>
              users'[u].is_active = users[u].is_active
         /\ u # s.user => users'[u] = users[u]
  BY DEF Write, Merge

\* A row that is committed as it was loaded becomes what the session holds.
LEMMA RowWritten ==
  ASSUME TypeOK, NEW s \in Session, Write(s), s.user \in Users,
         s.loaded = users[s.user]
  PROVE  users'[s.user] = s.row
  <1>1. s.row \in UserRow /\ s.loaded \in UserRow
    BY DEF Session
  <1>2. Merge(s.loaded, s.loaded, s.row) = s.row
    BY <1>1 DEF Merge, UserRow
  <1> QED BY <1>2 DEF Write

\* A transaction that revokes every live token of an account, and inserts
\* none, leaves it none.
LEMMA WriteEndsSessions ==
  ASSUME TypeOK, NEW s, Write(s), UNCHANGED now, s.issue \notin Tokens,
         NEW u \in Users,
         \A t \in Tokens : Live(t) /\ refresh_tokens[t].user = u => t \in s.revoke
  PROVE  NoSessionLeft(u)
  <1> SUFFICES ASSUME NEW t \in Tokens, refresh_tokens'[t].user = u, Live(t)'
               PROVE  FALSE
    BY DEF NoSessionLeft
  <1>1. refresh_tokens[t] \in RefreshRow
    BY DEF TypeOK
  <1>2. refresh_tokens'[t] = IF t \in s.revoke
                             THEN [refresh_tokens[t] EXCEPT !.revoked = TRUE]
                             ELSE refresh_tokens[t]
    BY DEF Write
  <1> QED BY <1>1, <1>2 DEF Live, Issued, RefreshRow
\* The step of a session that is ready: what it committed, and what it knew.
LEMMA CommitFacts ==
  ASSUME OverlapInv, [Next]_vars, NEW w \in Workers, Leaves(w)
  PROVE  /\ UNCHANGED now
         /\ \/ Write(sess[w])
            \/ /\ sess[w].op = "register"
               /\ \A u \in Users : users'[u].is_active = users[u].is_active
  <1> PICK s : s = sess[w]
    OBVIOUS
  <1>0. TypeOK /\ Commit(w)
    BY SessionFacts, ReadyCommits
  <1>1. CASE s.op = "register" /\ Refuse(w, NoSession)
    <2>1. CASE UNCHANGED tables
      BY <1>1, <2>1 DEF tables, Refuse, Reject
    <2>2. CASE Write(NoSession)
      <3>1. \A u \in Users : users'[u].is_active = users[u].is_active
        BY <2>2, ActivityKept DEF NoSession
      <3> QED BY <1>1, <3>1 DEF Refuse, Reject
    <2> QED BY <1>1, <2>1, <2>2 DEF Refuse, Reject
  <1>2. CASE Write(s) /\ UNCHANGED now
    BY <1>2
  <1> QED BY <1>0, <1>1, <1>2 DEF Commit

-----------------------------------------------------------------------------
(* What holds with any number of threads                                   *)

\* A refresh token that is revoked is not exchanged, unless another request
\* changed the tokens of its owner after refresh_tokens had found it live.
THEOREM RevokedStaysRefused == OverlapSpec => RevokedIsNotExchanged
  <1> DEFINE Good(w) ==
        Leaves(w) /\ sess[w].op = "refresh" /\ sess[w].user \notin moved[w]
        => ~refresh_tokens[sess[w].token].revoked
  <1>1. OverlapInv => \A w \in Workers : Good(w)
    <2> SUFFICES ASSUME OverlapInv, NEW w \in Workers, Leaves(w),
                        sess[w].op = "refresh", sess[w].user \notin moved[w]
                 PROVE  ~refresh_tokens[sess[w].token].revoked
      OBVIOUS
    <2>1. PICK s, x, y : s = sess[w] /\ x = rewritten[w] /\ y = moved[w]
      OBVIOUS
    <2>2. /\ Accepted(s, x, y) /\ Pending(s) /\ s.token \in Tokens
          /\ s.stage = "ready" /\ s.op = "refresh" /\ s.user \notin y
      BY <2>1, SessionFacts DEF Current, ArgumentsOK, Leaves
    <2>3. s.issue \in Tokens /\ Exchanges(s, s.token)
      BY <2>2 DEF Accepted, Exchanges
    <2>4. refresh_tokens[s.token].user = s.user
      BY <2>2, <2>3 DEF Pending
    <2> QED BY <2>1, <2>2, <2>3, <2>4 DEF Accepted
  <1>2. OverlapInv => [\A w \in Workers : Good(w)]_<<vars, overlaps>>
    BY <1>1
  <1> QED BY <1>2, InitOverlap, NextOverlap, PTL
          DEF OverlapSpec, RevokedIsNotExchanged

\* A password change ends every session of its user, unless another request
\* changed the tokens of the account after the change had begun.
THEOREM PasswordChangeRevokes == OverlapSpec => PasswordChangeIsFinal
  <1> DEFINE Good(w) ==
        LET u == sess[w].user IN
        Leaves(w) /\ sess[w].op = "change_password" /\ u \notin moved[w]
        => NoSessionLeft(u)
  <1>1. OverlapInv /\ [OverlapNext]_<<vars, overlaps>> =>
          [\A w \in Workers : Good(w)]_<<vars, overlaps>>
    <2> SUFFICES ASSUME OverlapInv, [Next]_vars, NEW w \in Workers, Leaves(w),
                        sess[w].op = "change_password",
                        sess[w].user \notin moved[w]
                 PROVE  NoSessionLeft(sess[w].user)
      BY DEF OverlapNext
    <2>1. PICK s, x, y : s = sess[w] /\ x = rewritten[w] /\ y = moved[w]
      OBVIOUS
    <2>2. /\ TypeOK /\ Admitted(s, x) /\ Accepted(s, x, y) /\ Revokes(s, y)
          /\ s.stage = "ready" /\ s.op = "change_password" /\ s.user \notin y
      BY <2>1, SessionFacts DEF Current, Leaves
    <2>3. Write(s) /\ UNCHANGED now
      BY <2>1, <2>2, CommitFacts
    <2>4. s.issue \notin Tokens /\ s.user \in Users
      BY <2>2 DEF Accepted, Admitted, HasRow, BearerOps, SelfOps
    <2>5. \A t \in Tokens :
            Live(t) /\ refresh_tokens[t].user = s.user => t \in s.revoke
      BY <2>2 DEF Revokes, MustRevoke
    <2> QED BY <2>1, <2>2, <2>3, <2>4, <2>5, WriteEndsSessions
  <1> QED BY <1>1, InitOverlap, NextOverlap, PTL
          DEF OverlapSpec, PasswordChangeIsFinal

\* A deactivation leaves the account no session, and no login or refresh gives
\* an inactive account one, unless another request committed to the account
\* after this one had begun.
THEOREM DeactivationEndsSessions == OverlapSpec => InactiveGetsNoSession
  <1> DEFINE Good(w) ==
        LET u == sess[w].user IN
        Leaves(w) /\ u \in Users \ (rewritten[w] \cup moved[w])
          /\ (sess[w].issue # NoToken \/ users[u].is_active)
        => users'[u].is_active \/ NoSessionLeft(u)
  <1>1. OverlapInv /\ [OverlapNext]_<<vars, overlaps>> =>
          [\A w \in Workers : Good(w)]_<<vars, overlaps>>
    <2> SUFFICES ASSUME OverlapInv, [Next]_vars, NEW w \in Workers, Leaves(w),
                        NEW u \in Users, u = sess[w].user,
                        u \notin rewritten[w], u \notin moved[w],
                        sess[w].issue # NoToken \/ users[u].is_active
                 PROVE  users'[u].is_active \/ NoSessionLeft(u)
      BY DEF OverlapNext
    <2>1. PICK s, x, y : s = sess[w] /\ x = rewritten[w] /\ y = moved[w]
      OBVIOUS
    <2>2. /\ TypeOK /\ s \in Session /\ Tidy(s) /\ Admitted(s, x)
          /\ Accepted(s, x, y) /\ Revokes(s, y) /\ s.stage = "ready"
          /\ s.issue \in Tokens \cup {NoToken}
          /\ s.row \in UserRow /\ s.loaded \in UserRow
      BY <2>1, SessionFacts DEF Current, Leaves, Session, TokenRef
    <2>3. UNCHANGED now
          /\ (Write(s) \/ (s.op = "register" /\
                \A v \in Users : users'[v].is_active = users[v].is_active))
      BY <2>1, CommitFacts
    <2>4. users[u].is_active
      BY <2>1, <2>2 DEF Accepted
    <2>5. CASE users'[u].is_active = users[u].is_active
      BY <2>4, <2>5
    <2>6. CASE Write(s) /\ s.row.is_active # s.loaded.is_active
      <3>1. s.op \in {"admin_update", "deactivate_me"}
        BY <2>2, <2>6 DEF Tidy, Changes
      <3>2. s.issue \notin Tokens /\ HasRow(s)
        BY <2>2, <3>1 DEF Accepted, HasRow, BearerOps, SelfOps, AdminOps
      <3>3. s.loaded = users[u] /\ ~s.row.is_active
        BY <2>1, <2>2, <2>4, <2>6, <3>2 DEF Admitted, UserRow
      <3>4. \A t \in Tokens :
              Live(t) /\ refresh_tokens[t].user = u => t \in s.revoke
        BY <2>1, <2>2, <2>4, <3>3 DEF Revokes, MustRevoke
      <3> QED BY <2>2, <2>3, <2>6, <3>2, <3>4, WriteEndsSessions
    <2>7. CASE Write(s) /\ s.row.is_active = s.loaded.is_active
      BY <2>4, <2>7, ActivityKept
    <2> QED BY <2>3, <2>5, <2>6, <2>7
  <1> QED BY <1>1, InitOverlap, NextOverlap, PTL
          DEF OverlapSpec, InactiveGetsNoSession

\* No administrator's update takes the last active administrator away, neither
\* by demotion nor by deactivation, unless the row of some account was
\* changed by another request after the update had begun.
THEOREM UpdatesSpareAnAdmin == OverlapSpec => UpdateSparesAnAdmin
  <1> DEFINE Good(w) ==
        Leaves(w) /\ sess[w].op = "admin_update" /\ rewritten[w] = {}
          /\ ActiveAdmins # {}
        => ActiveAdmins' # {}
  <1>1. OverlapInv /\ [OverlapNext]_<<vars, overlaps>> =>
          [\A w \in Workers : Good(w)]_<<vars, overlaps>>
    <2> SUFFICES ASSUME OverlapInv, [Next]_vars, NEW w \in Workers, Leaves(w),
                        sess[w].op = "admin_update", rewritten[w] = {},
                        NEW u \in ActiveAdmins
                 PROVE  \E v \in Users : ActiveAdmin(users'[v])
      BY DEF ActiveAdmins, ActiveAdmin, OverlapNext
    <2>1. PICK s : s = sess[w]
      OBVIOUS
    <2>2. /\ TypeOK /\ s \in Session /\ Admitted(s, {}) /\ SparesAnAdmin(s, {})
          /\ s.op = "admin_update" /\ s.stage = "ready"
      BY <2>1, SessionFacts DEF Current, Leaves
    <2>3. Write(s)
      BY <2>1, <2>2, CommitFacts
    <2>4. HasRow(s) /\ s.user \in Users /\ s.loaded = users[s.user]
      BY <2>2 DEF Admitted, HasRow, BearerOps, AdminOps
    <2>5. users'[s.user] = s.row
          /\ \A v \in Users : v # s.user => users'[v] = users[v]
      BY <2>2, <2>3, <2>4, RowWritten, ActivityKept
    <2>6. u \in Users /\ ActiveAdmin(users[u])
      BY DEF ActiveAdmins, ActiveAdmin
    <2>7. CASE u # s.user \/ ActiveAdmin(s.row)
      BY <2>4, <2>5, <2>6, <2>7
    <2>8. CASE u = s.user /\ ~ActiveAdmin(s.row)
      <3>1. PICK v \in Users \ {s.user} : ActiveAdmin(users[v])
        BY <2>2, <2>4, <2>6, <2>8 DEF SparesAnAdmin
      <3> QED BY <2>5, <3>1
    <2> QED BY <2>7, <2>8
  <1> QED BY <1>1, InitOverlap, NextOverlap, PTL
          DEF OverlapSpec, UpdateSparesAnAdmin

\* What a request was let in for is still so at its commit (the account is
\* active, an administrator's has the role, the password given for the
\* current one is it), unless another request changed the row of that very
\* account in between.
THEOREM ChangesStayAuthorized == OverlapSpec => ChangesAreAuthorized
  <1> DEFINE Good(w) ==
        LET s == sess[w] IN
        Leaves(w) /\ s.op \in BearerOps /\ s.actor \notin rewritten[w] =>
          /\ users[s.actor].is_active
          /\ s.op \in AdminOps => s.actor \in ActiveAdmins
          /\ s.op = "change_password" => users[s.actor].password = s.password
  <1>1. OverlapInv => \A w \in Workers : Good(w)
    <2> SUFFICES ASSUME OverlapInv, NEW w \in Workers, Leaves(w),
                        sess[w].op \in BearerOps,
                        sess[w].actor \notin rewritten[w]
                 PROVE  /\ users[sess[w].actor].is_active
                        /\ sess[w].op \in AdminOps =>
                             sess[w].actor \in ActiveAdmins
                        /\ sess[w].op = "change_password" =>
                             users[sess[w].actor].password = sess[w].password
      OBVIOUS
    <2>1. /\ Admitted(sess[w], rewritten[w]) /\ HasRow(sess[w])
          /\ sess[w].actor \in Users /\ sess[w].stage = "ready"
      BY SessionFacts DEF Current, HasRow, ArgumentsOK, Leaves
    <2> QED BY <2>1 DEF Admitted, ActiveAdmins
  <1>2. OverlapInv => [\A w \in Workers : Good(w)]_<<vars, overlaps>>
    BY <1>1
  <1> QED BY <1>2, InitOverlap, NextOverlap, PTL
          DEF OverlapSpec, ChangesAreAuthorized
=============================================================================
