------------------------- MODULE SessionRefinement -------------------------
(***************************************************************************)
(* AuthSystem implements Sessions.  A session is a row of refresh_tokens,  *)
(* open until revoked_at is set; a worker holds the token of a refresh     *)
(* whose handler has found the row live and has not committed.  Expiry is  *)
(* not an end: it only keeps a token from being presented.                 *)
(***************************************************************************)
EXTENDS AuthSystem

Owner == [t \in Tokens |-> refresh_tokens[t].user]

OpenTokens == {t \in Tokens : Issued(t) /\ ~refresh_tokens[t].revoked}

Refreshing(s) ==
  /\ s.token # NoToken
  /\ s.stage = "token_read" \/ (s.stage = "ready" /\ s.issue # NoToken)

Held == [w \in Workers |->
           IF Refreshing(sess[w]) THEN sess[w].token ELSE NoToken]

Abstract == INSTANCE Sessions WITH owner <- Owner, open <- OpenTokens,
                                   held <- Held

\* The tables of the service never show anything but the sessions of the
\* abstract specification, whatever the handlers of several threads read in
\* one transaction and write in another: no revoked row comes back to life,
\* no token changes its user, an exchange goes back to a moment at which the
\* token was live, and every commit revokes rows of one account only.
ImplementsSessions == Abstract!Spec
=============================================================================
