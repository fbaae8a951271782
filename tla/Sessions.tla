------------------------------ MODULE Sessions ------------------------------
(***************************************************************************)
(* What the service promises about sessions, without tables, commits or    *)
(* requests.  A session is a refresh token that was given to a user; it is *)
(* open until it is ended or exchanged for the next one.  To exchange one  *)
(* it is presented, while it is open; from then on whoever holds it may    *)
(* exchange it once, even if it was ended meanwhile, or let it go.         *)
(*                                                                         *)
(* So a session that is ended stays ended, an exchange ends what it        *)
(* replaces and stays with the user, and nobody gets a session from one    *)
(* that was presented only after its end.                                  *)
(***************************************************************************)
CONSTANTS Users, NoUser, Tokens, NoToken, Workers

VARIABLES
  owner,      \* whom each token was given to
  open,       \* tokens neither ended nor exchanged
  held        \* the token each worker was presented with

vars == <<owner, open, held>>

Init ==
  /\ owner = [t \in Tokens |-> NoUser]
  /\ open = {}
  /\ held = [w \in Workers |-> NoToken]

Unused(t) == owner[t] = NoUser

Open(u, t) ==
  /\ Unused(t)
  /\ owner' = [owner EXCEPT ![t] = u]
  /\ open' = open \cup {t}
  /\ UNCHANGED held

Present(w, t) ==
  /\ held[w] = NoToken /\ t \in open
  /\ held' = [held EXCEPT ![w] = t]
  /\ UNCHANGED <<owner, open>>

LetGo(w) ==
  /\ held' = [held EXCEPT ![w] = NoToken]
  /\ UNCHANGED <<owner, open>>

Exchange(w, t) ==
  /\ held[w] # NoToken /\ Unused(t)
  /\ owner' = [owner EXCEPT ![t] = owner[held[w]]]
  /\ open' = (open \ {held[w]}) \cup {t}
  /\ held' = [held EXCEPT ![w] = NoToken]

\* Log out, one session or all but some, a password change, a deactivation:
\* sessions of one user end.
End(u) ==
  /\ \E ended \in SUBSET {t \in open : owner[t] = u} : open' = open \ ended
  /\ UNCHANGED <<owner, held>>

Next ==
  \/ \E u \in Users : End(u) \/ \E t \in Tokens : Open(u, t)
  \/ \E w \in Workers :
       LetGo(w) \/ \E t \in Tokens : Present(w, t) \/ Exchange(w, t)

Spec == Init /\ [][Next]_vars
=============================================================================
