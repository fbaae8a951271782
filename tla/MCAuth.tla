------------------------------- MODULE MCAuth -------------------------------
(***************************************************************************)
(* Instances of AuthSystem for TLC.                                        *)
(***************************************************************************)
EXTENDS SessionRefinement, TLC

\* Tokens and one-time tokens are told apart by nothing but their rows, and
\* workers by nothing but their sessions.
Symmetry == Permutations(Tokens) \cup Permutations(Links)
            \cup Permutations(Workers)

Payload(role, active) ==
  [role |-> role, is_active |-> active, is_verified |-> "keep"]

\* PATCH /users/{id}: change the role, the activity, both, or is_verified.
AdminPayloads ==
  {Payload("user", "keep"), Payload("admin", "keep"),
   Payload("keep", "off"), Payload("keep", "on"), Payload("user", "off"),
   [NoPayload EXCEPT !.is_verified = "on"]}

DemotePayloads == {Payload("user", "keep"), Payload("keep", "off")}
=============================================================================
