------------------------------ MODULE MCAdmins -------------------------------
(***************************************************************************)
(* An instance of AuthOverlap for TLC: administrators who change each      *)
(* other and themselves, with the requests and values of MCAuth.           *)
(***************************************************************************)
EXTENDS MCAuth, AuthOverlap
=============================================================================
