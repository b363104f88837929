--------------------------- MODULE MCRunAdmission ---------------------------
(***************************************************************************)
(* Identities for the model checker.                                       *)
(***************************************************************************)
EXTENDS RunAdmission

CONSTANTS r1, r2, r3, r4, e1
=============================================================================
