----------------------------- MODULE MCApproval -----------------------------
(***************************************************************************)
(* Two approval nodes, of one run or of two.                               *)
(***************************************************************************)
EXTENDS Approval

CONSTANTS n1, n2, r1, r2

OneRunOrTwo == {[n \in {n1, n2} |-> r1], [n \in {n1, n2} |-> IF n = n1 THEN r1 ELSE r2]}
=============================================================================
