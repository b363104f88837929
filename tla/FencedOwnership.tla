-------------------------- MODULE FencedOwnership --------------------------
(***************************************************************************)
(* What the lease store promises to everything that fences on it: one      *)
(* resource, at most one owner at a time, and an epoch that grows by one   *)
(* whenever the resource gets an owner.  The pair (epoch, owner) handed to *)
(* an owner is its token; a token that stopped being the current one never *)
(* becomes current again, so a late message that carries it can be         *)
(* recognised for ever.  Once closed the resource has no owner.            *)
(***************************************************************************)
EXTENDS Integers

CONSTANTS Owners, NoOwner

VARIABLES epoch, owner, closed

ownVars == <<epoch, owner, closed>>

Init == epoch = 0 /\ owner = NoOwner /\ closed = FALSE

(* The resource goes to an owner that does not have it, taken from the     *)
(* present owner if there is one.                                          *)
Grant(o) ==
    /\ ~closed
    /\ owner # o
    /\ epoch' = epoch + 1
    /\ owner' = o
    /\ UNCHANGED closed

GiveUp ==
    /\ owner # NoOwner
    /\ owner' = NoOwner
    /\ UNCHANGED <<epoch, closed>>

Close ==
    /\ ~closed
    /\ closed' = TRUE
    /\ owner' = NoOwner
    /\ UNCHANGED epoch

Next == (\E o \in Owners : Grant(o)) \/ GiveUp \/ Close

Spec == Init /\ [][Next]_ownVars
============================================================================
