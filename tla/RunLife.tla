------------------------------- MODULE RunLife -------------------------------
(***************************************************************************)
(* What a run promises to whoever watches it: it is active and has work,   *)
(* waits for a command with none, or has finished with none.  A round is   *)
(* opened only for a run that waits, one at a time and with something to   *)
(* do, and a run that has finished stays as it is.                         *)
(***************************************************************************)
EXTENDS Naturals

VARIABLES status, round, work

lifeVars == <<status, round, work>>

Finished == {"completed", "failed", "cancelled"}

Init == status = "active" /\ round = 1 /\ work \in SUBSET Nat

Work ==
    /\ status = "active"
    /\ work' \in SUBSET Nat
    /\ UNCHANGED <<status, round>>

Suspend ==
    /\ status = "active"
    /\ status' = "waiting"
    /\ work' = {}
    /\ UNCHANGED round

OpenRound ==
    /\ status = "waiting"
    /\ status' = "active"
    /\ round' = round + 1
    /\ work' \in SUBSET Nat
    /\ work' # {}

Finish ==
    /\ status \in {"active", "waiting"}
    /\ status' \in Finished
    /\ work' = {}
    /\ UNCHANGED round

Next == Work \/ Suspend \/ OpenRound \/ Finish

Spec == Init /\ [][Next]_lifeVars
=============================================================================
