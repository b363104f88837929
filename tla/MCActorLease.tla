---------------------------- MODULE MCActorLease ----------------------------
(* A small store: two targets, two containers.  MaxSafe plays the part of  *)
(* Number.MAX_SAFE_INTEGER at a size TLC reaches, so the guards that stop  *)
(* generations, versions and deadlines at the limit are exercised.         *)
EXTENDS ActorLease, TLC

Symmetry == Permutations(Containers)
============================================================================
