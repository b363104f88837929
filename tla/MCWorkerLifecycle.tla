------------------------- MODULE MCWorkerLifecycle -------------------------
(* One actor and the Workers provisioned for it one after another.         *)
EXTENDS WorkerLifecycle, TLC

Symmetry == Permutations(Workers)
============================================================================
