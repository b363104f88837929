----------------------------- MODULE LeaseRows -----------------------------
(***************************************************************************)
(* The rows of dag_actor_runtimes and dag_actor_provisioned_workers, and   *)
(* what each store operation of persistence/dag-actor-leases.ts requires   *)
(* of a row and writes to it.  An operation Op comes as a pair: OpAllowed  *)
(* is the conjunction of every check that makes the code return normally,  *)
(* and the operator named for the result is the row after the UPDATE.      *)
(* A failed check throws inside the transaction and changes nothing.       *)
(*                                                                         *)
(* One actor of one run is modelled: the operations never touch the row of *)
(* another actor.  A target stands for the pair (target_type, target_id),  *)
(* whose id is the worker_id of a provisioned Worker.                      *)
(***************************************************************************)
EXTENDS Integers

CONSTANTS
    Targets,        \* the Workers and Nodes a lease can be held by
    NoTarget,       \* NULL in target_type and target_id
    IdleTTL,        \* worker_idle_ttl_ms
    RetentionTTL,   \* actor_retention_ttl_ms
    MaxSafe         \* Number.MAX_SAFE_INTEGER

ASSUME TargetsAssumption == NoTarget \notin Targets
ASSUME TimesAssumption   == /\ IdleTTL \in Nat \ {0}
                            /\ RetentionTTL \in Nat \ {0}
                            /\ MaxSafe \in Nat \ {0}

NoTime == -1        \* NULL in a timestamp column
Later(a, b) == IF a >= b THEN a ELSE b

----------------------------------------------------------------------------
(* The lease row.  "none" is no row yet, "deleted" is a row removed with   *)
(* its dag_actors row: the actor can then never be leased again.           *)

LeaseStates == {"none", "dormant", "leased", "retired", "deleted"}

LeaseRow == [state: LeaseStates, gen: Nat, target: Targets \cup {NoTarget},
             deadline: Nat \cup {NoTime}, pinned: BOOLEAN,
             retained: Nat \cup {NoTime}, changed: Nat, updated: Nat,
             version: Nat]

NoLease == [state |-> "none", gen |-> 0, target |-> NoTarget,
            deadline |-> NoTime, pinned |-> FALSE, retained |-> NoTime,
            changed |-> 0, updated |-> 0, version |-> 0]

Persisted(l) == l.state \in {"dormant", "leased", "retired"}

Holds(l, gen, target) ==
    l.state = "leased" /\ l.gen = gen /\ l.target = target

Expired(l, now) == ~l.pinned /\ now >= l.deadline

(* What every UPDATE of the row requires: time does not run backwards and  *)
(* the version can be incremented.                                         *)
Mutable(l, now) == now >= l.updated /\ l.version < MaxSafe

(* A deadline of the row must be a safe integer.                           *)
Reachable(now, ttl) == now + ttl <= MaxSafe

Created(pinned, now) ==
    [state |-> "dormant", gen |-> 0, target |-> NoTarget,
     deadline |-> NoTime, pinned |-> pinned, retained |-> now + RetentionTTL,
     changed |-> now, updated |-> now, version |-> 1]

Ensured(l, now) == IF l.state = "none" THEN Created(FALSE, now) ELSE l

AcquireRetiredAllowed(l, target, now) ==    \* mutant: retired is not final
    /\ l.state # "deleted"
    /\ Reachable(now, IdleTTL)
    /\ l.state = "none" => Reachable(now, RetentionTTL)
    /\ Mutable(Ensured(l, now), now)
    /\ (l.state = "leased" /\ l.target = target) \/ l.gen < MaxSafe

AcquireAllowed(l, target, now) ==
    /\ l.state \in {"none", "dormant", "leased"}
    /\ Reachable(now, IdleTTL)
    /\ l.state = "none" => Reachable(now, RetentionTTL)
    /\ Mutable(Ensured(l, now), now)
    /\ (l.state = "leased" /\ l.target = target) \/ l.gen < MaxSafe

(* Mutants: a takeover keeps the generation; only a takeover advances it;  *)
(* the retention deadline survives.                                        *)
TakenOver(l, target, now) ==
    [Ensured(l, now) EXCEPT
        !.state = "leased", !.gen = IF l.state = "leased" THEN l.gen ELSE @ + 1,
        !.target = target, !.deadline = now + IdleTTL, !.retained = NoTime,
        !.changed = now, !.updated = now, !.version = @ + 1]

Reacquired(l, target, now) ==
    [TakenOver(l, target, now) EXCEPT
        !.gen = IF l.gen = 0 \/ (l.state = "leased" /\ l.target # target)
                THEN l.gen + 1 ELSE l.gen]

AcquiredRetained(l, target, now) ==
    [TakenOver(l, target, now) EXCEPT !.retained = Ensured(l, now).retained]

Acquired(l, target, now) ==
    LET row  == Ensured(l, now)
        same == row.state = "leased" /\ row.target = target
    IN  [row EXCEPT !.state    = "leased",
                    !.gen      = IF same THEN row.gen ELSE row.gen + 1,
                    !.target   = target,
                    !.deadline = IF same THEN Later(row.deadline, now + IdleTTL)
                                         ELSE now + IdleTTL,
                    !.retained = NoTime,
                    !.changed  = IF same THEN row.changed ELSE now,
                    !.updated  = now,
                    !.version  = row.version + 1]

RenewAllowed(l, gen, target, now) ==
    /\ Holds(l, gen, target)
    /\ Mutable(l, now)
    /\ Reachable(now, IdleTTL)
    /\ ~Expired(l, now)

Renewed(l, now) ==
    [l EXCEPT !.deadline = Later(l.deadline, now + IdleTTL),
              !.updated  = now,
              !.version  = l.version + 1]

ReleaseAllowed(l, gen, target, now) ==
    /\ Holds(l, gen, target)
    /\ Mutable(l, now)
    /\ Reachable(now, RetentionTTL)

FreedSwapped(l, state, now) ==  \* mutant: one timestamp bound for another
    [l EXCEPT !.state = state, !.target = NoTarget, !.deadline = NoTime,
              !.retained = now + RetentionTTL, !.changed = l.retained,
              !.updated = now, !.version = l.version + 1]

Freed(l, state, now) ==
    [l EXCEPT !.state    = state,
              !.target   = NoTarget,
              !.deadline = NoTime,
              !.retained = now + RetentionTTL,
              !.changed  = now,
              !.updated  = now,
              !.version  = l.version + 1]

Released(l, now) == Freed(l, "dormant", now)

PinLateAllowed(l, pinned, now) ==  \* mutant: retention may have run out
    /\ Persisted(l)
    /\ l.pinned # pinned
    /\ Mutable(l, now)
    /\ pinned /\ l.state = "leased" => now < l.deadline
    /\ l.state # "leased" /\ ~pinned => Reachable(now, RetentionTTL)

PinAllowed(l, pinned, now) ==
    /\ Persisted(l)
    /\ l.pinned # pinned
    /\ Mutable(l, now)
    /\ pinned => IF l.state = "leased" THEN now < l.deadline
                                       ELSE now < l.retained
    /\ l.state # "leased" /\ ~pinned => Reachable(now, RetentionTTL)

Repinned(l, pinned, now) ==
    [l EXCEPT !.pinned   = pinned,
              !.retained = IF l.state = "leased" THEN NoTime
                           ELSE IF pinned THEN l.retained
                           ELSE now + RetentionTTL,
              !.updated  = now,
              !.version  = l.version + 1]

(* A leased actor is retired only with its exact token, one that is not    *)
(* leased only without any.                                                *)
RetireAllowed(l, gen, target, now) ==
    /\ l.state \in {"dormant", "leased"}
    /\ IF l.state = "leased" THEN Holds(l, gen, target)
                             ELSE gen = 0 /\ target = NoTarget
    /\ Mutable(l, now)
    /\ Reachable(now, RetentionTTL)

Retired(l, now) == Freed(l, "retired", now)

DeleteAllowed(l, now) ==
    /\ l.state \in {"dormant", "retired"}
    /\ ~l.pinned
    /\ l.retained <= now

Deleted(l) == [l EXCEPT !.state = "deleted"]

(* The table's CHECK constraints, which make an UPDATE that breaks one     *)
(* throw: a leased row has a generation, a target and a deadline no        *)
(* earlier than its last change of state, and is not retained; any other   *)
(* row has no target or deadline and is retained past its last update.     *)
Checks(l) ==
    /\ l.state = "leased" => /\ l.gen >= 1
                             /\ l.target \in Targets
                             /\ l.deadline # NoTime
                             /\ l.deadline >= l.changed
                             /\ l.retained = NoTime
    /\ l.state \in {"dormant", "retired"} => /\ l.target = NoTarget
                                             /\ l.deadline = NoTime
                                             /\ l.retained # NoTime
                                             /\ l.retained >= l.updated
    /\ Persisted(l) => l.changed <= l.updated /\ l.version >= 1

----------------------------------------------------------------------------
(* A row of dag_actor_provisioned_workers: "absent" is no row.             *)

WorkerStates == {"absent", "active", "releasing", "released", "failed"}

WorkerRow == [status: WorkerStates, gen: Nat, worker: Targets \cup {NoTarget},
              updated: Nat, version: Nat]

NoWorkerRow == [status |-> "absent", gen |-> 0, worker |-> NoTarget,
                updated |-> 0, version |-> 0]

(* The checks of registerDagProvisionedWorker against the lease.           *)
RegisterAnyAllowed(l, gen, worker, now) ==  \* mutant: any token of the actor
    /\ l.state = "leased"
    /\ now >= l.updated
    /\ ~Expired(l, now)

RegisterAllowed(l, gen, worker, now) ==
    /\ Holds(l, gen, worker)
    /\ now >= l.updated
    /\ ~Expired(l, now)

Registered(gen, worker, now) ==
    [status |-> "active", gen |-> gen, worker |-> worker,
     updated |-> now, version |-> 1]

WorkerTransitions == {<<"active", "releasing">>, <<"active", "failed">>,
                      <<"releasing", "released">>, <<"releasing", "failed">>,
                      <<"failed", "releasing">>}

TransitionAllowed(row, status, now) ==
    /\ <<row.status, status>> \in WorkerTransitions
    /\ Mutable(row, now)

Transitioned(row, status, now) ==
    [row EXCEPT !.status = status, !.updated = now, !.version = row.version + 1]
============================================================================
