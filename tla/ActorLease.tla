----------------------------- MODULE ActorLease -----------------------------
(***************************************************************************)
(* The durable lease of a DAG actor and its provisioned Workers, as the    *)
(* exported operations of persistence/dag-actor-leases.ts change them.     *)
(* Each operation is one immediate SQLite transaction, hence one action.   *)
(* Callers are arbitrary: dispatch, the reaper, interventions and tests    *)
(* call in any order, with any token they once got or never got, and with  *)
(* a `now` read at any earlier moment or from a clock that was stepped     *)
(* back, so `now` is any value of Times.  expected_version is left out:    *)
(* when it is given and differs the call fails and changes nothing, and a  *)
(* caller that guesses right gets exactly the step modelled here.          *)
(***************************************************************************)
EXTENDS LeaseRows

CONSTANTS
    Containers,     \* the containers that may be registered, UNIQUE(container_id)
    MaxNow          \* bound on the time a caller may pass

ASSUME MaxNowAssumption == MaxNow \in Nat

Times == 0..MaxNow

VARIABLES
    lease,          \* the row of dag_actor_runtimes
    workers,        \* container -> its row of dag_actor_provisioned_workers
    granted         \* history: the tokens <<gen, target>> acquire returned

vars == <<lease, workers, granted>>

Init ==
    /\ lease = NoLease
    /\ workers = [c \in Containers |-> NoWorkerRow]
    /\ granted = {}

(* ensureDagActorLease: an existing row is returned as it is.              *)
Ensure(pinned, now) ==
    /\ lease.state = "none"
    /\ Reachable(now, RetentionTTL)
    /\ lease' = Created(pinned, now)
    /\ UNCHANGED <<workers, granted>>

Acquire(target, now) ==
    /\ AcquireAllowed(lease, target, now)
    /\ lease' = Acquired(lease, target, now)
    /\ granted' = granted \cup {<<lease'.gen, target>>}
    /\ UNCHANGED workers

Renew(token, now) ==
    /\ RenewAllowed(lease, token[1], token[2], now)
    /\ lease' = Renewed(lease, now)
    /\ UNCHANGED <<workers, granted>>

Release(token, now) ==
    /\ ReleaseAllowed(lease, token[1], token[2], now)
    /\ lease' = Released(lease, now)
    /\ UNCHANGED <<workers, granted>>

SetPinned(pinned, now) ==
    /\ PinAllowed(lease, pinned, now)
    /\ lease' = Repinned(lease, pinned, now)
    /\ UNCHANGED <<workers, granted>>

Retire(token, now) ==
    /\ RetireAllowed(lease, token[1], token[2], now)
    /\ lease' = Retired(lease, now)
    /\ UNCHANGED <<workers, granted>>

(* deleteExpiredDagActorRuntime: the cascade takes the worker rows too.    *)
DeleteExpired(now) ==
    /\ DeleteAllowed(lease, now)
    /\ \A c \in Containers : workers[c].status \in {"absent", "released"}
    /\ lease' = Deleted(lease)
    /\ workers' = [c \in Containers |-> NoWorkerRow]
    /\ UNCHANGED granted

(* registerDagProvisionedWorker.  A row of the same generation and Worker  *)
(* is returned or refused, and nothing changes; else the INSERT fails on   *)
(* the container index when the container has a row, and on the partial    *)
(* index when another Worker of the generation is active or releasing.     *)
OpenRowOf(gen, worker) ==      \* mutant: overlooks failed Workers
    {c \in Containers : /\ workers[c].status \in {"active", "releasing"}
                        /\ workers[c].gen = gen
                        /\ workers[c].worker = worker}

RowOf(gen, worker) ==
    {c \in Containers : /\ workers[c].status # "absent"
                        /\ workers[c].gen = gen
                        /\ workers[c].worker = worker}

OpenRows(gen) ==
    {c \in Containers : /\ workers[c].status \in {"active", "releasing"}
                        /\ workers[c].gen = gen}

Register(c, token, now) ==
    /\ RegisterAllowed(lease, token[1], token[2], now)
    /\ RowOf(token[1], token[2]) = {}
    /\ workers[c].status = "absent"
    /\ OpenRows(token[1]) = {}
    /\ workers' = [workers EXCEPT ![c] = Registered(token[1], token[2], now)]
    /\ UNCHANGED <<lease, granted>>

(* transitionDagProvisionedWorker.  The partial index is not consulted     *)
(* here: IndexNeverTrips is why it need not be.                            *)
Transition(c, status, now) ==
    /\ TransitionAllowed(workers[c], status, now)
    /\ workers' = [workers EXCEPT ![c] = Transitioned(workers[c], status, now)]
    /\ UNCHANGED <<lease, granted>>

Tokens == granted \cup {<<0, NoTarget>>}

Next ==
    \E now \in Times :
        \/ \E pinned \in BOOLEAN : Ensure(pinned, now) \/ SetPinned(pinned, now)
        \/ \E target \in Targets : Acquire(target, now)
        \/ \E token \in Tokens :
              \/ Renew(token, now)
              \/ Release(token, now)
              \/ Retire(token, now)
              \/ \E c \in Containers : Register(c, token, now)
        \/ DeleteExpired(now)
        \/ \E c \in Containers, status \in WorkerStates :
              Transition(c, status, now)

Spec == Init /\ [][Next]_vars

----------------------------------------------------------------------------
(* Every variable has its type.                                            *)
TypeOK ==
    /\ lease \in LeaseRow
    /\ workers \in [Containers -> WorkerRow]
    /\ granted \subseteq (Nat \X Targets)

(* No operation ever writes a row that the table's CHECK constraints would *)
(* reject.  The stale-time guards, the maximum taken on a renewed deadline *)
(* and the pin rules together ensure it, whatever order calls come in;     *)
(* otherwise a legal call would throw from inside SQLite.                  *)
RowChecks == Checks(lease)

(* No two targets are ever granted the same generation, so a generation    *)
(* alone identifies its holder.                                            *)
OneTargetPerGeneration ==
    \A s, t \in granted : s[1] = t[1] => s = t

(* The partial UNIQUE index on (run, actor, generation) WHERE status is    *)
(* active or releasing: a failed Worker that cleanup takes back to         *)
(* releasing never meets another open Worker of its generation.            *)
IndexNeverTrips ==
    \A c, d \in Containers :
        workers[c].status # "absent" /\ workers[d].status # "absent"
            /\ workers[c].gen = workers[d].gen => c = d

(* A registered Worker holds a token the store handed out: its generation  *)
(* and id were granted, and no later generation than the row's exists.     *)
RegisteredWasGranted ==
    \A c \in Containers : workers[c].status # "absent" =>
        /\ <<workers[c].gen, workers[c].worker>> \in granted
        /\ workers[c].gen <= lease.gen

(* A token that is not current never becomes current again: neither an     *)
(* expired holder that comes back, nor a release replayed later, revives   *)
(* a token another caller has seen superseded.                             *)
Current(token) == Holds(lease, token[1], token[2])

SupersededForever ==
    [][\A token \in granted : Current(token)' => Current(token)]_vars

(* The store implements the fenced ownership every consumer relies on.     *)
Ownership == INSTANCE FencedOwnership WITH
    Owners  <- Targets,
    NoOwner <- NoTarget,
    epoch   <- lease.gen,
    owner   <- IF lease.state = "leased" THEN lease.target ELSE NoTarget,
    closed  <- lease.state \in {"retired", "deleted"}

FencesOwnership == Ownership!Spec
============================================================================
