# Formal verification of the ATMS Manager's durable DAG actors

ATMS runs *workflows*: graphs of agent tasks. The **Manager** (`src/atms_manager`)
keeps the runs, decides which node is ready, and sends it to a **Worker** container
(`src/atms_worker`) which a **Node** host (`src/atms_node`) starts on request. Since
runs may wait for commands between *rounds*, the logical *actor* behind a graph node
lives longer than any Worker that executes it: a durable **lease** with a generation
number says which physical target currently speaks for the actor, and everything that
comes back late is fenced by it. This directory holds TLA+ models of that machinery,
TLC configurations, and proofs checked by TLAPS.

## 1. Inventory

| Part | Source (`src/atms_manager/src/` unless noted) | State | Operations |
|---|---|---|---|
| Lease store | `persistence/dag-actor-leases.ts` | rows of `dag_actor_runtimes` (state, generation, target, deadline, pin, retention, version) and `dag_actor_provisioned_workers` | ensure, acquire, renew, release, pin, retire, delete, register, transition, checkpoint |
| Lease reaper | `runtime/dag-actor-lease-reaper.ts` | none of its own; snapshots taken in one reap | renew, watch connections, reclaim, expire, delete |
| Cleanup | `orchestration/provisioned-cleanup.ts` | `inflightWorkers` in memory, rows | deprovision one Worker, or all of a run |
| Dispatch adapter | `orchestration/ws-dispatch-adapter.ts`, `dispatch-tracker.ts` | dispatch targets and exclusions, in memory | dispatch hot, provision, bind, give back |
| Worker registry | `worker/websocket.ts`, `worker/registry.ts` | connected Workers, in memory | register, close |
| Provisioner | `node/worker-provisioner.ts` | waiters, in memory | provision, deprovision over a Node |
| Runs | `runtime/active-runs.ts` | one `ActiveRun` per run, persisted as a snapshot | create, dispatch, handoff, fail, wait, resume, cancel, recover, intervene |
| Actors and commands | `persistence/dag-actors.ts`, `dag-run-rounds.ts` | actors (generation, version), commands, rounds | bind, advance, claim, complete, open and close a round |
| Response bridge | `orchestration/response-bridge.ts` | none | fence a response, apply it |
| DAG engine | `orchestration/dag-engine.ts` | node states, satisfied dependencies, mailboxes | start, hand off, fail, reset for a round |
| Admission | `persistence/dag-run-admission.ts` | rows of `dag_run_admissions` | reserve a place, release it, drop orphans |
| Triggers | `runtime/dag-triggers.ts`, `persistence/dag-triggers.ts` | triggers with `next_fire_at`, a delivery row per fire | due, claim, complete, fail, postpone |
| Change orchestrator | `orchestration/change-orchestrator.ts` | none; it calls the others | create, resume, complete a run, send live commands |
| Approvals | `persistence/dag-runtime-primitives.ts`, parts of `runtime/active-runs.ts` | rows of `dag_approvals`, the approval nodes | start, decide, expire, hand off |
| Live commands | `runtime/dag-actor-live-command-runtime.ts`, `persistence/dag-actor-live-commands.ts` | rows of `dag_actor_live_commands` | store, steer, record a status, terminate, recover |
| Interventions | parts of `runtime/active-runs.ts` | the intended intervention | retry, stop, advance to a new generation |
| Worker's turns | `src/atms_worker/src/`: `index.ts`, `agent/turn-controller.ts`, `live-steering.ts` | `activePrompt`, one controller per turn with the commands it took | open, steer, interrupt, close, report |

The other parts of the repository (workflow compiler, message router, credential
broker, plugins, generative UI, artifacts, memory, HTTP and voice servers, the Node,
the CLI and the UI) are listed in `PROJECT.json` with the reason they are left out.

How they interact. A trigger that is due, an event or a user's request reaches
`ChangeOrchestrator`, which reserves a place and creates or resumes the run.
`dispatchReadyNodes` hands a ready node to the adapter. The adapter
takes the lease, sends the envelope over the Worker's socket, or asks a Node for a
container and binds the Worker that registers. A response is checked against lease and
command and then applied to the engine. The reaper, on a timer, renews leases of active
runs, notices Workers that vanished, releases expired leases, removes containers and finally deletes records. A user may steer an actor at work: the command goes into the
turn its Worker has open, or becomes the command of the actor's next round. An approval node
waits for an operator or for the scheduler's tick that expires it. The Manager is one event loop: what is concurrent is what
happens between two `await`s, in the Node, in the Worker, on the network, and across
a restart of the Manager, which keeps only what SQLite holds.

What makes each part correct:

* lease store: one holder per generation, superseded tokens are dead for ever, no call
  can make the table's CHECK constraints or partial unique index throw;
* reaper and cleanup: a Worker in good standing keeps its lease, an unowned one is
  removed in the end, nothing that was registered is forgotten;
* adapter: a lease is given back whenever a dispatch did not happen, and a node that is
  READY can be dispatched;
* runs: a running node is answered for by somebody, an ended run holds no lease and is
  never touched again, limits hold although Workers come up asynchronously, a round
  changes only what it commands, and an active run always has something to wait for;
* admission and triggers: a fire starts one run whatever is retried, the policy is never passed,
  a place is not lost to a failure, and the schedule goes on;
* approvals: what is approved is what the operator was shown, a decision stands, and a node does not
  wait longer than its time;
* live commands: each is carried out at most once, is recorded as completed only if it was carried
  out, and ends;
* engine: a node starts when its dependencies allow it and not before, a join is not
  skipped while a vote is out, and no node is left pending for ever.

## 2. Modules

| Module | What it is |
|---|---|
| `LeaseRows` | The two tables' rows and, for each store operation, its checks (`...Allowed`) and the row it writes. Shared by the next two. |
| `FencedOwnership` | Abstract specification: an owner, an epoch that grows with each grant, closing. |
| `ActorLease` | The lease store: one action per exported operation, called by anybody at any time. Implements `FencedOwnership`. |
| `LeaseRowsProofs` | TLAPS lemmas: what each operation does to a lease row. Shared by the next module and `WorkerLifecycleProofs`. |
| `ActorLeaseProofs` | TLAPS proofs for `ActorLease`. |
| `WorkerLifecycle` | Adapter, registry, provisioner, reaper, cleanup, and the parts of the run that touch the lease, with restarts. Uses `LeaseRows`. |
| `WorkerLifecycleProofs` | TLAPS proofs for `WorkerLifecycle`. |
| `DagEngine` | The graph engine as operators on a graph and an engine state, one per exported function. |
| `DagEngineProofs` | TLAPS lemmas about every engine operator on every loaded graph: it returns a well-formed engine state, leaves no node stuck that it could settle, changes only the nodes it may, promotes in order, and skips no join that has a vote. |
| `RunLife` | Abstract specification: a run is active, waits for a command or has ended, and what is left to do in it. |
| `DagRun` | One run over the engine: dispatch passes, answers, corrections, rounds, recovery. Uses `DagEngine`, implements `RunLife`. |
| `DagRunProofs` | TLAPS proofs for `DagRun`. |
| `RunAdmission` | Triggers, requests, reservations and the life of the runs of one workflow. |
| `RunAdmissionProofs` | TLAPS proofs for `RunAdmission`. |
| `Approval` | Approval rows and nodes: decisions, expiry, loops, restarts. |
| `ApprovalProofs` | TLAPS proofs for `Approval`. |
| `LiveSteering` | Live commands between the Manager, the Worker's turns and the rounds of the run. |
| `LiveSteeringProofs` | TLAPS proofs for `LiveSteering`. |
| `MC...` | For each of the six specifications: symmetry, finite constants and the graphs for TLC. |

### Lease store (`LeaseRows`, `ActorLease`)

Each exported function is one immediate transaction, so one action. A function that
throws changes nothing, hence `OpAllowed` is the conjunction of everything that must
hold for it to return. `now` is an argument in the code; the reaper passes a clock
reading as old as the whole reap, so `now` is any value of `0..MaxNow`. Callers hold any
token `<<generation, target>>` the store ever granted. `expected_version` is left out: a
call with the wrong version does nothing, with the right one it is the step modelled.
Checkpoints are append-only rows no other operation reads and are not modelled.

### Life of a Worker (`WorkerLifecycle`)

One run, one actor on one graph node; "the run goes on with other nodes" is a choice.
An action is a stretch of code between two awaits: the variable `provisioning` is a
pending `provisionWorkerContainer`, `jobs` the pending removals (`inflightWorkers`), and
`reaper` the list positions and the clock reading of the reap in progress.
`reaper.wait` is the removal the reap awaits. Because other actors' Workers may come
between two items of a reap's list, any other action may too.

Left out: generic (not provisioned) Workers and Nodes as targets, interventions and
exclusions, checkpoints. The tracker's state `failed` behaves like no entry and is
merged with it. `MissingIsRemoved` tells the two Node providers apart: removing a
container that is gone succeeds with the Docker CLI provider and is an error with the
Docker API provider. `Restart` loses the memory, lets each outstanding request to the
Node take effect or not, and applies what recovery does to a run whose node was running.
Two crash actions stop the Manager between the two transactions of one handler.

### A run and its graph (`DagEngine`, `DagRun`)

`DagEngine` has no state of its own: a graph `g` and a record `d` with the node states,
the nodes that handed off, the satisfied dependencies and inputs, and the loop sources.
`Handoff`, `FailNode`, `ReconcileSettled`, `ResetForRound` and the rest have the names of
the functions they translate. Loops over a graph to a fixed point are `Closure`, loops
over nodes in order `ForEach`; both are recursive functions, not `RECURSIVE` operators, so
that the modules can be proved about.

`DagRun` has one action per event that reaches the Manager for a run: a dispatch pass
(`DispatchReadyNodes`), the end of a provisioning, the retry timer, the first
registration after a restart, the lease reaper's call, an answer or error of a Worker, a
cancellation, completion, expiry or resume of a waiting run, and a restart. A handler
that calls `GraphExecutor.tick` sets `passes`, and while it is positive only the next pass
or a crash can happen; handlers that do not tick leave it at zero, which is how a missed
wake-up would show. The run implements `RunLife` with `work` the nodes that are neither settled,
nor a loop source at rest, nor the await node of a waiting run: whoever watches a run sees it end or wait
only when nothing is left to do, whatever is still under way with Workers. `executing` is what Workers were sent and have not answered; a
prompt sent in an earlier round, or before a restart, is answered late. `seeded` and
`history` keep of a mailbox what later code looks at: whether it has data at all, and
which ports were ever handed off.

Left out: fanout, approval and broker gateways; edges with the condition `always`;
interventions and live commands; `max_handoffs`, `max_dispatches` and the one dispatch
retry, which end a run or repeat a dispatch without a new interleaving. Each route has an
input port of its own at its receiver. A `foreach` gateway is a `while` gateway whose
predicate is "no item left". Whether a failure port has a contract, whether an answer is
valid and what a gateway decides are choices. The lease fence of an answer belongs to
`WorkerLifecycle`; an answer whose lease is gone is one that is never given here. The
tracker's state `provisioning` that survives a failed send is a finding of that module
and not repeated here. A crash inside `failActiveRun` is not modelled: it writes the failed node
(`active-runs.ts:2336`) and ends the run (`:2366`) in two transactions, which are one step here.

### Admission (`RunAdmission`)

One workflow with one interval trigger and one event trigger. `dispatch`, `createRun` and
`resumeRun` are synchronous, so nothing else of the Manager runs during them, but each commits
several transactions. `handler.step` names the next one: `admit` (`reserveWorkflowRun`), `create`
(`createActiveRun` or `resumeWaitingActiveRun`), `release` (the `finally`), `dispatch` (the first
tick), `settle` (the delivery's row). The reservation, the creation, the release, the first tick and the settling may
throw. A refusal, or an exception of the reservation or the creation, reaches the caller, and `dispatch` settles its delivery as failed.
A release that throws leaves the reservation behind: `createRun` swallows the exception and goes on (`change-orchestrator.ts:376-381`),
`resumeRun` lets it out after the run was resumed (`:490`). An exception of the failed delivery's row or of the deferral
of an interval trigger is caught by nothing and ends the process, so it is a `Crash`. `Crash` between two steps leaves the rows.
`leftAt` is the time a reservation was last left behind, by a crash or by a release. Run ids are generated and new; the
model has a finite number of identities and lends that of an ended run, which no reservation
refers to, to the next run. Left out: what an active run does, several workflows, a full table
of policies (the policy is a constant, on or off with `enabled`).

### Approvals (`Approval`)

One or two runs with approval nodes. The row and the node are written one after the other by one handler,
so `handler` holds what was committed and not yet followed up: after `started` the node begins to wait,
after `approved`, `rejected` or `expired` it is handed off. `Expire` marks all overdue rows at once,
as `expirePendingApprovals` does, and `ExpireOne` hands off one of them, with `Caught` for the exception that
concerns one node only. Such an exception, like one of the dispatch pass that enters a node, goes to `failActiveRun`, and that is
`FailNode`: the node fails; then either the run goes on, without the pending nodes that depended on the failed one, or it fails as a
whole, by a fatal failure route or because nothing else is left to do. A sibling node that waits stays as it is in both cases,
waiting in the first. Which case it is depends on the graph, which is left out, so it is a choice. Left out as well: a `failActiveRun` whose own write
throws; a crash between its two writes is the first case followed by `Crash`. A proposal is a number and its hash the same number: entering a node again
brings the next, and an operator may send any hash ever shown. `loaded` is the Manager's memory, which a
restart fills run by run.

### Live commands (`LiveSteering`)

One run with one actor and one Worker. Two sequences of messages are the socket, `turn` the Worker's turn
controllers (more than one, since an interrupted turn settles while the next prompt has begun) and
`prompt` its `activePrompt`. `live` holds the rows of the commands, `link` the command of a round that a
row became when it fell back (same id). The Worker does one thing at a time but its turns interleave: a
command is taken, steered (`Steer`), and reported as applied and completed in separate steps. Interventions
(`Retry`, `Stop`, and the new generation of `Advance`), repeated requests (`Resend`), a closed socket and a restart of the Manager interfere.
Left out: leases and the choice of Workers, so that a message's fence is its round and generation; corrections of
failed turns; batches over several actors. The close of a socket is noticed before the next
registration; the other order is the subject of `StaleClose.cfg`.

At a boundary the await node decides whom it lets go on: `targeting` is the set of rounds whose await node targets the actor
(`target_actors`, where an empty list means everybody). At a boundary that does not, a queued command stays queued, the run waits, and so does a
user's command to the actor (`Resume`). Other actors are there only through `ResumeOthers`: a round that a user, or a live command to
another actor, opens for them, through which this actor's node keeps its result; a boundary that consumes another actor's command
is a wait followed by `ResumeOthers`. The command that was held is taken up at a later boundary that targets the actor.
Left out of the boundary: the limit of 128 actors per round (`MAX_LIVE_FALLBACK_ACTORS_PER_ROUND`, `active-runs.ts:415`); exceptions of the store;
an actor whose node has no path to the await node, whose command makes `resumeWaitingActiveRun` throw and
keeps the commands of all actors back, as does another actor's command whose id is refused.

## 3. Runs

| Run | Question |
|---|---|
| `lease_store` | Can any order of store calls, with any old token and any clock reading, break the table's constraints, its unique index, or the fence? Two targets, two containers and integers up to 4 (for `MAX_SAFE_INTEGER`): generations supersede each other and every numeric limit is reached. |
| `worker_restart` | Two Workers, two rounds, and one restart of the Manager, at any await or between the two transactions of a registration or of a disconnected Worker's release: does a lease, a Worker or a container go wrong? |
| `worker_reclaimed` | Is a Worker that lost its lease removed in the end, over two restarts and rounds, also when it connects again with its old socket still open? |
| `dag_run` | Do dispatch, failure, correction, rounds and recovery keep order, limits and endings on every graph of the families? |
| `run_admission` | Can retries, exceptions, and a crash between any two transactions or a release that throws, start a second run for a fire, pass the policy, lose a place or stop the schedule? |
| `approval` | Can loops, two runs in one tick, exceptions that fail a node beside a waiting one, and a crash make an operator approve something else, undo a decision, or leave a node waiting? |
| `live_steering` | Without loss of messages: is a command carried out twice, by two turns or by a turn and a round, and does each command end, whether or not the boundary targets its actor? |
| `live_restart` | With a lost connection and a restart, on backends that take live commands and on those that do not: does completed mean carried out? |
| `lost_removal`, `recovery_stall`, `unadmitted_fallback`, `abandoned_fallback` | Statements of the repository's docs and comments that the code violates (section 6). |

**Bounds.** Lease store: two targets and two containers, so that generations supersede each other, and integers
up to 4 (for `MAX_SAFE_INTEGER`), so that every numeric limit is reached.
Worker runs: two Workers are needed for takeover and are symmetric, except in
the liveness run, where symmetry is not sound; a clock of 2 with a TTL of 2 lets a lease
expire exactly at the edge; one restart reaches every pair
"interrupted, then retried", the liveness run has two restarts. `lost_removal` has the failed removal. `dag_run`: a limit of two
agents against a fan of three; one correction, one traversal and one iteration so that
each limit is reached and passed; two rounds and one restart, in any order. The graphs
are the `while` loops of the cold-recovery tests, a review loop, a chain that ends on a
failure port, the fan, and two generated families: two agents and a join or await node,
with every pair of nodes unrelated, ordered, or linked by a success or failure route, with
and without a feedback route: 113 graphs. Promotion and skipping look at a node's direct
predecessors and at closures over the graph; three to five nodes iterate those closures twice.
Nested loops and joins that feed joins are not among the graphs. The graphs on which a
statement without exceptions fails (section 6) are in `MCDagRun` too, each with a configuration of its own, outside the run.
What the run shows of 113 graphs is proved of all of them (section 5); `ParallelismHolds` of those without loops.
`run_admission`: a policy of one with four identities of runs: one active, one waiting, one
refused or crashed on the way, and a new one; an interval of 2 in a time of 3 is due, late and postponed; an
orphan's time-out of 1, so that an orphan is met before and after it is dropped; one fault, a crash or a release that throws. `approval`: two nodes
of one run or of two, since the tick treats the nodes of a run and the runs in turn; two
proposals per node, so that a decision may be about the other one; a time-out of 1 in a time of
2, so that a row expires before and after the node is entered again. `live_steering`: two
commands (one blocks the other), two rounds (the first with a boundary to fall back to), two generations, two
turns that overlap, one repeated request; the first boundary targets the actor or not. `live_restart`: one command over three rounds (steered, fallen
back, completed), one restart and one lost connection in any order; the boundary of the first round targets the actor or not, that of the
second does.

**Stopping.** `CHECK_DEADLOCK FALSE` throughout: the clock, the generations or the restarts
are at their bound, or the run has ended and its records are deleted.

**Fairness.** For `UnownedIsReclaimed`, `FairSpec` of `WorkerLifecycle` assumes that the reaper's
steps go on (`startDagActorLeaseReaper` is an interval that is re-armed whatever one reap
did, `dag-actor-lease-reaper.ts:227-253`) and that a removal the Manager waits for is
answered (`worker-provisioner.ts` bounds it with a timeout, after which it counts as
failed). Failed removals are bounded by `MaxCleanupFailures`: a Node that fails for ever
keeps its container. For `IntervalFiresAgain`: a handler runs on, and the scheduler's timer has its turn
between requests however many arrive (strong fairness, because requests occupy the Manager now and
then; `setInterval`, `runtime/dag-triggers.ts:57-66`). For `WaitingEnds`: the same tick expires approvals, and time passes. For
`CommandsEnd`: messages arrive, a turn ends (an agent's call returns or is interrupted), the Manager takes its next
step, and a Worker registers again. In every case nothing is assumed of users, operators or other runs.

## 4. What the runs show

`lease_store`: `RowChecks` (no call writes a row the CHECK constraints reject),
`OneTargetPerGeneration`, `SupersededForever`, `IndexNeverTrips` (the partial index on the
open Worker of a generation cannot make a transition throw, which no code checks),
`RegisteredWasGranted`, and the refinement of `FencedOwnership`.

`worker_restart`: `EndedRunHoldsNothing` (no lease outlives its run), `DeletedStrandsNothing`
(records are deleted only when every container of the actor is gone), `NoActiveOwnerRemoved`
(the Worker that runs the node under a valid lease is not removed), `RunningIsLeased`,
`RenewedLeaseSurvivesReap` (a lease taken up again while a reap is half done is not released by it).
`worker_reclaimed`: `UnownedIsReclaimed`.

`dag_run`: the refinement of `RunLife`, `ParallelismHolds`, `RestIsQuiet` (nothing runs in an ended run, a round closes
only when all else is settled), `EndedIsFinal`, `DependenciesFirst` (a node becomes ready only when all it comes after has
settled), `SuccessVotes` (a join of any of its inputs is not skipped when a node that succeeded has voted for it),
`OnlyLoopsStall` (an active run that nothing will call again has a loop source at rest), `RoundScoped` (a round leaves
the results of the agents it does not command alone, when it opens and through all that follows). Each has exceptions,
named in the definition, and each exception is there because the code breaks the statement without it (section 6):

* `DependenciesFirst` is about runs that were not restarted and, from the second round on, about the
  actors the round commands; what a loop gateway iterates is exempt on both sides of the edge;
* `SuccessVotes` is about graphs without loops and runs that were not restarted; the vote of a failure may be lost;
* `OnlyLoopsStall` is about the first round, and exempts a pending node that comes after nothing;
* `RoundScoped` exempts what a loop gateway iterates and an agent a Worker is being provisioned for, and speaks of
  `COMPLETED` and `FAILED`: a result `SKIPPED` may be taken back.

`run_admission`: `OneRunPerFire`, `AdmittedWithinPolicy` (no step makes a run active beyond the policy; two resumptions
are exempt and named there), `RefusedOnlyWhenFull` (a run is refused, or cannot get its reservation's key, only when the places are
taken or when a reservation was left behind, by a crash or a release that threw, no longer ago than the time-out), `IntervalFiresAgain`.

`approval`: `ApprovedIsWhatIsProposed` (the node leaves by `approved` only after a decision about the
proposal it holds), `DecisionIsFinal`, `WaitingEnds` (exempt: a row that was settled and whose handoff
was lost to an exception, a crash or a late decision; a sibling that failed, in the same run and the same tick, is no reason to wait on).

`live_steering`: `CarriedOutOnce`, `CommandsEnd` (exempt: commands after one whose round failed, the finding
`abandoned_fallback`, and `Held`: a queued command at a boundary that does not target its actor, where the run waits for a user who need not come). `live_restart`: `CompletedWasCarriedOut`. A command may be carried out twice
when its statuses were lost, which is why `CarriedOutOnce` is stated without losses.

## 5. What is proved

`ActorLeaseProofs` proves, for any sets of targets and containers, any TTLs and any limit on integers
(the assumptions named in `LeaseRows` and `ActorLease`), that the lease store's type
invariant and its safety invariants hold, that a superseded token is dead for ever
(`SupersededTokens`), and that the store implements `FencedOwnership`
(`StoreFencesOwnership`).

The argument. None of the invariants is inductive alone. `IInv` adds what ties them
together: the lease's generation bounds every token granted so far, the current holder's
token is one of them, and a lease that does not exist has generation 0. Granting a generation
that is greater than all earlier ones is what makes tokens unique, so a Worker row, which carries
a granted token, is the only open one of its generation. The lemmas `CreatedRow` to
`DeletedRow` of `LeaseRowsProofs` say what each row operator does to a row; `SameEpochSteps` disposes at once of
the steps that keep the generation; `AcquireInv`, `DeleteInv`, `RegisterInv` and
`TransitionInv` are the others. The action property follows from `EpochStep` (a step keeps the
generation or increases it, and a generation that has been left does not come back), and the
refinement from `OwnershipInit` and `OwnershipStep`, step by step, on states that satisfy `IInv`.

`WorkerLifecycleProofs` proves, for any number of Workers, connections, restarts, failed removals and ticks, every safety property
the runs check of `WorkerLifecycle`: the type invariant, `RunningIsLeased`, `EndedRunHoldsNothing`, `DeletedStrandsNothing`,
`NoActiveOwnerRemoved` and `RenewedLeaseSurvivesReap`. The inductive invariant has a part for the lease (`LeaseInv`: the row
is one the table admits, was written no later than now, and is retired or deleted exactly when the run is done), one for
the rows and containers (`RowsInv`), and one for what the reaper remembers. `RowsInv` says that a Worker being provisioned has no row
and was never registered, that a registered Worker is released only when its container is gone, and that what
the reaper has listed still has a row, which has not become active again: this is why the reaper may start a removal without looking
at the lease. `ListedWasExpired` says that a lease of the version the reaper has listed is the listed one, so the compare and set on the
version releases only what was expired at the reaper's own time; it rests on `LeaseMoves`: each step leaves the lease alone,
gives it a greater version, or deletes it. None of this depends on the bounds.

`RunAdmissionProofs` proves, for any policy, any runs, events, times and number of crashes and failed releases, the type invariant,
`OneRunPerFire`, `AdmittedWithinPolicy` and `RefusedOnlyWhenFull`. The inductive invariant has three parts besides
the types. `FiresClaimed`: a fire that has its run has its delivery row, and the handler that is about to create it is
the first to do so. `RoomToCreate`: between the reservation and the creation the policy is not full, because the handler
runs alone and its own steps before `create` make nothing active. `ReservationsHaveOwners`: a reservation is the one the
handler under way took, or belongs to a run that was created and is superseded by it, or is no younger than the last time one was
left behind (`leftAt`); a refusal therefore counts either active runs or leftovers younger than the time-out. That every handler
which goes on without its reservation has released it, left it behind or had it superseded is `OwnersStep`.

`ApprovalProofs` proves, for any nodes, runs, ownership and bounds, the type invariant, `ApprovedIsWhatIsProposed` and
`DecisionIsFinal`. What ties the operator's decision to the node is the row: `ShownIsProposed` (the row of a node that
waits, or is about to, has the node's proposal) and `DecidedIsProposed` (a decision committed and not yet handed off is about
the proposal) make the invariant inductive.

`LiveSteeringProofs` proves, for any numbers of commands, rounds, turns, restarts and lost connections, and any choice of rounds whose boundaries target the actor, the
type invariant and `CompletedWasCarriedOut`. The evidence that a command was carried out is in the Worker, which the Manager sees only through
messages that may arrive after a restart or for an older turn, so the inductive invariant follows it along the way:
`TurnsRemember` (a turn that holds a command as applied or completed, or was opened to run it, has carried it out), and in
`ChannelsTyped` that each report under way to the Manager is `Truthful`: one that says `completed` names a command some turn
carried out. What turns carried out only grows (`RanGrows`), so a report that is late stays true (`ReportsStayTrue`).
`LeastNumber` (a set of numbers that is not empty has a least one) is what the order of the commands rests on.

`CarriedOutAtMostOnce` proves `CarriedOutOnce` as well. The property speaks of executions in which nothing was lost (`Lossless`),
and so does its invariant: it holds until the first fault. A command is carried out by the turn it was steered into or by the round
it fell back to, so the proof is about turns, each named by its round and generation. `OneOfEach`: a turn is at first a prompt under way, then
a turn of the Worker, at last a handoff or an error, and never two of these. `UpToDate`: those of the current name are there
only while the node is at work. `WhereDue`: a command that can still be sent or fall back is due at most in the current turn,
and one that was carried out is due nowhere. `Heard`: when a turn has carried out a command that the Manager may still send or let
fall back, the status that tells it so is ahead of the turn's end in the channel; so the boundary, which the end brings,
finds the command settled.

`DagRunProofs` proves, for every set of loaded graphs of any size (`GraphsAssumption`: the edges are between the nodes, which
`validateGraph` checks before a run exists), all limits and any number of rounds and restarts, the type invariant, `RestIsQuiet`,
`EndedIsFinal` and that a run implements `RunLife`. The inductive invariant adds to the types that the engine state is one for
the run's graph, and that no node of an active run waits for a command: this is why closing a round, which looks at all
other nodes, leaves nothing to do. The engine's part is `DagEngineProofs`: each exported operation returns an engine state
for the same graph. Its loops are recursive functions over the numbers of the nodes; the lemma `Recursion` states once, for
a step given as a function, that such a recursion keeps a set its step keeps, and the rest follows by naming
each loop's step. `TypedStep` shows for each action that it keeps the invariant, and that it stays in its round or opens the next
one from a waiting run; `EndedKept` and `WaitingMoves` say what happens to a run that has ended or waits, and the refinement
follows from the three.

What the engine's loops compute is proved too, as far as the run's properties need it:

* **No node is left pending** (`LoopsAndRootsStall`, and without its exceptions, for graphs in which no
  route leads to a node that comes after nothing, `LoopsStall`). The hypothesis `Ordered` says that the `after_dep` edges make no cycle; `validateGraph` rejects
  cycles before a run exists, except through feedback edges, so it is what the code gives but for feedback into a
  loop gateway. `ReconcileSettledReaches` says that `ReconcileSettled` reaches its fixed point: it leaves no pending node all of whose
  predecessors are settled. The invariant `FirstRoundLive` (checked by TLC on the graphs of `dag_run` before it was proved) is that
  each node that runs executes a prompt, that no pending node is stuck, and that an active run has something left to do; it is carried
  through each handler as membership of a set `Within` whose parameter names the nodes a half-finished step still owes.
* **A round leaves the others alone** (`RoundsAreScoped`). One agent outside the round that has a result is fixed, and each
  handler is shown to map the runs in which it holds that result (`Holding`) to such runs. A handler reaches only gateways, ready nodes
  and the node it is about; `RoundNodesGateways` shows that a round resets only gateways besides what it commands.
* **Dependencies come first** (`DependenciesComeFirst`). The invariant `OrderKept` says of each node concerned in the round that what
  satisfies it has passed, that it is ready or runs only when all it comes after satisfies it (a join of any: when all of them
  are over), and that a node whose prompt of this round is out runs, so that no second answer or failed provisioning
  settles it behind the back of its dependents. `Orderly` states this of an engine state relative to where the handler began (`b.started`,
  `b.busy`), because in the middle of a dispatch pass some prompts are sent and some nodes not yet reached; `TurnTaken`
  turns it into the invariant and the action property when the handler ends. A restart forgets what was executing, which is
  where the argument, and the property, stop.
* **A vote is heard** (`VotesAreHeard`). The invariant `VotesKept` says, until the Manager restarts, of a graph without loops: a join of any
  of its inputs that is skipped has heard all its voters (`Heard`: each is settled, and none that succeeded has voted), what
  satisfied a join has a result, and an await node, which never settles, votes for nothing. What could break it is that a voter is
  opened again after the join was skipped. A correction opens the node that failed and the nodes skipped after it, which are
  closed under skipped dependents (`SkippedFollow`), the join among them; a round resets with a node every gateway behind it
  (`RoundNodesClosed`); and an answer finds its node RUNNING, never settled, which `OrderKept` knows of (`AnsweredAsked`). `SkipStalled` alone
  skips nodes that were not heard, and what it skips ends the run (`SkipStalledEnds`). TLC checked the invariant before it was
  proved, on generated families of graphs of four nodes with joins that feed joins, which the run's own families do not have.

* **The limit on parallelism holds** (`LimitHolds`). In graphs without loops, until the Manager restarts, no more agents run or get
  a Worker than the limit allows. The number that `HasCapacity` compares leaves out a node that gets a Worker and is no longer
  READY, so what has to be shown is that no other handler takes such a node out of READY while the run is active, nor lets
  a node run without asking. The invariant `CrewKept` says it: the nodes that get a Worker are ready; a node that is ready or
  runs comes after settled nodes only, and so does a skipped one in the first round; and those that are pending are satisfied by settled nodes
  only (`Leading`). A correction then opens nobody that comes before a ready node, and an answer or a failure finds nobody
  behind it at work. `Routed` says that a route is also a dependency, which the compiler provides (`workflow-spec-v1.ts:1676-1695`).
  The theorem covers the first round whatever is corrected, and later rounds when `max_corrections_per_node` is 0, a value the
  schema admits (`workflow-spec-v1-schema.ts:729`): a round resets nodes and not all that comes before them, and TLC shows that a correction in a later
  round can then open a node a Worker is being provisioned for. That the limit is kept there too is checked on the run's graphs only.

Only model-checked: `ParallelismHolds` on graphs with loops, in corrected later rounds, and after a restart (it is false on
some graphs with loops beyond the families: `CrowdedLoop.cfg`, `TwiceFed.cfg`); and the liveness properties (`UnownedIsReclaimed`, `IntervalFiresAgain`, `WaitingEnds`, `CommandsEnd`), since liveness
under fairness is beyond the prover.

## 6. Where the code disagrees with itself

| Run | What TLC finds |
|---|---|
| `lost_removal` | A removal whose confirmation was lost is retried for ever when the Node's provider reports a missing container as an error. |
| `recovery_stall` | Recovery takes any value in a loop gateway's mailbox, the first prompt included, for live feedback: the gateway stays RUNNING and the run never ends. |
| `unadmitted_fallback` | After a restart a queued live command resumes its waiting run without a reservation, beside another run that has the only place. |
| `abandoned_fallback` | A live command whose fallback round failed stays queued with its id spent: no recovery can retry it, and it holds up every later command of the run. |

Each is described with the lines involved in `PROJECT.json`. Further counterexamples can be reproduced by hand with
`tlc -config <file> <module>`; their statements are definitions of the modules:

| Config, module | Statement | What TLC finds |
|---|---|---|
| `StaleReapTime.cfg`, `MCWorkerLifecycle` | `ReclaimsOnlyUnowned` | `now` is read once per reap; a lease renewed while the reap awaited a removal makes the release throw after the Worker's row was already failed, and the next reap removes the owner. |
| `StaleClose.cfg`, `MCWorkerLifecycle` | `ConnectedKeepsLease` | The late close of an old connection unregisters the Worker's new connection, and its lease goes. |
| `StuckProvisioning.cfg`, `MCWorkerLifecycle` | `ReadyIsDispatchable` | A send that fails right after provisioning leaves the tracker at `provisioning`; in the next round the node is READY and skipped. |
| `ReopenedJoin.cfg`, `MCDagRun` | `AnyJoinVotes` | A late answer re-opens a node that recovery failed, but not what its failure satisfied: an any-join is skipped with a vote cast. |
| `FailureVote.cfg`, `MCDagRun` | `AnyJoinVotes` | A join of any of its inputs that holds the vote of a failure port is made ready and skipped in the same call when the last other voter fails (`_skipDependentNodes`, `dag-engine.ts:241-262`), although such a join "must still execute its failed port when the available votes do not reach quorum" (`dag-engine.ts:145-146`). |
| `CrowdedLoop.cfg`, `MCDagRun` | `ParallelismHolds` | A loop's next iteration resets nodes a Worker is being provisioned for; they do not count while pending, others are dispatched, and three run where two may. The comment at `active-runs.ts:6417-6422` counts provisioning nodes so that this cannot happen. |
| `TwiceFed.cfg`, `MCDagRun` | `ParallelismHolds` | Feedback makes an agent ready again while its second prompt is out; the agents behind it take its place, and the answer to that prompt leaves it running as a loop source: three run where two may. |
| `StrandedRoot.cfg`, `MCDagRun` | `NothingElseStalls` | An iteration resets an agent in the loop's body that comes after nothing; a pending node is promoted only when a dependency settles (`dag-engine.ts:273`), so it is neither promoted nor skipped and the run stays active. |
| `LoopInRound.cfg`, `MCDagRun` | `ResultsRetained` | A `while` gateway between the commanded agent and its await node wakes an agent the round does not command. |
| `SkippedAside.cfg`, `MCDagRun` | `ResultsRetained` | A correction of the commanded agent opens an agent again that was skipped in round 1 and is outside the round; the comment at `dag-engine.ts:523-528` promises that such results stay. |
| `SkippedBefore.cfg`, `MCDagRun` | `DependenciesAlwaysFirst` | Such an agent keeps the satisfied dependencies of round 1 (`resetSkippedSuccessDescendants` clears its inputs only), and becomes ready in round 2 although another dependency has not run in it. |
| `LateDecision.cfg`, `MCApproval` | `ExpiredIsRejected` | `decideApproval` marks an overdue row itself and throws; the tick no longer finds the row, and its node waits for ever, although the tick is there to route it through the rejected port (`tests/dag-runtime-primitives.test.ts:717`). |
| `OvertakenCommand.cfg`, `MCLiveSteering` | `IntentOrder` | A command that had to fall back is overtaken by the next one, which finds the actor at work, although "reconnects and retries cannot reorder user intent" (`docs/architecture/dag-live-steering.md`). |
| `LostDelivery.cfg`, `MCLiveSteering` | `RecoveryResends` | A command that was delivered and not applied is given to no turn after a restart: recovery looks at queued rows only, although the same document promises "unapplied commands in sequence order". |

`WorkerTakeover.cfg` is `worker_reclaimed` with a second Worker that takes the lease over; it passes. `HeldCommand.cfg` is `live_steering` with one command over
three rounds, whose await node targets the actor at the first boundary, at the second, or at neither: a command held at one boundary is carried out
at most once and ends at a later one; it passes. Further hazards without
a property are in `PROJECT.json` with a note: the missing tick after a failed provisioning, the resumed actor whose
dependency failed, loops without a failure route.

## 7. Plan, and what is not modelled

Next, in this order:

1. Checkpoint resume and the failure of claimed commands (`persistence/dag-actors.ts`, `dag-actor-leases.ts`): a round that goes on
   from a checkpoint against the generation fence; composed with `ActorLease` for the two fences of an answer.
2. `DagRun`: fanout and broker gateways, and the limits on handoffs and dispatches.
3. `MessageRouter`, the credential mutation ledger, the plugin action bus.
4. Proofs: `ParallelismHolds` in later rounds with corrections, and for graphs whose loops reset no agent that is being provisioned.

Not modelled, and not planned: the workflow compiler (a pure translation of documents), the pull-request broker (calls to
git and GitHub without a protocol of their own), HTTP and voice servers, UI, CLI, memory retrieval and artifact storage
(input and output), the agents themselves. Most of the repository's lines are of these kinds. The reasons are with
the components in `PROJECT.json`.
