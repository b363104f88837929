------------------------------- MODULE DagRun -------------------------------
(***************************************************************************)
(* One run of runtime/active-runs.ts over the engine of DagEngine: the     *)
(* dispatch passes, the answers and errors of Workers, corrections,        *)
(* command boundaries and rounds, and recovery after the Manager restarts. *)
(*                                                                         *)
(* The Manager is single-threaded: a handler runs to completion.  Its      *)
(* effect is an operator from a run to a run, because the dispatch pass    *)
(* and the recovery chain several of them.  A handler that ends with       *)
(* GraphExecutor.tick sets passes to the passes that may follow it, and    *)
(* while passes remain nothing but the next pass or a crash can happen.    *)
(*                                                                         *)
(* What the Workers execute is the environment's: executing holds the      *)
(* prompts that were sent and not answered, each with its round.           *)
(***************************************************************************)
EXTENDS DagEngine

CONSTANTS
    Graphs,          \* the graphs considered
    MaxParallelism,  \* limits.max_parallelism
    MaxCorrections,  \* limits.max_corrections_per_node
    MaxTraversals,   \* max_retries of a feedback edge
    MaxIterations,   \* max_iterations of a while gateway
    MaxRounds,       \* bound: rounds of a run
    MaxRestarts      \* bound: restarts of the Manager

ASSUME LimitsAssumption == /\ MaxParallelism \in Nat \ {0}
                           /\ MaxCorrections \in Nat
                           /\ MaxTraversals \in Nat
                           /\ MaxIterations \in Nat \ {0}

ASSUME GraphsAssumption == \A g \in Graphs : IsGraph(g)

ASSUME BoundsAssumption == MaxRounds \in Nat \ {0} /\ MaxRestarts \in Nat

VARIABLES
    graph,
    run,            \* the ActiveRun, as persisted by every handler
    passes,         \* dispatch passes the handler being run may still make
    provisioning,   \* nodes a Worker is being provisioned for
    deferred,       \* nodes waiting for a target to connect
    executing,      \* prompts being executed
    workerless,     \* no Worker has registered since the restart
    restarts

vars == <<graph, run, passes, provisioning, deferred, executing, workerless, restarts>>
manager == <<provisioning, deferred, workerless>>

Backward(g) == {r \in g.routes : IF LoopGateway(g, r.to) THEN r.to \in g.after[r.from]
                                 ELSE r.from > r.to}

InitialCounters(g) == [corrections |-> [n \in Nodes(g) |-> 0],
                       iterations  |-> [n \in Nodes(g) |-> 0],
                       traversals  |-> [r \in Backward(g) |-> 0]]

(* seeded: nodes whose mailbox holds the run's prompt, a command or a      *)
(* correction; commands: nodes with a command not yet acknowledged.        *)
NewRun(g, seeded) ==
    [dag |-> NewEngine(g), status |-> "active", counters |-> InitialCounters(g),
     round |-> 1, history |-> {}, seeded |-> seeded, commands |-> {}]

Active(r) == r.status = "active"
Ended(r)  == r.status \in {"completed", "failed", "cancelled"}
In(r, S)  == {n \in DOMAIN r.dag.state : r.dag.state[n] \in S}
Tick(r)   == IF Active(r) THEN 2 * Cardinality(DOMAIN r.dag.state) ELSE 0

----------------------------------------------------------------------------
(* Ending a run *)

Abort(r, blamed) ==
    LET failed == SetState(r.dag, blamed, "FAILED")
        live   == In(r, {"READY", "RUNNING"}) \ blamed
    IN  IF ~Active(r) THEN r
        ELSE [r EXCEPT !.status = "failed",
                       !.dag = SetState(SetState(failed, live, "CANCELLED"),
                                        In(r, {"PENDING"}) \ blamed, "SKIPPED")]

(* Fault: the await node of a waiting run is left waiting.                 *)
CancelRunNotWaiting(r) ==
    [r EXCEPT !.status = "cancelled",
              !.dag = SetState(SetState(@, In(r, {"READY", "RUNNING"}), "CANCELLED"),
                               In(r, {"PENDING"}), "SKIPPED")]

CancelRun(r) ==
    [r EXCEPT !.status = "cancelled",
              !.dag = SetState(SetState(@, In(r, {"READY", "RUNNING", "WAITING_FOR_COMMAND"}),
                                        "CANCELLED"),
                               In(r, {"PENDING"}), "SKIPPED")]

CompleteRun(r) ==
    [r EXCEPT !.status = "completed",
              !.dag = SetState(@, In(r, {"WAITING_FOR_COMMAND"}), "COMPLETED")]

ExpireRun(r) ==
    [r EXCEPT !.status = "failed",
              !.dag = SetState(@, In(r, {"WAITING_FOR_COMMAND"}), "FAILED")]

(* _skipPendingNodesWhenFailureStalls *)
SkipStalled(r) ==
    IF In(r, {"FAILED"}) # {} /\ In(r, {"READY", "RUNNING", "WAITING_FOR_COMMAND"}) = {}
    THEN [r EXCEPT !.dag = SetState(@, In(r, {"PENDING"}), "SKIPPED")]
    ELSE r

AfterFailure(g, r, n) ==
    IF n \in g.fatal THEN Abort(r, {})
    ELSE IF IsRunTerminal(r.dag) THEN [r EXCEPT !.status = "failed"]
    ELSE r

(* Fault: the status of the run is not looked at.                          *)
FailAnyRun(g, r, n) ==
    AfterFailure(g, SkipStalled([r EXCEPT !.dag = FailNode(g, @, n)]), n)

FailActiveRun(g, r, n) ==
    IF Active(r)
    THEN AfterFailure(g, SkipStalled([r EXCEPT !.dag = FailNode(g, @, n)]), n)
    ELSE r

----------------------------------------------------------------------------
(* Handing off *)

(* The transaction of a handoff, and what follows its commit.              *)
CommitHandoff(g, r, n, port) ==
    [r EXCEPT !.dag = Handoff(g, @, n, port),
              !.history = @ \cup {<<n, port>>},
              !.commands = @ \ {n},
              !.counters.traversals =
                 [e \in DOMAIN @ |-> IF e.from = n /\ e.port = port THEN @[e] + 1 ELSE @[e]]]

Exhausted(r, n, port) ==
    \E e \in DOMAIN r.counters.traversals :
        e.from = n /\ e.port = port /\ r.counters.traversals[e] >= MaxTraversals

AfterHandoff(g, r, n, port) ==
    IF EndsRun(g, n, port) THEN Abort(r, {n})
    ELSE IF IsRunTerminal(r.dag) THEN CompleteRun(r)
    ELSE r

HandoffActiveRun(g, r, n, port) ==
    IF Exhausted(r, n, port) THEN Abort(r, {n})
    ELSE AfterHandoff(g, CommitHandoff(g, r, n, port), n, port)

(* requestNodeCorrection asks the node again, whatever its state.  Once    *)
(* its corrections are used up the node hands off by itself, or fails when *)
(* its success port has a contract.                                        *)
Correct(g, r, n) ==
    LET opened == ReopenSkipped(g, r.dag, n)
    IN  [r EXCEPT !.counters.corrections[n] = @ + 1,
                  !.seeded = @ \cup {n},
                  !.dag = [opened EXCEPT !.state[n] = "READY", !.handed = @ \ {n}]]

TryCorrect(g, r, n, contract) ==
    IF ~Active(r) THEN r
    ELSE IF r.counters.corrections[n] < MaxCorrections THEN Correct(g, r, n)
    ELSE IF contract \/ r.dag.state[n] \in Settled THEN FailActiveRun(g, r, n)
    ELSE HandoffActiveRun(g, r, n, "done")

----------------------------------------------------------------------------
(* The dispatch pass *)

Occupied(g, r, prov) ==
    {n \in Nodes(g) : /\ ~Gateway(g, n)
                      /\ \/ r.dag.state[n] = "RUNNING"
                         \/ r.dag.state[n] = "READY" /\ n \in prov}

(* Fault: the limit is off by one.                                         *)
HasCapacityOneMore(g, r, prov, n) ==
    LET active == Occupied(g, r, prov)
    IN  n \in active \/ Cardinality(active) <= MaxParallelism

HasCapacity(g, r, prov, n) ==
    LET active == Occupied(g, r, prov)
    IN  n \in active \/ Cardinality(active) < MaxParallelism

Quiescent(r, n) == \A m \in DOMAIN r.dag.state \ {n} : r.dag.state[m] \in Settled

(* Fault: the round closes while other nodes are at work.                  *)
CloseRoundEarly(r, n) ==
    [r EXCEPT !.status = "waiting", !.dag.state[n] = "WAITING_FOR_COMMAND"]

CloseRound(r, n) ==
    IF Quiescent(r, n)
    THEN [r EXCEPT !.status = "waiting", !.dag.state[n] = "WAITING_FOR_COMMAND"]
    ELSE r

(* A while gateway leaves the loop when its predicate matches or its       *)
(* iterations are used up.  A foreach gateway is one whose predicate is    *)
(* "no item left".                                                         *)
GatewayPort(g, r, n, passed) ==
    IF ~LoopGateway(g, n) THEN (IF passed THEN "done" ELSE FailurePort)
    ELSE IF passed THEN "done"
    ELSE IF r.counters.iterations[n] >= MaxIterations THEN "exhausted"
    ELSE "continue"

CountIteration(g, r, n, port) ==
    IF ~LoopGateway(g, n) THEN r
    ELSE IF port = "continue" THEN [r EXCEPT !.counters.iterations[n] = @ + 1]
    ELSE [r EXCEPT !.dag.loops = @ \ {n}]

(* handoffActiveRun throws for a settled source; the pass then fails it.   *)
LeaveGateway(g, r, n, port) ==
    IF r.dag.state[n] \in Settled THEN FailActiveRun(g, r, n)
    ELSE HandoffActiveRun(g, r, n, port)

ExecuteGateway(g, r, n, passed) ==
    LET port == GatewayPort(g, r, n, passed)
    IN  IF ~Active(r) THEN r
        ELSE IF g.kind[n] = "await" THEN CloseRound(r, n)
        ELSE LeaveGateway(g, CountIteration(g, r, n, port), n, port)

Outcomes(g, n) == IF Gateway(g, n) THEN {"passed", "not passed"}
                  ELSE {"sent", "provisioning", "deferred", "failed"}

Send(r, n)   == [r EXCEPT !.dag.state[n] = "RUNNING"]
Prompt(r, n) == [node |-> n, round |-> r.round]

(* One node of the list of ready nodes taken at the start of the pass.  p  *)
(* is the pass so far.                                                     *)
DispatchAgent(g, p, n, outcome) ==
    LET waits == [p EXCEPT !.wait = @ \cup {n}]
        left  == [p EXCEPT !.wait = @ \ {n}]
        fails == ~Active(p.run) \/ p.run.dag.state[n] # "READY"
    IN  IF ~HasCapacity(g, p.run, p.prov, n) THEN p
        ELSE IF fails THEN [p EXCEPT !.run = FailActiveRun(g, @, n)]
        ELSE IF n \in p.prov THEN left
        ELSE CASE outcome = "sent" -> [left EXCEPT !.run = Send(@, n),
                                                   !.sent = @ \cup {Prompt(p.run, n)}]
               [] outcome = "provisioning" -> [left EXCEPT !.prov = @ \cup {n}]
               [] outcome = "deferred" -> waits
               [] outcome = "failed" -> [left EXCEPT !.run = FailActiveRun(g, @, n)]

DispatchNode(g, p, n, outcome) ==
    IF Gateway(g, n)
    THEN LET r == ExecuteGateway(g, p.run, n, outcome = "passed")
         IN  [p EXCEPT !.run = r, !.done = ~Active(r)]
    ELSE DispatchAgent(g, p, n, outcome)

(* The pass ends when a gateway ended or suspended the run; another one    *)
(* follows while a pass changes something.                                 *)
DispatchPass(g, outcome) ==
    ForEach(g, Ready(run.dag),
            [run |-> run, prov |-> provisioning, wait |-> deferred,
             sent |-> executing, done |-> FALSE],
            LAMBDA p, n: IF p.done THEN p ELSE DispatchNode(g, p, n, outcome[n]))

DispatchReadyNodes ==
    /\ passes > 0
    /\ \E outcome \in [Ready(run.dag) ->
                         {"sent", "provisioning", "deferred", "failed", "passed", "not passed"}] :
         /\ \A n \in Ready(run.dag) : outcome[n] \in Outcomes(graph, n)
         /\ \E pass \in {DispatchPass(graph, outcome)} :
              /\ run' = pass.run
              /\ provisioning' = pass.prov
              /\ deferred' = pass.wait
              /\ executing' = pass.sent
              /\ passes' = IF Active(pass.run) /\ pass.run # run THEN passes - 1 ELSE 0
    /\ UNCHANGED <<graph, workerless, restarts>>

----------------------------------------------------------------------------
(* What completes a dispatch later.  Only some of these handlers end with  *)
(* a tick.                                                                 *)

Idle == passes = 0

(* The Worker asked for registered in time; it may lack what the node      *)
(* requires.                                                               *)
Provisioned(n) ==
    /\ Idle
    /\ n \in provisioning
    /\ provisioning' = provisioning \ {n}
    /\ IF Active(run) /\ run.dag.state[n] = "READY"
       THEN \/ /\ run' = Send(run, n)
               /\ executing' = executing \cup {Prompt(run, n)}
               /\ UNCHANGED deferred
            \/ /\ deferred' = deferred \cup {n}
               /\ UNCHANGED <<run, executing>>
       ELSE /\ run' = FailActiveRun(graph, run, n)
            /\ UNCHANGED <<deferred, executing>>
    /\ UNCHANGED <<graph, passes, workerless, restarts>>

ProvisioningFails(n) ==
    /\ Idle
    /\ n \in provisioning
    /\ provisioning' = provisioning \ {n}
    /\ run' = FailActiveRun(graph, run, n)
    /\ UNCHANGED <<graph, passes, deferred, executing, workerless, restarts>>

(* The retry timer, when the connected targets changed: one pass.          *)
RetryDeferred ==
    /\ Idle
    /\ deferred # {}
    /\ deferred' = {}
    /\ passes' = IF Active(run) /\ deferred \cap Ready(run.dag) # {} THEN 1 ELSE 0
    /\ UNCHANGED <<graph, run, provisioning, executing, workerless, restarts>>

FirstWorkerRegisters ==
    /\ Idle
    /\ workerless
    /\ workerless' = FALSE
    /\ passes' = Tick(run)
    /\ UNCHANGED <<graph, run, provisioning, deferred, executing, restarts>>

(* onActiveWorkerDisconnected of the lease reaper: the Worker of a running *)
(* node is gone.                                                           *)
WorkerLost(n) ==
    /\ Idle
    /\ Active(run)
    /\ run.dag.state[n] = "RUNNING" /\ ~Gateway(graph, n)
    /\ run' = FailActiveRun(graph, run, n)
    /\ passes' = Tick(run')
    /\ executing' = {e \in executing : e.node # n}
    /\ UNCHANGED <<graph, provisioning, deferred, workerless, restarts>>

----------------------------------------------------------------------------
(* Answers *)

(* assessDagTransportFence, without the lease.                             *)
Current(r, e) == /\ Active(r)
                 /\ e.round = r.round
                 /\ r.round > 1 => e.node \in r.commands
                 /\ e.node \notin r.dag.handed

(* An answer a settled node gives, or one that would exceed a retry limit, *)
(* is a rejected handoff like a malformed one.                             *)
Applied(g, r, n, port, contract) ==
    IF r.dag.state[n] \in Settled \/ port = "rejected" THEN TryCorrect(g, r, n, contract)
    ELSE HandoffActiveRun(g, r, n, port)

(* "response", or "node_error" as a rejected handoff                       *)
Answer(e, port, contract) ==
    /\ Idle
    /\ e \in executing
    /\ executing' = executing \ {e}
    /\ run' = IF Current(run, e) THEN Applied(graph, run, e.node, port, contract) ELSE run
    /\ passes' = IF Current(run, e) THEN Tick(run') ELSE 0
    /\ UNCHANGED <<graph, manager, restarts>>

Cancel ==
    /\ Idle
    /\ run.status \in {"active", "waiting"}
    /\ run' = CancelRun(run)
    /\ UNCHANGED <<graph, passes, manager, executing, restarts>>

----------------------------------------------------------------------------
(* Rounds *)

Complete ==
    /\ Idle
    /\ run.status = "waiting"
    /\ run' = CompleteRun(run)
    /\ UNCHANGED <<graph, passes, manager, executing, restarts>>

Expire ==
    /\ Idle
    /\ run.status = "waiting"
    /\ run' = ExpireRun(run)
    /\ UNCHANGED <<graph, passes, manager, executing, restarts>>

(* Fault: every node after a commanded actor is reset.                     *)
RoundNodesDownstream(g, r, S) == Below(g, S)

(* The await node and the gateways between it and the commanded actors     *)
(* open again with them.                                                   *)
RoundNodes(g, r, S) ==
    LET waits == In(r, {"WAITING_FOR_COMMAND"})
        next(T) == {n \in Nodes(g) : Gateway(g, n) /\ Predecessors(g, n) \cap (T \ waits) # {}}
    IN  Closure(g, S, LAMBDA T: T \cup next(T))

Reaches(g, r, n) == RoundNodes(g, r, {n}) \cap In(r, {"WAITING_FOR_COMMAND"}) # {}

Carried(g, r, S, n) ==
    {e.from : e \in {q \in RoutesTo(g, n) : q.from \notin S /\ <<q.from, q.port>> \in r.history}}

Resume(S) ==
    LET nodes == RoundNodes(graph, run, S)
    IN  /\ Idle
        /\ run.status = "waiting"
        /\ run.round < MaxRounds
        /\ \A n \in S : ~Gateway(graph, n) /\ Reaches(graph, run, n)
        /\ run' = [run EXCEPT !.status = "active",
                              !.round = @ + 1,
                              !.counters = InitialCounters(graph),
                              !.seeded = @ \cup S,
                              !.commands = S,
                              !.dag = ResetForRound(graph, @, nodes,
                                        [n \in Nodes(graph) |-> Carried(graph, run, nodes, n)])]
        /\ passes' = Tick(run')
        /\ UNCHANGED <<graph, manager, executing, restarts>>

----------------------------------------------------------------------------
(* Recovery *)

(* _loopSourceHasLiveFeedbackPath: data in its mailbox, or a feedback      *)
(* source that can still produce some.                                     *)
HasData(r, n) == r.dag.input[n] # {} \/ n \in r.seeded

LiveSources(g, r) ==
    LET surely == {n \in Nodes(g) :
                     \/ r.dag.state[n] \in {"READY", "WAITING_FOR_COMMAND"}
                     \/ r.dag.state[n] = "RUNNING" /\ n \notin r.dag.loops
                     \/ RunningLoop(r.dag, n) /\ HasData(r, n)}
        maybe(n, S) == \/ r.dag.state[n] = "PENDING" /\ Predecessors(g, n) \cap S # {}
                       \/ RunningLoop(r.dag, n) /\ RouteSources(g, n) \cap S # {}
    IN  Closure(g, surely, LAMBDA S: S \cup {n \in Nodes(g) : maybe(n, S)})

FailAll(g, r, S) ==
    ForEach(g, S, r, LAMBDA s, n: [s EXCEPT !.dag = FailNode(g, @, n)])

ReconcileFailed(g, r) ==
    ForEach(g, In(r, {"FAILED"}), r,
            LAMBDA s, n: [s EXCEPT !.dag = SkipDependentsOfFailed(g, @, n)])

(* Running nodes are lost with the Manager, except loop sources, which     *)
(* rest RUNNING between two iterations, unless nothing can wake them.      *)
Recover(g, r) ==
    LET lost     == ReconcileFailed(g, FailAll(g, r, In(r, {"RUNNING"}) \ r.dag.loops))
        stranded == {n \in Nodes(g) : RunningLoop(lost.dag, n) /\ n \notin LiveSources(g, lost)}
        settled  == SkipStalled(ReconcileFailed(g, FailAll(g, lost, stranded)))
        last     == [settled EXCEPT !.dag = ReconcileSettled(g, @)]
    IN  IF ~Active(r) THEN r
        ELSE IF In(settled, {"FAILED"}) # {} /\ IsRunTerminal(settled.dag)
        THEN [settled EXCEPT !.status = "failed"]
        ELSE IF IsRunTerminal(last.dag) THEN CompleteRun(last)
        ELSE last

(* The Workers of the old process may survive and answer, or not.          *)
Restart(r) ==
    /\ restarts < MaxRestarts
    /\ restarts' = restarts + 1
    /\ run' = Recover(graph, r)
    /\ passes' = 0
    /\ provisioning' = {}
    /\ deferred' = {}
    /\ workerless' = TRUE
    /\ \E kept \in SUBSET executing : executing' = kept
    /\ UNCHANGED graph

Crash == ~Ended(run) /\ Restart(run)

(* The Manager stops between the transaction of a handoff and the one that *)
(* ends the run.                                                           *)
CrashAfterHandoff(e, port) ==
    /\ Idle
    /\ e \in executing
    /\ Current(run, e)
    /\ run.dag.state[e.node] \notin Settled
    /\ ~Exhausted(run, e.node, port)
    /\ Restart(CommitHandoff(graph, run, e.node, port))

----------------------------------------------------------------------------
Init ==
    /\ graph \in Graphs
    /\ \E seeded \in {{}, Ready(NewEngine(graph))} : run = NewRun(graph, seeded)
    /\ passes = Tick(run)
    /\ provisioning = {}
    /\ deferred = {}
    /\ executing = {}
    /\ workerless = FALSE
    /\ restarts = 0

Next ==
    \/ DispatchReadyNodes
    \/ \E n \in provisioning : Provisioned(n) \/ ProvisioningFails(n)
    \/ RetryDeferred
    \/ FirstWorkerRegisters
    \/ \E n \in Nodes(graph) : WorkerLost(n)
    \/ \E e \in executing, port \in {"done", FailurePort, "rejected"}, contract \in BOOLEAN :
          Answer(e, port, contract)
    \/ Cancel
    \/ Complete
    \/ Expire
    \/ \E S \in SUBSET Nodes(graph) : S # {} /\ Resume(S)
    \/ Crash
    \/ \E e \in executing, port \in {"done", FailurePort} : CrashAfterHandoff(e, port)

Spec == Init /\ [][Next]_vars

----------------------------------------------------------------------------
(* Correctness *)

RunStates == {"active", "waiting", "completed", "failed", "cancelled"}

(* Types: a node is only ever satisfied by its own dependencies and        *)
(* routes, waits for a command only as an await node, and only agents are  *)
(* dispatched to Workers.                                                  *)
TypeOK ==
    LET nodes  == Nodes(graph)
        agents == {n \in nodes : ~Gateway(graph, n)}
    IN  /\ graph \in Graphs
        /\ run.status \in RunStates
        /\ run.round \in 1 .. MaxRounds
        /\ run.dag.state \in [nodes -> NodeStates]
        /\ run.dag.handed \cup run.dag.loops \subseteq nodes
        /\ \A n \in nodes : /\ run.dag.after[n] \subseteq graph.after[n]
                            /\ run.dag.input[n] \subseteq RouteSources(graph, n)
                            /\ run.counters.corrections[n] \in 0 .. MaxCorrections
                            /\ run.counters.iterations[n] \in 0 .. MaxIterations
        /\ \A n \in In(run, {"WAITING_FOR_COMMAND"}) : graph.kind[n] = "await"
        /\ passes \in 0 .. 2 * graph.size
        /\ provisioning \cup deferred \cup run.commands \subseteq agents
        /\ executing \subseteq [node : agents, round : 1 .. MaxRounds]
        /\ workerless \in BOOLEAN
        /\ restarts \in 0 .. MaxRestarts

(* No more agents are running or have a Worker provisioned for them than   *)
(* max_parallelism allows, although Workers come up asynchronously, loop   *)
(* sources are woken and failed nodes are asked again between two checks   *)
(* of the limit.  The graphs say for which loops: one that resets agents   *)
(* while they get Workers passes the limit (LoopFan of MCDagRun).          *)
ParallelismHolds ==
    Cardinality({n \in Nodes(graph) :
        /\ ~Gateway(graph, n)
        /\ \/ run.dag.state[n] = "RUNNING"
           \/ run.dag.state[n] = "READY" /\ n \in provisioning}) <= MaxParallelism

(* A run that ended has nothing left to run but loop sources at rest, and  *)
(* a run waits for a command only when everything but its await node is    *)
(* settled.                                                                *)
RestIsQuiet ==
    /\ Ended(run) => \A n \in Nodes(graph) : \/ run.dag.state[n] \in Settled
                                            \/ RunningLoop(run.dag, n)
    /\ run.status = "waiting" => \E n \in Nodes(graph) :
          run.dag.state[n] = "WAITING_FOR_COMMAND" /\ Quiescent(run, n)

(* Whatever arrives after the run ended - a Worker that comes up, a late   *)
(* answer or error, a cancellation, a restart - changes it no more.        *)
EndedIsFinal == [][Ended(run) => run' = run]_vars

(* A run is what RunLife promises: it ends or waits only with nothing left *)
(* to do, no late answer, restart or Worker makes an ended or a waiting    *)
(* run active again, and only a command opens a round, which has work.     *)
Life == INSTANCE RunLife WITH
            status <- run.status,
            round  <- run.round,
            work   <- {n \in Nodes(graph) :
                         /\ run.dag.state[n] \notin Settled
                         /\ ~RunningLoop(run.dag, n)
                         /\ ~(run.status = "waiting" /\ run.dag.state[n] = "WAITING_FOR_COMMAND")}

ImplementsRunLife == Life!Spec

(* A node becomes ready only when every node it comes after has settled,   *)
(* or may run again as a loop source, in whatever order answers, errors    *)
(* and corrections come.  In a later round this is said of the actors it   *)
(* commands.  What a loop gateway starts afresh is the exception on both   *)
(* sides of the edge, and so is a failed node that a late answer opens     *)
(* again after a restart: what its failure let pass is not taken back.     *)
DependenciesFirst ==
    [][\A n \in Nodes(graph) :
         /\ restarts' = 0
         /\ run'.round = 1 \/ n \in run.commands
         /\ run.dag.state[n] = "PENDING" /\ run'.dag.state[n] = "READY"
         => \/ \A m \in graph.after[n] : \/ run'.dag.state[m] \in Settled
                                        \/ m \in run'.dag.loops
                                        \/ m \in Iterated(graph)
            \/ n \in Iterated(graph)]_vars

(* The same of every agent in every round.                                 *)
DependenciesAlwaysFirst ==
    [][\A n \in Nodes(graph) :
         /\ restarts' = 0
         /\ run.dag.state[n] = "PENDING" /\ run'.dag.state[n] = "READY"
         => \/ \A m \in graph.after[n] : \/ run'.dag.state[m] \in Settled
                                        \/ m \in run'.dag.handed \cup run'.dag.loops
                                        \/ m \in Iterated(graph)
            \/ n \in Iterated(graph)]_vars

(* A join of any of its inputs is not skipped when all it waits for has    *)
(* settled and a vote was cast.                                            *)
AnyJoinVotes ==
    \A n \in Nodes(graph) :
        /\ run.status \in {"active", "waiting", "completed"}
        /\ graph.kind[n] = "join_any"
        /\ \A m \in graph.after[n] : run.dag.state[m] \in Settled
        /\ graph.after[n] \cap run.dag.input[n] # {}
        => run.dag.state[n] # "SKIPPED"

Loopless(g) == LoopSources(g) = {} /\ \A n \in Nodes(g) : ~LoopGateway(g, n)

(* No node that succeeded has voted for a join of any of its inputs that   *)
(* is skipped: neither the failure of another voter nor a branch not taken *)
(* outweighs the vote, in whatever order they come.  With loops a voter    *)
(* may still be at rest when the others have handed off, and after a       *)
(* restart a late answer may cast the vote of a node that had failed.      *)
SuccessVotes ==
    \A n \in Nodes(graph) :
        /\ run.status \in {"active", "waiting", "completed"}
        /\ graph.kind[n] = "join_any"
        /\ run.dag.state[n] = "SKIPPED"
        /\ \E m \in graph.after[n] \cap run.dag.input[n] : run.dag.state[m] = "COMPLETED"
        => restarts > 0 \/ ~Loopless(graph)

(* Something will call the Manager for this run again: a pass, a first     *)
(* Worker, a Worker coming up, the retry timer, or an answer.              *)
UnderWay == \/ passes > 0
            \/ workerless
            \/ provisioning \cup deferred # {}
            \/ \E e \in executing : Current(run, e)

(* Nodes that come after nothing and wait all the same: an iteration of a  *)
(* loop gateway has reset them.                                            *)
PendingRoots == {n \in In(run, {"PENDING"}) : graph.after[n] = {}}

(* An active run in its first round that nothing will move any more and    *)
(* that has no ready node is one with a loop source at rest: failures,     *)
(* skipped branches, corrections and restarts never leave another graph    *)
(* pending for ever, unless a pending node comes after nothing.            *)
OnlyLoopsStall ==
    /\ Active(run) /\ run.round = 1
    /\ ~UnderWay /\ Ready(run.dag) = {} /\ PendingRoots = {}
    => \E n \in Nodes(graph) : RunningLoop(run.dag, n)

(* The same without the exception.                                         *)
NothingElseStalls ==
    Active(run) /\ run.round = 1 /\ ~UnderWay /\ Ready(run.dag) = {} =>
        \E n \in Nodes(graph) : RunningLoop(run.dag, n)

(* A loop that lost its way back ends with the recovery: an active run     *)
(* that was restarted, that nothing will move and that has no ready node   *)
(* has an agent running, whose Worker the lease reaper will miss.          *)
RecoveredLoopEnds ==
    Active(run) /\ restarts > 0 /\ ~UnderWay /\ Ready(run.dag) = {} =>
        \E n \in In(run, {"RUNNING"}) : ~Gateway(graph, n)

(* A round is scoped to the actors it commands: every other agent keeps    *)
(* the result it had, when the round opens and through all that follows,   *)
(* late answers, corrections, lost Workers and restarts included.  What a  *)
(* loop gateway iterates is the exception, and an agent a Worker is still  *)
(* being provisioned for.                                                  *)
RoundScoped ==
    [][\A n \in Nodes(graph) :
         /\ run'.round > 1
         /\ ~Gateway(graph, n)
         /\ n \notin run.commands \cup run'.commands
         /\ run.dag.state[n] \in {"COMPLETED", "FAILED"}
         /\ run'.dag.state[n] # run.dag.state[n]
         => n \in Iterated(graph) \cup provisioning]_vars

(* The same for every result, that a node was skipped included, and        *)
(* without exceptions.                                                     *)
ResultsRetained ==
    [][\A n \in Nodes(graph) :
         /\ run'.round > 1
         /\ ~Gateway(graph, n)
         /\ n \notin run.commands \cup run'.commands
         /\ run.dag.state[n] \in Settled
         => run'.dag.state[n] = run.dag.state[n]]_vars
=============================================================================
