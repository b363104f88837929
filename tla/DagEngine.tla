----------------------------- MODULE DagEngine -----------------------------
(***************************************************************************)
(* The graph engine of orchestration/dag-engine.ts as operators on a graph *)
(* g and an engine state d, one per exported function.                     *)
(*                                                                         *)
(* Nodes are 1 .. g.size in YAML order.  g.after[n] are the after_dep      *)
(* edges into n; g.routes the explicit edges, each with a port of its own  *)
(* at the receiver, so that a mailbox holds data from m exactly when m is  *)
(* in d.input; g.fatal the nodes whose failure port ends the run.  The     *)
(* condition of a route is on_failure exactly when its port is a failure   *)
(* port, as the loader gives it.                                           *)
(***************************************************************************)
EXTENDS Naturals, FiniteSets, Sequences

FailurePort == "failed"
NodeStates  == {"PENDING", "READY", "RUNNING", "COMPLETED", "FAILED",
                "CANCELLED", "SKIPPED", "WAITING_FOR_COMMAND"}
Settled     == {"COMPLETED", "FAILED", "CANCELLED", "SKIPPED"}
Unavailable == {"FAILED", "CANCELLED", "SKIPPED"}

Nodes(g)         == 1 .. g.size
Gateway(g, n)    == g.kind[n] # "agent"
LoopGateway(g, n) == g.kind[n] = "while"
RoutesFrom(g, n) == {r \in g.routes : r.from = n}
RoutesTo(g, n)   == {r \in g.routes : r.to = n}
RouteSources(g, n) == {r.from : r \in RoutesTo(g, n)}
Predecessors(g, n) == g.after[n] \cup RouteSources(g, n)
Receivers(g, n, port) == {r.to : r \in {q \in RoutesFrom(g, n) : q.port = port}}

(* A graph that was loaded: it has a node, and edges are between its       *)
(* nodes.                                                                  *)
IsGraph(g) ==
    /\ g.size \in Nat \ {0}
    /\ g.after \in [Nodes(g) -> SUBSET Nodes(g)]
    /\ \A r \in g.routes : r.from \in Nodes(g) /\ r.to \in Nodes(g)

(* Step iterated until nothing changes: once per node is enough.           *)
Closure(g, S, Step(_)) ==
    LET grown[i \in 0 .. g.size] ==
          IF i = 0 THEN S ELSE LET T == grown[i - 1] IN Step(T)
    IN  grown[g.size]

(* Step applied to the nodes of S, in order.                               *)
ForEach(g, S, d, Step(_, _)) ==
    LET upTo[i \in 0 .. g.size] ==
          IF i = 0 THEN d
          ELSE LET e == upTo[i - 1] IN IF i \in S THEN Step(e, i) ELSE e
    IN  upTo[g.size]

Below(g, S) ==
    Closure(g, S, LAMBDA T: T \cup {n \in Nodes(g) : Predecessors(g, n) \cap T # {}})

Successors(g, n) == {m \in Nodes(g) : n \in Predecessors(g, m)}

(* Kahn's algorithm leaves exactly the nodes on or below a cycle, which    *)
(* then follow in YAML order; a route back in that order makes a loop      *)
(* source of its target.  A loop gateway is one when a source of its       *)
(* feedback waits for it.                                                  *)
LoopSources(g) ==
    LET cyclic == Below(g, {n \in Nodes(g) : n \in Below(g, Successors(g, n))})
    IN  {n \in Nodes(g) :
           IF LoopGateway(g, n)
           THEN \E m \in RouteSources(g, n) : n \in g.after[m]
           ELSE \E m \in RouteSources(g, n) : {m, n} \subseteq cyclic /\ m > n}

NewEngine(g) ==
    [state  |-> [n \in Nodes(g) |-> IF g.after[n] = {} THEN "READY" ELSE "PENDING"],
     handed |-> {},
     after  |-> [n \in Nodes(g) |-> {}],
     input  |-> [n \in Nodes(g) |-> {}],
     loops  |-> LoopSources(g)]

RunningLoop(d, n) == n \in d.loops /\ d.state[n] = "RUNNING"
Ready(d) == {n \in DOMAIN d.state : d.state[n] = "READY"}
SetState(d, S, s) == [d EXCEPT !.state = [n \in DOMAIN @ |-> IF n \in S THEN s ELSE @[n]]]

----------------------------------------------------------------------------
(* Promotion and skipping *)

(* after dependencies that also route something to n: their routed input   *)
(* is required, not only their completion.                                 *)
RequiredInputs(g, n) == g.after[n] \cap RouteSources(g, n)

(* Fault: a node is promoted on its inputs alone.                          *)
PromotableOnInputs(g, d, n) ==
    IF g.kind[n] = "join_any"
    THEN RequiredInputs(g, n) \cap d.input[n] # {}
    ELSE RequiredInputs(g, n) \subseteq d.input[n]

Promotable(g, d, n) ==
    IF g.kind[n] = "join_any"
    THEN /\ \A m \in g.after[n] : d.state[m] \in Settled
         /\ RequiredInputs(g, n) \cap d.input[n] # {}
    ELSE /\ g.after[n] \subseteq d.after[n]
         /\ RequiredInputs(g, n) \subseteq d.input[n]

TryPromote(g, d, n) ==
    IF d.state[n] = "PENDING" /\ Promotable(g, d, n)
    THEN [d EXCEPT !.state[n] = "READY"]
    ELSE d

PromoteAll(g, d, S) == ForEach(g, S, d, LAMBDA e, n: TryPromote(g, e, n))

(* Skip the nodes of S and, recursively, every open node they were the     *)
(* last available predecessor of.                                          *)
SkipWithDependents(g, d, S) ==
    LET gone(m, T) == m \in T \/ d.state[m] \in Unavailable
        open       == {n \in Nodes(g) : d.state[n] \in {"PENDING", "READY"}}
        grow(T)    == T \cup {n \in open : /\ Predecessors(g, n) \cap T # {}
                                           /\ \A m \in Predecessors(g, n) : gone(m, T)}
    IN  SetState(d, Closure(g, S, grow), "SKIPPED")

(* A failed node's plain dependents go, those it has a failure route to or *)
(* has routed something to stay.                                           *)
SkipDependentsOfFailed(g, d, f) ==
    LET plain(n) == /\ \/ f \in g.after[n]
                       \/ \E r \in RoutesTo(g, n) : r.from = f /\ r.port # FailurePort
                    /\ n \notin Receivers(g, f, FailurePort)
                    /\ f \notin d.input[n]
    IN  SkipWithDependents(g, d,
          {n \in Nodes(g) : /\ d.state[n] \in {"PENDING", "READY"}
                            /\ plain(n)
                            /\ \A m \in Predecessors(g, n) : d.state[m] \in Unavailable})

(* Fault: a branch is skipped although votes are missing.                  *)
SkipBranchOnAnyMiss(g, d, n) ==
    IF /\ d.state[n] = "PENDING"
       /\ \E m \in RequiredInputs(g, n) \ d.input[n] : d.state[m] \in Settled
    THEN SkipWithDependents(g, d, {n})
    ELSE d

SkipUntakenBranch(g, d, n) ==
    LET missing == RequiredInputs(g, n) \ d.input[n]
    IN  IF /\ d.state[n] = "PENDING"
           /\ g.after[n] \subseteq d.after[n]
           /\ missing # {}
           /\ \A m \in missing : ~RunningLoop(d, m)
        THEN SkipWithDependents(g, d, {n})
        ELSE d

Affect(g, d, S) ==
    ForEach(g, S, d, LAMBDA e, n: LET f == TryPromote(g, e, n)
                                  IN  SkipUntakenBranch(g, f, n))

(* Fault: what no dependent is told of stays pending.                      *)
KeepUnsettled(g, d) == d

(* A pending node whose after dependencies are all settled is promoted or  *)
(* skipped; without cascade, but until nothing changes.                    *)
ReconcileSettled(g, d) ==
    LET stuck(e) == {n \in Nodes(g) : /\ e.state[n] = "PENDING"
                                      /\ g.after[n] # {}
                                      /\ \A m \in g.after[n] : e.state[m] \in Settled}
        settle(e) == [e EXCEPT !.state =
                        [n \in Nodes(g) |-> IF n \notin stuck(e) THEN @[n]
                                            ELSE IF Promotable(g, e, n) THEN "READY"
                                            ELSE "SKIPPED"]]
    IN  Closure(g, d, settle)

(* The skipped nodes that were waiting for n to succeed, and the skipped   *)
(* nodes after them.                                                       *)
SkippedBy(g, d, n) ==
    LET skipped(S) == {m \in S : d.state[m] = "SKIPPED"}
        first == {m \in Nodes(g) : \/ n \in g.after[m]
                                   \/ \E r \in RoutesTo(g, m) : r.from = n /\ r.port # FailurePort}
    IN  Closure(g, skipped(first),
                LAMBDA S: S \cup skipped(UNION {Successors(g, m) : m \in S}))

(* resetSkippedSuccessDescendants: what was skipped because n did not      *)
(* succeed opens again when n is tried once more.                          *)
ReopenSkipped(g, d, n) ==
    LET open == SkippedBy(g, d, n)
    IN  [SetState(d, open, "PENDING") EXCEPT
           !.handed = @ \ open,
           !.input  = [m \in Nodes(g) |-> IF m \in open THEN {} ELSE @[m]]]

----------------------------------------------------------------------------
(* Loops *)

WakeLoopSource(g, d, n) ==
    IF RunningLoop(d, n)
    THEN [d EXCEPT !.state[n] = "READY", !.handed = @ \ {n}]
    ELSE d

(* Every node routed to from the entry without going through the loop      *)
(* gateway.                                                                *)
LoopBody(g, loop, entry) ==
    LET beyond(S) == {r.to : r \in {q \in g.routes : q.from \in S}} \ {loop}
    IN  Closure(g, beyond({entry}), LAMBDA S: S \cup beyond(S))

(* The nodes a route leads to from a loop gateway, directly or not, which  *)
(* are all that an iteration may start afresh.                             *)
Iterated(g) ==
    {n \in Nodes(g) :
       \A S \in SUBSET Nodes(g) :
          (\A r \in g.routes : LoopGateway(g, r.from) \/ r.from \in S => r.to \in S)
              => n \in S}

(* The body of the loop starts the next iteration afresh.                  *)
ResetLoopBody(g, d, loop, entry) ==
    LET body == LoopBody(g, loop, entry)
        direct(n) == \E r \in RoutesTo(g, n) : r.from = loop
    IN  [SetState(d, body, "PENDING") EXCEPT
           !.handed = @ \ body,
           !.after  = [n \in Nodes(g) |-> IF n \in body THEN @[n] \cap {loop} ELSE @[n]],
           !.input  = [n \in Nodes(g) |-> IF n \notin body THEN @[n]
                                          ELSE IF direct(n) THEN @[n] \cap {loop}
                                          ELSE {}]]

WakeLoopGatewayReceiver(g, d, f, n) ==
    IF ~LoopGateway(g, f) \/ d.state[n] \notin {"COMPLETED", "SKIPPED", "FAILED"}
    THEN d
    ELSE LET e == ResetLoopBody(g, d, f, n)
         IN  [e EXCEPT !.state[n] = "READY", !.handed = @ \ {n}]

(* The loop sources among the receivers of a failure, and the receivers of *)
(* a handoff, one after the other.                                         *)
WakeLoopSources(g, d, S) == ForEach(g, S, d, LAMBDA e, n: WakeLoopSource(g, e, n))
WakeReceivers(g, d, f, S) ==
    ForEach(g, S, d,
            LAMBDA e, n: WakeLoopGatewayReceiver(g, WakeLoopSource(g, e, n), f, n))

----------------------------------------------------------------------------
(* handoff, failNode, isRunTerminal, resetNodesForRound *)

Dependents(g, f) == {n \in Nodes(g) : f \in g.after[n]}

(* Fault: the receivers of a route are satisfied as dependents.            *)
DeliverToAll(d, f, deps, S) ==
    [d EXCEPT !.after = [n \in DOMAIN @ |-> IF n \in deps \cup S THEN @[n] \cup {f} ELSE @[n]],
              !.input = [n \in DOMAIN @ |-> IF n \in S THEN @[n] \cup {f} ELSE @[n]]]

Deliver(d, f, deps, S) ==
    [d EXCEPT !.after = [n \in DOMAIN @ |-> IF n \in deps THEN @[n] \cup {f} ELSE @[n]],
              !.input = [n \in DOMAIN @ |-> IF n \in S THEN @[n] \cup {f} ELSE @[n]]]

EndsRun(g, f, port) ==
    port = FailurePort /\ (f \in g.fatal \/ Receivers(g, f, port) = {})

(* A handoff that ends the run still routes, but satisfies no dependent.   *)
Handoff(g, d, f, port) ==
    LET to    == Receivers(g, f, port)
        ends  == EndsRun(g, f, port)
        deps  == IF ends THEN {} ELSE Dependents(g, f)
        sent  == [d EXCEPT !.handed = @ \cup {f},
                           !.state[f] = IF ends THEN "FAILED"
                                        ELSE IF f \in d.loops THEN "RUNNING"
                                        ELSE "COMPLETED"]
        woken == WakeReceivers(g, Affect(g, Deliver(sent, f, deps, to), deps \cup to), f, to)
    IN  ReconcileSettled(g, IF ends THEN SkipDependentsOfFailed(g, woken, f) ELSE woken)

FailNode(g, d, f) ==
    LET to    == Receivers(g, f, FailurePort)
        deps  == Dependents(g, f)
        failed == [d EXCEPT !.state[f] = "FAILED"]
        woken == WakeLoopSources(g, Affect(g, Deliver(failed, f, deps, to), deps \cup to), to)
    IN  ReconcileSettled(g, SkipDependentsOfFailed(g, woken, f))

IsRunTerminal(d) ==
    \A n \in DOMAIN d.state : d.state[n] \in Settled \/ RunningLoop(d, n)

(* carried[n] are the nodes outside the round whose last output is given   *)
(* to n again.                                                             *)
ResetForRound(g, d, S, carried) ==
    LET supplied(m) == m \notin S /\ m \in d.handed /\ d.state[m] \notin Unavailable
        e == [SetState(d, S, "PENDING") EXCEPT
                !.handed = @ \ S,
                !.after  = [n \in Nodes(g) |-> IF n \in S
                                               THEN {m \in g.after[n] : supplied(m)}
                                               ELSE @[n]],
                !.input  = [n \in Nodes(g) |-> IF n \in S THEN carried[n] ELSE @[n]]]
    IN  PromoteAll(g, e, S)
=============================================================================
