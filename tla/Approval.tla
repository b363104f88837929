------------------------------ MODULE Approval ------------------------------
(***************************************************************************)
(* Approval nodes: the rows of dag_approvals, the decisions of operators   *)
(* and the expiry of the scheduler's tick, against the loops, failures and *)
(* restarts of the runs the nodes belong to.                               *)
(*                                                                         *)
(* The row and the node are written by different transactions of one       *)
(* handler: handler holds what a handler has committed and not yet         *)
(* followed up.  A handler is synchronous, so only a crash or an exception *)
(* comes between its transactions; a crash empties the Manager's memory    *)
(* and the runs are restored from their rows.                              *)
(*                                                                         *)
(* A proposal is a number, its hash the number itself: whenever a node is  *)
(* entered again it holds the next proposal, and a decision may carry the  *)
(* hash of any proposal that was shown.  Left out: who may decide, the     *)
(* payloads of the ports, and the rest of the graph, which may start the   *)
(* node over (a loop, a new round) or end the run at any time.             *)
(***************************************************************************)
EXTENDS Integers

CONSTANTS
    Nodes,         \* approval nodes
    Runs,          \* the runs they belong to
    Ownerships,    \* the ways nodes belong to runs
    ExpiresAfter,  \* expires_after_ms
    MaxProposals,  \* bound: times a node is entered
    MaxNow,        \* bound: the time the model ends
    MaxCrashes     \* bound: restarts of the Manager

ASSUME BoundsAssumption == /\ Ownerships \subseteq [Nodes -> Runs]
                           /\ ExpiresAfter \in Nat
                           /\ MaxProposals \in Nat
                           /\ MaxNow \in Nat
                           /\ MaxCrashes \in Nat

VARIABLES
    now,
    runOf,      \* the run of every node
    active,     \* runs whose status is active
    loaded,     \* runs in the Manager's memory
    node,       \* states of the nodes
    proposal,   \* the proposal a node holds
    rows,       \* rows of dag_approvals
    handler,    \* the handler under way
    crashes,
    signed,     \* history: the proposal the last accepted decision was about
    unanswered  \* history: nodes whose row was settled and not followed up

vars == <<now, runOf, active, loaded, node, proposal, rows, handler, crashes,
          signed, unanswered>>

Decided    == {"approved", "rejected"}
NodeStates == {"pending", "ready", "waiting", "closed"} \cup Decided
RowStates  == {"none", "waiting", "expired"} \cup Decided

Idle  == [step |-> "idle", nodes |-> {}]
Owner(n) == runOf[n]
Runnable(n) == Owner(n) \in active /\ Owner(n) \in loaded
Waiting(n)  == Runnable(n) /\ node[n] = "waiting"

Init == /\ now = 0
        /\ runOf \in Ownerships
        /\ active = Runs
        /\ loaded = Runs
        /\ node = [n \in Nodes |-> "pending"]
        /\ proposal = [n \in Nodes |-> 0]
        /\ rows = [n \in Nodes |-> [status |-> "none", hash |-> 0, expires |-> 0]]
        /\ handler = Idle
        /\ crashes = 0
        /\ signed = [n \in Nodes |-> 0]
        /\ unanswered = {}

-----------------------------------------------------------------------------
Closed(S) == node' = [n \in Nodes |-> IF n \in S THEN "closed" ELSE node[n]]

(* failActiveRun: the node fails.  Either the run goes on, without the     *)
(* pending nodes that depended on it, or it fails with the node: its       *)
(* failure route is fatal, or nothing else is left to do.  A sibling that  *)
(* waits keeps its state in both cases.                                    *)
Siblings(n) == {m \in Nodes \ {n} : Owner(m) = Owner(n)}

FailNode(n) ==
    \/ /\ \E skipped \in SUBSET {m \in Siblings(n) : node[m] = "pending"} :
             Closed({n} \cup skipped)
       /\ UNCHANGED active
    \/ /\ Closed({n} \cup {m \in Siblings(n) : node[m] \in {"pending", "ready"}})
       /\ active' = active \ {Owner(n)}

(* cancelActiveRun, or the rest of the graph, ends the run: the nodes that *)
(* have not ended are closed, their rows stay as they are.                 *)
EndRun(r) ==
    /\ handler = Idle
    /\ r \in active \cap loaded
    /\ active' = active \ {r}
    /\ Closed({n \in Nodes : Owner(n) = r /\ node[n] \notin Decided})
    /\ UNCHANGED <<now, runOf, loaded, proposal, rows, handler, crashes, signed, unanswered>>

(* An input arrives at a node.                                             *)
Arrive(n) ==
    /\ handler = Idle
    /\ Runnable(n)
    /\ node[n] = "pending"
    /\ proposal[n] < MaxProposals
    /\ proposal' = [proposal EXCEPT ![n] = @ + 1]
    /\ node' = [node EXCEPT ![n] = "ready"]
    /\ UNCHANGED <<now, runOf, active, loaded, rows, handler, crashes, signed, unanswered>>

(* _resetLoopBodyDescendants or resetNodesForRound: the node starts over,  *)
(* whatever it was doing or had ended as.                                  *)
StartOver(n) ==
    /\ handler = Idle
    /\ Runnable(n)
    /\ node[n] # "pending"
    /\ node' = [node EXCEPT ![n] = "pending"]
    /\ UNCHANGED <<now, runOf, active, loaded, proposal, rows, handler, crashes,
                   signed, unanswered>>

-----------------------------------------------------------------------------
(* createPendingApproval                                                   *)

(* Fault: a new proposal replaces a rejection. *)
ApprovedOnly(n) == rows[n].status = "approved"

Immutable(n) == rows[n].status \in Decided

(* Fault: the time to expire is added twice. *)
LateRow(n) == [status |-> "waiting", hash |-> proposal[n],
               expires |-> now + ExpiresAfter + ExpiresAfter]

PendingRow(n) == [status |-> "waiting", hash |-> proposal[n], expires |-> now + ExpiresAfter]

(* The dispatch pass reaches the node: the row is written, or an exception *)
(* fails the node, which the decision an immutable row holds does always   *)
(* and the store may.  As a bound, no approval outlives the model.         *)
Start(n) ==
    /\ handler = Idle
    /\ Runnable(n)
    /\ node[n] = "ready"
    /\ \/ /\ FailNode(n)
          /\ UNCHANGED <<rows, handler, unanswered>>
       \/ /\ ~Immutable(n)
          /\ now + ExpiresAfter <= MaxNow
          /\ rows' = [rows EXCEPT ![n] = PendingRow(n)]
          /\ handler' = [step |-> "started", nodes |-> {n}]
          /\ unanswered' = unanswered \ {n}
          /\ UNCHANGED <<active, node>>
    /\ UNCHANGED <<now, runOf, loaded, proposal, crashes, signed>>

(* writeRunMetadata at the end of _startApproval, which may throw as well. *)
AwaitDecision ==
    /\ handler.step = "started"
    /\ \/ /\ node' = [n \in Nodes |-> IF n \in handler.nodes THEN "waiting" ELSE node[n]]
          /\ UNCHANGED active
       \/ \E n \in handler.nodes : FailNode(n)
    /\ handler' = Idle
    /\ UNCHANGED <<now, runOf, loaded, proposal, rows, crashes, signed, unanswered>>

-----------------------------------------------------------------------------
(* decideActiveRunApproval                                                 *)

Due(n) == rows[n].status = "waiting" /\ rows[n].expires <= now

(* Fault: the state of the node is not looked at. *)
AnyRunnable(n) == Runnable(n)

MayDecide(n) == Waiting(n)

(* decideApproval finds the row overdue: it is marked, the caller gets an  *)
(* error, and nobody hands the node off.                                   *)
DecideLate(n) ==
    /\ handler = Idle
    /\ MayDecide(n)
    /\ Due(n)
    /\ rows' = [rows EXCEPT ![n].status = "expired"]
    /\ unanswered' = unanswered \cup {n}
    /\ UNCHANGED <<now, runOf, active, loaded, node, proposal, handler, crashes, signed>>

Decide(n, decision, hash) ==
    /\ handler = Idle
    /\ MayDecide(n)
    /\ rows[n].status = "waiting" /\ ~Due(n)
    /\ rows[n].hash = hash
    /\ rows' = [rows EXCEPT ![n].status = decision]
    /\ signed' = [signed EXCEPT ![n] = hash]
    /\ handler' = [step |-> decision, nodes |-> {n}]
    /\ UNCHANGED <<now, runOf, active, loaded, node, proposal, crashes, unanswered>>

(* The handoff on the port of the decision, or an exception of it.         *)
HandOffDecision ==
    /\ handler.step \in Decided
    /\ \/ /\ node' = [n \in Nodes |-> IF n \in handler.nodes THEN handler.step ELSE node[n]]
          /\ UNCHANGED unanswered
       \/ /\ unanswered' = unanswered \cup handler.nodes
          /\ UNCHANGED node
    /\ handler' = Idle
    /\ UNCHANGED <<now, runOf, active, loaded, proposal, rows, crashes, signed>>

-----------------------------------------------------------------------------
(* expireActiveRunApprovals: all rows that are due are marked in one       *)
(* transaction, and then the nodes are handed off one by one.              *)

Expire ==
    /\ handler = Idle
    /\ \E n \in Nodes : Due(n)
    /\ rows' = [n \in Nodes |-> IF Due(n) THEN [rows[n] EXCEPT !.status = "expired"]
                                ELSE rows[n]]
    /\ handler' = [step |-> "expired", nodes |-> {n \in Nodes : Due(n)}]
    /\ UNCHANGED <<now, runOf, active, loaded, node, proposal, crashes, signed, unanswered>>

(* Fault: an exception ends the loop over the expired rows. *)
AfterThrow(n) == Idle

(* The loop goes on after an exception, which fails the node it is about.  *)
Caught(n) == [handler EXCEPT !.nodes = @ \ {n}]

ExpireOne(n) ==
    /\ handler.step = "expired"
    /\ n \in handler.nodes
    /\ \/ /\ Waiting(n)
          /\ node' = [node EXCEPT ![n] = "rejected"]
          /\ handler' = [handler EXCEPT !.nodes = @ \ {n}]
          /\ UNCHANGED <<active, unanswered>>
       \/ /\ Waiting(n)
          /\ FailNode(n)
          /\ handler' = Caught(n)
          /\ UNCHANGED unanswered
       \/ /\ ~Waiting(n)
          /\ unanswered' = IF Owner(n) \in active \ loaded THEN unanswered \cup {n}
                           ELSE unanswered
          /\ handler' = [handler EXCEPT !.nodes = @ \ {n}]
          /\ UNCHANGED <<active, node>>
    /\ UNCHANGED <<now, runOf, loaded, proposal, rows, crashes, signed>>

ExpiryDone ==
    /\ handler.step = "expired"
    /\ handler.nodes = {}
    /\ handler' = Idle
    /\ UNCHANGED <<now, runOf, active, loaded, node, proposal, rows, crashes, signed,
                   unanswered>>

-----------------------------------------------------------------------------
(* What a crash leaves behind: rows that were settled for nodes that were  *)
(* not handed off.                                                         *)
Crash ==
    /\ crashes < MaxCrashes
    /\ crashes' = crashes + 1
    /\ loaded' = {}
    /\ unanswered' = IF handler.step \in Decided \cup {"expired"}
                     THEN unanswered \cup handler.nodes ELSE unanswered
    /\ handler' = Idle
    /\ UNCHANGED <<now, runOf, active, node, proposal, rows, signed>>

(* recoverAllActiveRuns at the start, which may skip a run, or a later     *)
(* createAndRun of it.  A waiting approval is restored as it is.           *)
Restore(r) ==
    /\ handler = Idle
    /\ r \in active \ loaded
    /\ loaded' = loaded \cup {r}
    /\ UNCHANGED <<now, runOf, active, node, proposal, rows, handler, crashes, signed,
                   unanswered>>

Elapse ==
    /\ now < MaxNow
    /\ handler = Idle
    /\ now' = now + 1
    /\ UNCHANGED <<runOf, active, loaded, node, proposal, rows, handler, crashes, signed,
                   unanswered>>

Next == \/ \E r \in Runs : EndRun(r) \/ Restore(r)
        \/ \E n \in Nodes : \/ Arrive(n) \/ StartOver(n) \/ Start(n)
                            \/ DecideLate(n) \/ ExpireOne(n)
        \/ \E n \in Nodes, decision \in Decided, hash \in 1 .. MaxProposals :
              Decide(n, decision, hash)
        \/ AwaitDecision \/ HandOffDecision \/ Expire \/ ExpiryDone
        \/ Crash \/ Elapse

(* A handler that is under way runs on, the scheduler keeps ticking and    *)
(* time passes.  Nobody has to decide.                                     *)
Fairness == /\ WF_vars(AwaitDecision) /\ WF_vars(HandOffDecision)
            /\ WF_vars(\E n \in Nodes : ExpireOne(n)) /\ WF_vars(ExpiryDone)
            /\ SF_vars(Expire) /\ SF_vars(Elapse)

Spec == Init /\ [][Next]_vars /\ Fairness

-----------------------------------------------------------------------------
(* Properties.                                                             *)

TypeOK ==
    /\ now \in 0 .. MaxNow
    /\ runOf \in [Nodes -> Runs]
    /\ active \subseteq Runs /\ loaded \subseteq Runs
    /\ node \in [Nodes -> NodeStates]
    /\ proposal \in [Nodes -> 0 .. MaxProposals]
    /\ rows \in [Nodes -> [status : RowStates, hash : 0 .. MaxProposals,
                           expires : 0 .. MaxNow]]
    /\ handler \in [step : {"idle", "started", "expired"} \cup Decided, nodes : SUBSET Nodes]
    /\ crashes \in 0 .. MaxCrashes
    /\ signed \in [Nodes -> 0 .. MaxProposals]
    /\ unanswered \subseteq Nodes

(* docs/dag-patterns.md: "Approved and rejected rows are immutable for the *)
(* same run and node", however often a loop or a new round enters the node *)
(* again and whatever expires (createPendingApproval, decideApproval).     *)
DecisionIsFinal ==
    [][\A n \in Nodes : rows[n].status \in Decided => rows'[n] = rows[n]]_vars

(* A node leaves by its approved port only if its row is approved and the  *)
(* decision was about the proposal the node holds: not one it held before  *)
(* a loop brought the next (the preconditions of decideActiveRunApproval   *)
(* and the hash checked by decideApproval).                                *)
ApprovedIsWhatIsProposed ==
    \A n \in Nodes : node[n] = "approved" =>
        rows[n].status = "approved" /\ signed[n] = proposal[n]

(* A node that waits for a decision stops waiting once the time is over,   *)
(* unless its row was settled without a handoff: after a late decision, an *)
(* exception or a crash.  A handoff of another node that fails in the same *)
(* tick, in its own run or in another one, or an earlier expiry of the     *)
(* same node, does not keep it waiting.                                    *)
WaitingEnds ==
    \A n \in Nodes : Waiting(n) ~> (~Waiting(n) \/ n \in unanswered)

(* tests/dag-runtime-primitives.test.ts: the tick "expires a durable       *)
(* approval and routes it through the rejected port".  A decision between  *)
(* the time the approval expires and the next tick takes the row away from *)
(* the tick, and its node waits for ever (decideApproval).                 *)
ExpiredIsRejected ==
    \A n \in Nodes : Waiting(n) /\ rows[n].status = "expired" ~> ~Waiting(n)
=============================================================================
