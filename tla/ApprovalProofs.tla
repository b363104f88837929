--------------------------- MODULE ApprovalProofs ---------------------------
(***************************************************************************)
(* Proofs about Approval, for any nodes, runs and bounds.  What an         *)
(* operator signed is tied to the proposal of the node through the row:    *)
(* from the upsert to the handoff nothing else writes the row, because the *)
(* node is waiting or the handler is under way.                            *)
(***************************************************************************)
EXTENDS Approval, TLAPS

(* A node that waits, or is about to, has its proposal in its row.         *)
ShownIsProposed ==
    \A n \in Nodes :
        node[n] = "waiting" \/ (handler.step = "started" /\ n \in handler.nodes)
            => rows[n].hash = proposal[n]

(* A decision that is not handed off yet is about the proposal.            *)
DecidedIsProposed ==
    handler.step = "approved" =>
        \A n \in handler.nodes : rows[n].status = "approved" /\ signed[n] = proposal[n]

IInv == TypeOK /\ ShownIsProposed /\ DecidedIsProposed /\ ApprovedIsWhatIsProposed

LEMMA InitInv == Init => IInv
BY BoundsAssumption
   DEF Init, IInv, TypeOK, ShownIsProposed, DecidedIsProposed, ApprovedIsWhatIsProposed,
       NodeStates, RowStates, Decided, Idle

LEMMA ClosedKeeps ==
    ASSUME TypeOK, NEW S, Closed(S)
    PROVE  /\ node' \in [Nodes -> NodeStates]
           /\ \A n \in Nodes : node'[n] = node[n] \/ node'[n] = "closed"
BY DEF TypeOK, Closed, NodeStates

(* A failure closes nodes and ends runs, and does nothing else.            *)
LEMMA FailKeeps ==
    ASSUME TypeOK, NEW n \in Nodes, FailNode(n)
    PROVE  /\ active' \subseteq Runs
           /\ node' \in [Nodes -> NodeStates]
           /\ \A m \in Nodes : node'[m] = node[m] \/ node'[m] = "closed"
<1>1. PICK S : Closed(S)
  BY DEF FailNode
<1>2. active' \subseteq Runs
  BY DEF FailNode, TypeOK
<1> QED BY <1>1, <1>2, ClosedKeeps

LEMMA TypeStep == TypeOK /\ [Next]_vars => TypeOK'
<1> SUFFICES ASSUME TypeOK, [Next]_vars PROVE TypeOK'
  OBVIOUS
<1> USE DEF TypeOK
<1>1. CASE UNCHANGED vars
  BY <1>1 DEF vars
<1>2. ASSUME NEW r \in Runs, EndRun(r) PROVE TypeOK'
  BY <1>2, ClosedKeeps DEF EndRun
<1>3. ASSUME NEW r \in Runs, Restore(r) PROVE TypeOK'
  BY <1>3 DEF Restore
<1>4. ASSUME NEW n \in Nodes, Arrive(n) PROVE TypeOK'
  <2>1. proposal[n] + 1 \in 0 .. MaxProposals
    BY <1>4, BoundsAssumption DEF Arrive
  <2> QED BY <1>4, <2>1 DEF Arrive, NodeStates
<1>5. ASSUME NEW n \in Nodes, StartOver(n) PROVE TypeOK'
  BY <1>5 DEF StartOver, NodeStates
<1>6. ASSUME NEW n \in Nodes, Start(n) PROVE TypeOK'
  <2>1. CASE FailNode(n) /\ UNCHANGED <<rows, handler, unanswered>>
    BY <1>6, <2>1, FailKeeps DEF Start
  <2>2. CASE /\ now + ExpiresAfter <= MaxNow
             /\ rows' = [rows EXCEPT ![n] = PendingRow(n)]
             /\ handler' = [step |-> "started", nodes |-> {n}]
             /\ unanswered' = unanswered \ {n}
             /\ UNCHANGED <<active, node>>
    <3>1. now + ExpiresAfter \in 0 .. MaxNow
      BY <1>6, <2>2, BoundsAssumption DEF Start
    <3>2. PendingRow(n) \in [status : RowStates, hash : 0 .. MaxProposals,
                             expires : 0 .. MaxNow]
      BY <3>1 DEF PendingRow, RowStates
    <3> QED BY <1>6, <2>2, <3>2 DEF Start
  <2> QED BY <1>6, <2>1, <2>2 DEF Start
<1>7. CASE AwaitDecision
  <2>1. Idle \in [step : {"idle", "started", "expired"} \cup Decided, nodes : SUBSET Nodes]
    BY DEF Idle
  <2>2. CASE UNCHANGED active /\ node' = [n \in Nodes |->
                IF n \in handler.nodes THEN "waiting" ELSE node[n]]
    BY <1>7, <2>1, <2>2 DEF AwaitDecision, NodeStates
  <2>3. CASE \E n \in handler.nodes : FailNode(n)
    BY <1>7, <2>1, <2>3, FailKeeps DEF AwaitDecision
  <2> QED BY <1>7, <2>2, <2>3 DEF AwaitDecision
<1>8. ASSUME NEW n \in Nodes, DecideLate(n) PROVE TypeOK'
  BY <1>8 DEF DecideLate, RowStates
<1>9. ASSUME NEW n \in Nodes, NEW decision \in Decided, NEW hash \in 1 .. MaxProposals,
             Decide(n, decision, hash)
      PROVE  TypeOK'
  BY <1>9, BoundsAssumption DEF Decide, RowStates
<1>10. CASE HandOffDecision
  BY <1>10 DEF HandOffDecision, Idle, NodeStates
<1>11. CASE Expire
  BY <1>11 DEF Expire, RowStates
<1>12. ASSUME NEW n \in Nodes, ExpireOne(n) PROVE TypeOK'
  <2>1. CASE FailNode(n) /\ handler' = Caught(n) /\ UNCHANGED unanswered
    BY <1>12, <2>1, FailKeeps DEF ExpireOne, Caught
  <2>2. CASE /\ UNCHANGED active /\ node' \in {node, [node EXCEPT ![n] = "rejected"]}
             /\ handler' = [handler EXCEPT !.nodes = @ \ {n}]
    BY <1>12, <2>2 DEF ExpireOne, NodeStates, Decided
  <2> QED BY <1>12, <2>1, <2>2 DEF ExpireOne
<1>13. CASE ExpiryDone
  BY <1>13 DEF ExpiryDone, Idle
<1>14. CASE Crash
  BY <1>14, BoundsAssumption DEF Crash, Idle
<1>15. CASE Elapse
  BY <1>15, BoundsAssumption DEF Elapse
<1> QED
  BY <1>1, <1>2, <1>3, <1>4, <1>5, <1>6, <1>7, <1>8, <1>9, <1>10, <1>11, <1>12, <1>13,
     <1>14, <1>15 DEF Next

LEMMA ProposalStep ==
    ASSUME IInv, [Next]_vars
    PROVE  ShownIsProposed' /\ DecidedIsProposed' /\ ApprovedIsWhatIsProposed'
<1> DEFINE Goal == ShownIsProposed' /\ DecidedIsProposed' /\ ApprovedIsWhatIsProposed'
<1> USE DEF IInv, TypeOK, ShownIsProposed, DecidedIsProposed, ApprovedIsWhatIsProposed
<1>1. CASE UNCHANGED vars
  BY <1>1 DEF vars
<1>2. ASSUME NEW r \in Runs, EndRun(r) PROVE Goal
  BY <1>2, ClosedKeeps DEF EndRun
<1>3. ASSUME NEW r \in Runs, Restore(r) PROVE Goal
  BY <1>3 DEF Restore
<1>4. ASSUME NEW n \in Nodes, Arrive(n) PROVE Goal
  BY <1>4 DEF Arrive, Idle
<1>5. ASSUME NEW n \in Nodes, StartOver(n) PROVE Goal
  BY <1>5 DEF StartOver, Idle
<1>6. ASSUME NEW n \in Nodes, Start(n) PROVE Goal
  <2>1. CASE FailNode(n) /\ UNCHANGED <<rows, handler>>
    BY <1>6, <2>1, FailKeeps DEF Start
  <2>2. CASE /\ ~Immutable(n)
             /\ rows' = [rows EXCEPT ![n] = PendingRow(n)]
             /\ handler' = [step |-> "started", nodes |-> {n}]
             /\ UNCHANGED <<active, node>>
    BY <1>6, <2>2 DEF Start, PendingRow, Idle
  <2> QED BY <1>6, <2>1, <2>2 DEF Start
<1>7. CASE AwaitDecision
  <2>1. CASE node' = [n \in Nodes |-> IF n \in handler.nodes THEN "waiting" ELSE node[n]]
    BY <1>7, <2>1 DEF AwaitDecision, Idle
  <2>2. CASE \E n \in handler.nodes : FailNode(n)
    BY <1>7, <2>2, FailKeeps DEF AwaitDecision, Idle
  <2> QED BY <1>7, <2>1, <2>2 DEF AwaitDecision
<1>8. ASSUME NEW n \in Nodes, DecideLate(n) PROVE Goal
  BY <1>8 DEF DecideLate, MayDecide, Waiting, Due, Idle
<1>9. ASSUME NEW n \in Nodes, NEW decision \in Decided, NEW hash \in 1 .. MaxProposals,
             Decide(n, decision, hash)
      PROVE  Goal
  BY <1>9 DEF Decide, MayDecide, Waiting, Idle, Decided
<1>10. CASE HandOffDecision
  BY <1>10 DEF HandOffDecision, Idle, Decided
<1>11. CASE Expire
  BY <1>11 DEF Expire, Due, Idle
<1>12. ASSUME NEW n \in Nodes, ExpireOne(n) PROVE Goal
  <2>1. handler'.step = "expired" /\ rows' = rows /\ proposal' = proposal /\ signed' = signed
    BY <1>12 DEF ExpireOne, Caught
  <2>2. \A m \in Nodes : node'[m] = node[m] \/ node'[m] \in {"rejected", "closed"}
    BY <1>12, FailKeeps DEF ExpireOne
  <2> QED BY <2>1, <2>2
<1>13. CASE ExpiryDone
  BY <1>13 DEF ExpiryDone, Idle
<1>14. CASE Crash
  BY <1>14 DEF Crash, Idle
<1>15. CASE Elapse
  BY <1>15 DEF Elapse
<1> QED
  BY <1>1, <1>2, <1>3, <1>4, <1>5, <1>6, <1>7, <1>8, <1>9, <1>10, <1>11, <1>12, <1>13,
     <1>14, <1>15 DEF Next

LEMMA Inductive == Spec => []IInv
<1>1. Init => IInv
  BY InitInv
<1>2. IInv /\ [Next]_vars => IInv'
  BY TypeStep, ProposalStep DEF IInv
<1> QED BY <1>1, <1>2, PTL DEF Spec

(* The variables keep their types: no proposal and no time leaves its      *)
(* bounds, under any interleaving of handlers, crashes and restores.       *)
THEOREM TypeCorrect == Spec => []TypeOK
<1>1. IInv => TypeOK
  BY DEF IInv
<1> QED BY <1>1, Inductive, PTL

(* An approved node was approved for the proposal it holds, whatever loops *)
(* and crashes came between the upsert, the decision and the handoff.      *)
THEOREM ApprovalIsInformed == Spec => []ApprovedIsWhatIsProposed
<1>1. IInv => ApprovedIsWhatIsProposed
  BY DEF IInv
<1> QED BY <1>1, Inductive, PTL

(* No step writes a row that is approved or rejected: not a later entry of *)
(* the node, a second decision or the expiry.                              *)
LEMMA DecidedRowStays ==
    ASSUME TypeOK, [Next]_vars, NEW n \in Nodes, rows[n].status \in Decided
    PROVE  rows'[n] = rows[n]
<1> USE DEF TypeOK, Decided
<1>1. CASE rows' = rows
  BY <1>1
<1>2. ASSUME NEW m \in Nodes, Start(m), rows' # rows PROVE rows'[n] = rows[n]
  BY <1>2 DEF Start, Immutable
<1>3. ASSUME NEW m \in Nodes, DecideLate(m) PROVE rows'[n] = rows[n]
  BY <1>3 DEF DecideLate, Due
<1>4. ASSUME NEW m \in Nodes, NEW decision \in Decided, NEW hash \in 1 .. MaxProposals,
             Decide(m, decision, hash)
      PROVE  rows'[n] = rows[n]
  BY <1>4 DEF Decide
<1>5. CASE Expire
  BY <1>5 DEF Expire, Due
<1> QED
  BY <1>1, <1>2, <1>3, <1>4, <1>5
     DEF Next, vars, EndRun, Restore, Arrive, StartOver, ExpireOne, AwaitDecision,
         HandOffDecision, ExpiryDone, Crash, Elapse

(* A decision is final.                                                    *)
THEOREM DecisionsStand == Spec => DecisionIsFinal
<1>1. TypeOK /\ [Next]_vars =>
        [\A n \in Nodes : rows[n].status \in Decided => rows'[n] = rows[n]]_vars
  BY DecidedRowStays
<1>2. IInv => TypeOK
  BY DEF IInv
<1> QED BY <1>1, <1>2, Inductive, PTL DEF Spec, DecisionIsFinal
=============================================================================
