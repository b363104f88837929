------------------------- MODULE LiveSteeringProofs -------------------------
(***************************************************************************)
(* Proofs about LiveSteering, for any numbers of commands, rounds, turns,  *)
(* restarts and lost connections.  A turn that has a command as applied or *)
(* completed has carried it out, and so has every turn opened for one; a   *)
(* report that says so was made by such a turn.  What is lost is lost: no  *)
(* report is ever made up.  And while nothing is lost, no command is       *)
(* carried out twice: the second half of the module.                       *)
(***************************************************************************)
EXTENDS LiveSteering, FiniteSetTheorems, SequenceTheorems, WellFoundedInduction,
        TLAPS

Phases == {"none", "queued", "sending", "applied", "completed", "failed", "rejected",
           "unsupported"}
TurnStates == {"none", "open", "interrupted", "succeeded", "failed"}
TurnRecords == [state : TurnStates, round : Nat, gen : Nat, task : Tasks,
                phase : [Commands -> Phases]]

(* What the Manager sends.                                                 *)
Orders == {m \in [kind : {"prompt", "steer", "interrupt"}, round : Nat, gen : Nat,
                  task : Tasks] : m.kind = "steer" => m.task \in Commands}

(* What the Worker sends, and what of it is true.                          *)
Answers == {"accepted", "applied", "completed", "failed", "rejected", "unsupported"}
Reports == {m \in [kind : {"status", "handoff", "error"}, what : Answers \cup {"none"},
                   round : Nat, gen : Nat, task : Tasks] :
               m.kind = "status" => m.task \in Commands /\ m.what \in Answers}

CarriedOut(c) == \E i \in DOMAIN ran : ran[i] = c

Truthful(m) == /\ m.kind = "status" /\ m.what = "completed" => CarriedOut(m.task)
               /\ m.kind = "handoff" /\ m.task \in Commands => CarriedOut(m.task)

TrueReports == {m \in Reports : Truthful(m)}

RunTyped ==
    /\ run \in {"active", "waiting", "ended"} /\ round \in 1 .. MaxRounds
    /\ run = "waiting" => round < MaxRounds
    /\ node \in {"READY", "RUNNING", "COMPLETED", "FAILED"}
    /\ gen \in 1 .. MaxGenerations /\ task \in Tasks

RowsTyped ==
    /\ live \in [Commands -> [status : {"none"} \cup Outstanding \cup Ended,
                              round : 0 .. MaxRounds]]
    /\ link \in [Commands -> {"none", "pending", "acknowledged", "cancelled"}]

WorkerTyped ==
    /\ target \in BOOLEAN /\ connected \in BOOLEAN
    /\ greeted \in BOOLEAN /\ steerable \in BOOLEAN
    /\ targeting \in Targetings
    /\ turn \in [Turns -> TurnRecords]
    /\ prompt \in 0 .. MaxTurns
    /\ ran \in Seq(Commands)

ChannelsTyped ==
    /\ toWorker \in Seq(Orders)
    /\ toManager \in Seq(TrueReports)
    /\ ~connected => toWorker = <<>> /\ toManager = <<>>

Remembers(t) == /\ t.task \in Commands => CarriedOut(t.task)
                /\ \A c \in Commands :
                      t.phase[c] \in {"applied", "completed"} => CarriedOut(c)

TurnsRemember == \A t \in Turns : Remembers(turn[t])

IInv == RunTyped /\ RowsTyped /\ WorkerTyped /\ ChannelsTyped /\ TurnsRemember
        /\ CompletedWasCarriedOut

-----------------------------------------------------------------------------
LEMMA CommandNumbers ==
    /\ Commands \subseteq Tasks /\ NoCommand \in Tasks /\ Other \in Tasks
    /\ NoCommand \notin Commands /\ Other \notin Commands
    /\ Commands \subseteq Nat /\ IsFiniteSet(Commands)
<1>1. MaxCommands \in Nat
  BY BoundsAssumption
<1>2. IsFiniteSet(Commands)
  BY <1>1, FS_Interval DEF Commands
<1> QED BY <1>1, <1>2 DEF Commands, Tasks, NoCommand, Other

LEMMA InOrderSeq ==
    ASSUME NEW set \in SUBSET Commands, NEW queue \in InOrder(set)
    PROVE  /\ DOMAIN queue = 1 .. Len(queue) /\ Len(queue) \in Nat
           /\ queue \in Seq(set)
<1>1. Cardinality(set) \in Nat
  BY CommandNumbers, FS_Subset, FS_CardinalityType
<1>2. queue \in [1 .. Cardinality(set) -> set]
  BY DEF InOrder
<1> QED BY <1>1, <1>2

(* A longer record of what was carried out forgets nothing.                *)
LEMMA RanGrows ==
    ASSUME ran \in Seq(Commands), \/ ran' = ran
                                  \/ \E c \in Commands : ran' = Append(ran, c)
    PROVE  /\ ran' \in Seq(Commands)
           /\ \A c : CarriedOut(c) => CarriedOut(c)'
           /\ \A c \in Commands : ran' = Append(ran, c) => CarriedOut(c)'
<1>1. CASE ran' = ran
  <2>1. ASSUME NEW c \in Commands, ran = Append(ran, c) PROVE FALSE
    <3>1. Len(Append(ran, c)) = Len(ran) + 1 /\ Len(ran) \in Nat
      OBVIOUS
    <3>2. Len(ran) = Len(ran) + 1
      BY <2>1, <3>1, Zenon
    <3> QED BY <3>1, <3>2
  <2> QED BY <1>1, <2>1 DEF CarriedOut
<1>2. ASSUME NEW c \in Commands, ran' = Append(ran, c)
      PROVE  /\ ran' \in Seq(Commands)
             /\ \A d : CarriedOut(d) => CarriedOut(d)'
             /\ \A d \in Commands : ran' = Append(ran, d) => CarriedOut(d)'
  <2>1. ran' \in Seq(Commands) /\ Len(ran') = Len(ran) + 1 /\ Len(ran) \in Nat
    BY <1>2
  <2>2. /\ DOMAIN ran = 1 .. Len(ran) /\ DOMAIN ran' = 1 .. Len(ran')
        /\ \A i \in DOMAIN ran : ran'[i] = ran[i]
        /\ ran'[Len(ran) + 1] = c
    BY <1>2
  <2>3. \A d : CarriedOut(d) => CarriedOut(d)'
    BY <2>1, <2>2 DEF CarriedOut
  <2>4. ASSUME NEW d \in Commands, ran' = Append(ran, d) PROVE d = c
    <3>1. Append(ran, d)[Len(ran) + 1] = d
      BY <2>1
    <3> QED BY <3>1, <2>2, <2>4
  <2>5. CarriedOut(c)'
    BY <2>1, <2>2 DEF CarriedOut
  <2> QED BY <2>1, <2>3, <2>4, <2>5
<1> QED BY <1>1, <1>2

LEMMA ReportsStayTrue ==
    ASSUME \A c : CarriedOut(c) => CarriedOut(c)', toManager \in Seq(TrueReports)
    PROVE  toManager \in Seq(TrueReports')
<1>1. TrueReports \subseteq TrueReports'
  BY DEF TrueReports, Truthful
<1>2. /\ Len(toManager) \in Nat
      /\ \A i \in 1 .. Len(toManager) : toManager[i] \in TrueReports'
  BY <1>1
<1>3. toManager = [i \in 1 .. Len(toManager) |-> toManager[i]]
  OBVIOUS
<1> QED BY <1>2, <1>3

LEMMA PostTyped ==
    ASSUME \A c : CarriedOut(c) => CarriedOut(c)', toManager \in Seq(TrueReports),
           NEW messages \in Seq(TrueReports'), Post(messages)
    PROVE  /\ toManager' \in Seq(TrueReports')
           /\ ~connected => toManager' = toManager
BY ReportsStayTrue DEF Post

LEMMA InitInv == Init => IInv
<1> SUFFICES ASSUME Init PROVE IInv
  OBVIOUS
<1> USE BoundsAssumption DEF Init
<1>1. RunTyped
  BY CommandNumbers DEF RunTyped
<1>2. RowsTyped
  <2>1. [status |-> "none", round |-> 0] \in [status : {"none"} \cup Outstanding \cup Ended,
                                             round : 0 .. MaxRounds]
    OBVIOUS
  <2> QED BY <2>1 DEF RowsTyped
<1>3. NoTurn \in TurnRecords /\ Remembers(NoTurn)
  BY CommandNumbers DEF NoTurn, TurnRecords, TurnStates, Phases, Remembers
<1>4. WorkerTyped
  <2>1. turn \in [Turns -> TurnRecords] /\ prompt \in 0 .. MaxTurns /\ ran \in Seq(Commands)
    BY <1>3
  <2>2. /\ target \in BOOLEAN /\ connected \in BOOLEAN
        /\ greeted \in BOOLEAN /\ steerable \in BOOLEAN /\ targeting \in Targetings
    BY BackendsAssumption, Zenon
  <2> QED BY <2>1, <2>2, Zenon DEF WorkerTyped
<1>5. ChannelsTyped
  BY DEF ChannelsTyped
<1>6. TurnsRemember
  BY <1>3 DEF TurnsRemember
<1>7. CompletedWasCarriedOut
  BY DEF CompletedWasCarriedOut
<1> QED BY <1>1, <1>2, <1>4, <1>5, <1>6, <1>7 DEF IInv

-----------------------------------------------------------------------------
(* The steps of the Manager: the Worker and what was carried out stay.     *)

LEMMA WorkerStays ==
    ASSUME IInv, UNCHANGED <<turn, ran>>
    PROVE  /\ TurnsRemember'
           /\ \A c : CarriedOut(c) => CarriedOut(c)'
           /\ TrueReports' = TrueReports
BY DEF IInv, TurnsRemember, Remembers, CarriedOut, TrueReports, Truthful

(* No row becomes completed here.                                          *)
LEMMA NothingCompleted ==
    ASSUME IInv, UNCHANGED ran,
           \A c \in Commands : live'[c].status = "completed" => live[c].status = "completed"
    PROVE  CompletedWasCarriedOut'
BY DEF IInv, CompletedWasCarriedOut

LEMMA OrdersAppend ==
    ASSUME IInv, NEW m \in Orders, toWorker' = Append(toWorker, m)
    PROVE  toWorker' \in Seq(Orders)
BY DEF IInv, ChannelsTyped

LEMMA PromptIsOrder ==
    ASSUME NEW r \in Nat, NEW g \in Nat, NEW c \in Tasks
    PROVE  PromptMessage(r, g, c) \in Orders
BY DEF PromptMessage, Orders

LEMMA SteerIsOrder ==
    ASSUME NEW r \in Nat, NEW g \in Nat, NEW c \in Commands
    PROVE  SteerMessage(c, r, g) \in Orders
BY CommandNumbers DEF SteerMessage, Orders

LEMMA TrySendInv ==
    ASSUME IInv, NEW c \in Commands,
           NEW rows \in [Commands -> [status : {"none"} \cup Outstanding \cup Ended,
                                      round : 0 .. MaxRounds]],
           TrySend(c, rows), UNCHANGED <<connected, toManager, turn, ran>>
    PROVE  /\ live' \in [Commands -> [status : {"none"} \cup Outstanding \cup Ended,
                                      round : 0 .. MaxRounds]]
           /\ \A b \in Commands : live'[b].status = rows[b].status
           /\ ChannelsTyped'
<1>1. round \in 0 .. MaxRounds /\ round \in Nat /\ gen \in Nat
  BY BoundsAssumption DEF IInv, RunTyped
<1>2. CASE Sendable(c, rows, link) /\ Reachable
  <2>1. live' = [rows EXCEPT ![c].round = round]
    BY <1>2 DEF TrySend
  <2>2. toWorker' \in Seq(Orders)
    BY <1>1, <1>2, SteerIsOrder, OrdersAppend DEF TrySend
  <2>3. ChannelsTyped'
    BY <1>2, <2>2, WorkerStays DEF Reachable, IInv, ChannelsTyped
  <2> QED BY <1>1, <2>1, <2>3
<1>3. CASE ~(Sendable(c, rows, link) /\ Reachable)
  BY <1>3, WorkerStays DEF TrySend, IInv, ChannelsTyped
<1> QED BY <1>2, <1>3

LEMMA SendInv ==
    ASSUME IInv, NEW c \in Commands, SendLiveCommand(c) \/ Resend(c)
    PROVE  IInv'
<1> DEFINE Rows == [Commands -> [status : {"none"} \cup Outstanding \cup Ended,
                                 round : 0 .. MaxRounds]]
           queued == [live EXCEPT ![c] = [status |-> "queued", round |-> round]]
<1>1. UNCHANGED <<runVars, link, target, connected, greeted, setting, workerVars,
                  toManager>>
  BY DEF SendLiveCommand, Resend
<1>2. live \in Rows /\ queued \in Rows
  <2>1. [status |-> "queued", round |-> round] \in
            [status : {"none"} \cup Outstanding \cup Ended, round : 0 .. MaxRounds]
    BY BoundsAssumption DEF IInv, RunTyped, Outstanding
  <2> QED BY <2>1 DEF IInv, RowsTyped
<1>3. TrySend(c, live) \/ TrySend(c, queued)
  BY DEF SendLiveCommand, Resend
<1> HIDE DEF Rows, queued
<1>4. /\ live' \in Rows /\ ChannelsTyped'
      /\ \/ \A b \in Commands : live'[b].status = live[b].status
         \/ \A b \in Commands : live'[b].status = queued[b].status
  <2>1. UNCHANGED <<connected, toManager, turn, ran>>
    BY <1>1 DEF workerVars
  <2> QED BY <1>2, <1>3, <2>1, TrySendInv DEF Rows
<1>5. CompletedWasCarriedOut'
  <2>1. \A b \in Commands : queued[b].status = "completed" => live[b].status = "completed"
    BY <1>2 DEF queued, Rows
  <2>2. UNCHANGED ran
    BY <1>1 DEF workerVars
  <2> QED BY <1>4, <2>1, <2>2, NothingCompleted
<1>6. RunTyped' /\ WorkerTyped' /\ TurnsRemember'
  BY <1>1, WorkerStays DEF IInv, RunTyped, WorkerTyped, runVars, setting, workerVars
<1>7. RowsTyped'
  BY <1>1, <1>4 DEF IInv, RowsTyped, Rows
<1> QED BY <1>4, <1>5, <1>6, <1>7 DEF IInv

LEMMA DispatchInv ==
    ASSUME IInv, Dispatch
    PROVE  IInv'
<1>1. UNCHANGED <<run, round, gen, task, live, link, connected, greeted, steerable,
                  targeting, turn, prompt, ran, toManager>>
  BY DEF Dispatch, setting, workerVars
<1>2. RunTyped' /\ RowsTyped' /\ WorkerTyped' /\ TurnsRemember'
  BY <1>1, WorkerStays DEF Dispatch, IInv, RunTyped, RowsTyped, WorkerTyped
<1>3. CompletedWasCarriedOut'
  BY <1>1, NothingCompleted
<1>4. ChannelsTyped'
  <2>1. round \in Nat /\ gen \in Nat /\ task \in Tasks
    BY BoundsAssumption DEF IInv, RunTyped
  <2>2. toWorker' \in Seq(Orders)
    BY <2>1, PromptIsOrder, OrdersAppend DEF Dispatch
  <2> QED BY <1>1, <2>2, WorkerStays DEF Dispatch, IInv, ChannelsTyped
<1> QED BY <1>2, <1>3, <1>4 DEF IInv

(* A set of numbers that is not empty has a least one.                     *)
LEMMA LeastNumber ==
    ASSUME NEW T, T \subseteq Nat, T # {}
    PROVE  \E x \in T : \A y \in T : x <= y
<1> DEFINE R == OpToRel(<, Nat)
<1>1. IsWellFoundedOn(R, Nat)
  BY NatLessThanWellFounded, Zenon
<1>2. \A x, y \in Nat : y < x => <<y, x>> \in R
  BY DEF OpToRel
<1> HIDE DEF R
<1>3. PICK x \in T : \A y \in T : ~ (<<y, x>> \in R)
  BY <1>1, WFMin, Zenon
<1>4. ASSUME NEW y \in T PROVE x <= y
  <2>1. x \in Nat /\ y \in Nat
    OBVIOUS
  <2>2. ~ (y < x)
    BY <1>2, <1>3, <2>1, Zenon
  <2> QED BY <2>1, <2>2
<1> QED BY <1>4

LEMMA FirstIsCommand == First(live) \in Commands \/ First(live) = NoCommand
<1> DEFINE queue == {c \in Commands : live[c].status \in Outstanding}
<1>1. CASE queue = {}
  BY <1>1 DEF First
<1>2. CASE queue # {}
  <2>1. \E c \in queue : \A b \in queue : c <= b
    <3>1. queue \subseteq 1 .. MaxCommands /\ MaxCommands \in Nat
      BY BoundsAssumption DEF Commands
    <3>2. queue \subseteq Nat
      BY <3>1
    <3> HIDE DEF queue
    <3> QED BY <1>2, <3>2, LeastNumber
  <2> QED BY <1>2, <2>1 DEF First
<1> QED BY <1>1, <1>2

(* Whatever the next round is for, it is a task and belongs to a new row   *)
(* of the commands' links.                                                 *)
LEMMA BoundaryTyped ==
    ASSUME IInv, round < MaxRounds,
           \/ ConsumeOrWait(First(live))
           \/ OpenRound(Other) /\ UNCHANGED link
    PROVE  /\ RunTyped'
           /\ link' \in [Commands -> {"none", "pending", "acknowledged", "cancelled"}]
<1>1. round + 1 \in 1 .. MaxRounds /\ round + 1 \in Nat
  BY BoundsAssumption DEF IInv, RunTyped
<1>2. ASSUME NEW c \in Tasks, OpenRound(c) PROVE RunTyped'
  BY <1>1, <1>2 DEF OpenRound, IInv, RunTyped
<1>3. First(live) \in Tasks /\ Other \in Tasks
  BY FirstIsCommand, CommandNumbers
<1>4. CASE ConsumeOrWait(First(live))
  <2>1. CASE Consumable(First(live)) /\ OpenRound(First(live))
             /\ link' = [link EXCEPT ![First(live)] = "pending"]
    BY <1>2, <1>3, <2>1 DEF IInv, RowsTyped
  <2>2. CASE run' = "waiting" /\ UNCHANGED <<round, node, gen, task, link>>
    BY <2>2 DEF IInv, RunTyped, RowsTyped
  <2> QED BY <1>4, <2>1, <2>2 DEF ConsumeOrWait
<1>5. CASE OpenRound(Other) /\ UNCHANGED link
  BY <1>2, <1>3, <1>5 DEF IInv, RowsTyped
<1> QED BY <1>4, <1>5

LEMMA BoundaryInv ==
    ASSUME IInv, ReachBoundary \/ Resume \/ ResumeOthers
    PROVE  IInv'
<1>1. UNCHANGED <<live, target, connected, greeted, steerable, targeting, turn, prompt,
                  ran, toWorker, toManager>>
  BY DEF ReachBoundary, Resume, ResumeOthers, setting, workerVars
<1>2. RunTyped' /\ RowsTyped'
  <2>1. CASE ReachBoundary \/ Resume
    <3>1. round < MaxRounds
      BY <2>1 DEF ReachBoundary, Resume
    <3>2. \/ ConsumeOrWait(First(live))
          \/ OpenRound(Other) /\ UNCHANGED link
      BY <2>1 DEF ReachBoundary, Resume
    <3> QED BY <1>1, <3>1, <3>2, BoundaryTyped DEF IInv, RowsTyped
  <2>2. CASE ResumeOthers
    <3>1. round + 1 \in 1 .. MaxRounds
      BY <2>2, BoundsAssumption DEF ResumeOthers, IInv, RunTyped
    <3> QED BY <2>2, <3>1, CommandNumbers DEF ResumeOthers, IInv, RunTyped, RowsTyped
  <2> QED BY <2>1, <2>2
<1>3. WorkerTyped' /\ ChannelsTyped' /\ TurnsRemember'
  BY <1>1, WorkerStays DEF IInv, WorkerTyped, ChannelsTyped
<1>4. CompletedWasCarriedOut'
  BY <1>1, NothingCompleted
<1> QED BY <1>2, <1>3, <1>4 DEF IInv

LEMMA TerminatedTyped ==
    ASSUME IInv, NEW status \in {"cancelled", "superseded"}, live' = Terminated(live, status),
           link' = Unclaimed, UNCHANGED ran
    PROVE  RowsTyped' /\ CompletedWasCarriedOut'
<1>1. \A c \in Commands :
         /\ live[c] \in [status : {"none"} \cup Outstanding \cup Ended, round : 0 .. MaxRounds]
         /\ link[c] \in {"none", "pending", "acknowledged", "cancelled"}
  BY DEF IInv, RowsTyped
<1>2. RowsTyped'
  <2>1. \A c \in Commands : [live[c] EXCEPT !.status = status] \in
            [status : {"none"} \cup Outstanding \cup Ended, round : 0 .. MaxRounds]
    BY <1>1 DEF Ended
  <2> QED BY <1>1, <2>1 DEF RowsTyped, Terminated, Unclaimed
<1>3. \A c \in Commands : live'[c].status = "completed" => live[c].status = "completed"
  BY <1>1 DEF Terminated
<1> QED BY <1>2, <1>3, NothingCompleted

LEMMA EndRunInv ==
    ASSUME IInv, EndRun
    PROVE  IInv'
<1>1. UNCHANGED <<target, connected, greeted, steerable, targeting, turn, prompt, ran,
                  toWorker, toManager>>
  BY DEF EndRun, setting, workerVars
<1>2. RunTyped'
  BY DEF EndRun, IInv, RunTyped
<1>3. RowsTyped' /\ CompletedWasCarriedOut'
  BY <1>1, TerminatedTyped DEF EndRun
<1>4. WorkerTyped' /\ ChannelsTyped' /\ TurnsRemember'
  BY <1>1, WorkerStays DEF IInv, WorkerTyped, ChannelsTyped
<1> QED BY <1>2, <1>3, <1>4 DEF IInv

LEMMA AdvanceInv ==
    ASSUME IInv, Retry \/ Stop
    PROVE  IInv'
<1>1. /\ Advance
      /\ UNCHANGED <<run, round, connected, greeted, steerable, targeting, turn, prompt, ran,
                     toManager>>
  BY DEF Retry, Stop, Advance, setting, workerVars
<1>2. RunTyped'
  <2>1. gen' \in 1 .. MaxGenerations
    BY <1>1, BoundsAssumption DEF Advance, IInv, RunTyped
  <2>2. task' \in Tasks /\ node' \in {"READY", "FAILED"}
    BY CommandNumbers DEF Retry, Stop
  <2> QED BY <1>1, <2>1, <2>2 DEF IInv, RunTyped
<1>3. RowsTyped' /\ CompletedWasCarriedOut'
  BY <1>1, TerminatedTyped DEF Advance, Superseded
<1>4. WorkerTyped'
  BY <1>1, Zenon DEF Advance, IInv, WorkerTyped
<1>5. ChannelsTyped'
  <2>1. Interrupt \in Orders
    BY CommandNumbers DEF Interrupt, Orders
  <2>2. CASE target /\ connected
    BY <1>1, <2>1, <2>2, OrdersAppend, WorkerStays DEF Advance, IInv, ChannelsTyped
  <2>3. CASE ~(target /\ connected)
    BY <1>1, <2>3, WorkerStays DEF Advance, IInv, ChannelsTyped
  <2> QED BY <2>2, <2>3
<1> QED BY <1>1, <1>2, <1>3, <1>4, <1>5, WorkerStays DEF IInv

-----------------------------------------------------------------------------
(* Connections and restarts.                                               *)

LEMMA ConnectionInv ==
    ASSUME IInv, Disconnect \/ Reconnect \/ Restart
    PROVE  IInv'
<1>1. UNCHANGED <<round, gen, task, live, link, steerable, targeting, turn, prompt, ran>>
  BY DEF Disconnect, Reconnect, Restart, runVars, setting, workerVars
<1>2. RunTyped'
  <2>1. CASE Restart
    BY <1>1, <2>1 DEF Restart, IInv, RunTyped
  <2>2. CASE Disconnect \/ Reconnect
    BY <2>2 DEF Disconnect, Reconnect, runVars, IInv, RunTyped
  <2> QED BY <2>1, <2>2
<1>3. RowsTyped' /\ CompletedWasCarriedOut'
  BY <1>1, NothingCompleted DEF IInv, RowsTyped
<1>4. WorkerTyped'
  BY <1>1, Zenon DEF Disconnect, Reconnect, Restart, IInv, WorkerTyped
<1>5. ChannelsTyped'
  <2>1. CASE Reconnect
    BY <1>1, <2>1, WorkerStays DEF Reconnect, IInv, ChannelsTyped
  <2>2. CASE Disconnect \/ Restart
    <3>1. <<>> \in Seq(Orders) /\ <<>> \in Seq(TrueReports')
      OBVIOUS
    <3>2. toWorker' = <<>> /\ toManager' = <<>>
      BY <2>2 DEF Disconnect, Restart
    <3> QED BY <3>1, <3>2 DEF ChannelsTyped
  <2> QED BY <2>1, <2>2
<1> QED BY <1>1, <1>2, <1>3, <1>4, <1>5, WorkerStays DEF IInv

(* The prompt of a round and the commands that are sent again.             *)
LEMMA RecoverInv ==
    ASSUME IInv, NEW r \in 1 .. MaxRounds, NEW c \in Tasks, NEW links, Recover(r, c, links)
    PROVE  /\ node' = "RUNNING" /\ target' = TRUE
           /\ live' \in [Commands -> [status : {"none"} \cup Outstanding \cup Ended,
                                      round : 0 .. MaxRounds]]
           /\ \A b \in Commands : live'[b].status = live[b].status
           /\ toWorker' \in Seq(Orders)
<1> DEFINE again == {b \in Commands : Sendable(b, live, links)}
<1>1. r \in Nat /\ r \in 0 .. MaxRounds /\ gen \in Nat
  BY BoundsAssumption DEF IInv, RunTyped
<1>2. live \in [Commands -> [status : {"none"} \cup Outstanding \cup Ended,
                             round : 0 .. MaxRounds]]
  BY DEF IInv, RowsTyped
<1>3. live' = [b \in Commands |-> IF b \in again THEN [live[b] EXCEPT !.round = r]
                                  ELSE live[b]]
  BY DEF Recover
<1>4. PICK queue \in InOrder(again) :
         toWorker' = <<PromptMessage(r, gen, c)>>
                     \o [i \in DOMAIN queue |-> SteerMessage(queue[i], r, gen)]
  BY DEF Recover
<1>5. toWorker' \in Seq(Orders)
  <2>1. /\ DOMAIN queue = 1 .. Len(queue) /\ Len(queue) \in Nat
        /\ \A i \in DOMAIN queue : queue[i] \in Commands
    BY InOrderSeq
  <2>2. [i \in DOMAIN queue |-> SteerMessage(queue[i], r, gen)] \in Seq(Orders)
    BY <1>1, <2>1, SteerIsOrder
  <2>3. <<PromptMessage(r, gen, c)>> \in Seq(Orders)
    BY <1>1, PromptIsOrder
  <2> QED BY <1>4, <2>2, <2>3
<1> HIDE DEF again
<1>6. live' \in [Commands -> [status : {"none"} \cup Outstanding \cup Ended,
                              round : 0 .. MaxRounds]]
  BY <1>1, <1>2, <1>3
<1>7. \A b \in Commands : live'[b].status = live[b].status
  BY <1>2, <1>3
<1> QED BY <1>5, <1>6, <1>7 DEF Recover

LEMMA FirstWorkerInv ==
    ASSUME IInv, FirstWorkerRegisters
    PROVE  IInv'
<1>1. /\ UNCHANGED <<steerable, targeting, turn, prompt, ran, toManager>>
      /\ connected' = TRUE /\ greeted' = TRUE
  BY DEF FirstWorkerRegisters, setting, workerVars
<1>2. CASE run = "waiting" /\ ConsumeOrWait(First(live))
           /\ IF run' = "active" THEN Recover(round', task', link')
              ELSE UNCHANGED <<live, target, toWorker>>
  <2>1. RunTyped' /\ link' \in [Commands -> {"none", "pending", "acknowledged", "cancelled"}]
    BY <1>2, BoundaryTyped DEF IInv, RunTyped
  <2>2. CASE Recover(round', task', link')
    <3>1. round' \in 1 .. MaxRounds /\ task' \in Tasks
      BY <2>1 DEF RunTyped
    <3> HIDE DEF IInv
    <3>2. /\ target' = TRUE
          /\ live' \in [Commands -> [status : {"none"} \cup Outstanding \cup Ended,
                                     round : 0 .. MaxRounds]]
          /\ \A b \in Commands : live'[b].status = live[b].status
          /\ toWorker' \in Seq(Orders)
      BY <2>2, <3>1, RecoverInv
    <3>3. RowsTyped' /\ CompletedWasCarriedOut'
      BY <1>1, <2>1, <3>2, NothingCompleted DEF RowsTyped
    <3>4. WorkerTyped'
      BY <1>1, <3>2, Zenon DEF IInv, WorkerTyped
    <3>5. ChannelsTyped'
      BY <1>1, <3>2, WorkerStays DEF IInv, ChannelsTyped
    <3> QED BY <1>1, <2>1, <3>3, <3>4, <3>5, WorkerStays DEF IInv
  <2>3. CASE UNCHANGED <<live, target, toWorker>>
    <3>1. RowsTyped' /\ CompletedWasCarriedOut'
      BY <1>1, <2>1, <2>3, NothingCompleted DEF IInv, RowsTyped
    <3>2. WorkerTyped'
      BY <1>1, <2>3, Zenon DEF IInv, WorkerTyped
    <3>3. ChannelsTyped'
      BY <1>1, <2>3, WorkerStays DEF IInv, ChannelsTyped
    <3> QED BY <1>1, <2>1, <3>1, <3>2, <3>3, WorkerStays DEF IInv
  <2> QED BY <1>2, <2>2, <2>3
<1>3. CASE Recover(round, task, link) /\ UNCHANGED <<run, round, gen, task, link>>
  <2>1. round \in 1 .. MaxRounds /\ task \in Tasks
    BY DEF IInv, RunTyped
  <2>2. /\ target' = TRUE /\ node' = "RUNNING"
        /\ live' \in [Commands -> [status : {"none"} \cup Outstanding \cup Ended,
                                   round : 0 .. MaxRounds]]
        /\ \A b \in Commands : live'[b].status = live[b].status
        /\ toWorker' \in Seq(Orders)
    BY <1>3, <2>1, RecoverInv
  <2>3. RunTyped'
    BY <1>3, <2>2 DEF IInv, RunTyped
  <2>4. RowsTyped' /\ CompletedWasCarriedOut'
    BY <1>1, <1>3, <2>2, NothingCompleted DEF IInv, RowsTyped
  <2>5. WorkerTyped'
    BY <1>1, <2>2, Zenon DEF IInv, WorkerTyped
  <2>6. ChannelsTyped'
    BY <1>1, <2>2, WorkerStays DEF IInv, ChannelsTyped
  <2> QED BY <1>1, <2>3, <2>4, <2>5, <2>6, WorkerStays DEF IInv
<1>4. CASE UNCHANGED <<runVars, live, link, target, toWorker>>
  <2>1. RunTyped' /\ RowsTyped'
    BY <1>4 DEF runVars, IInv, RunTyped, RowsTyped
  <2>2. WorkerTyped'
    BY <1>1, <1>4, Zenon DEF IInv, WorkerTyped
  <2>3. ChannelsTyped'
    BY <1>1, <1>4, WorkerStays DEF IInv, ChannelsTyped
  <2>4. CompletedWasCarriedOut'
    BY <1>1, <1>4, NothingCompleted
  <2> QED BY <1>1, <2>1, <2>2, <2>3, <2>4, WorkerStays DEF IInv
<1> QED BY <1>2, <1>3, <1>4 DEF FirstWorkerRegisters

-----------------------------------------------------------------------------
(* The steps of the Worker: the run and its rows stay.                     *)

RunAndRows == <<runVars, live, link, target, connected, greeted, setting>>

LEMMA RunStays ==
    ASSUME IInv, UNCHANGED RunAndRows, \A c : CarriedOut(c) => CarriedOut(c)'
    PROVE  RunTyped' /\ RowsTyped' /\ CompletedWasCarriedOut'
BY DEF IInv, RunAndRows, runVars, RunTyped, RowsTyped, CompletedWasCarriedOut, CarriedOut

LEMMA FirstOrder ==
    ASSUME IInv, NEW kind, FromManager(kind)
    PROVE  /\ toWorker[1] \in Orders /\ toWorker[1].kind = kind
           /\ Tail(toWorker) \in Seq(Orders)
           /\ connected
<1>1. toWorker \in Seq(Orders) /\ toWorker # <<>>
  BY DEF IInv, ChannelsTyped, FromManager
<1> QED BY <1>1 DEF IInv, ChannelsTyped, FromManager

(* A step of the Worker keeps the invariant if the turns stay typed and    *)
(* remember, and what is posted is true.                                   *)
LEMMA WorkerStep ==
    ASSUME IInv, UNCHANGED RunAndRows,
           ran' = ran \/ \E c \in Commands : ran' = Append(ran, c),
           turn' \in [Turns -> TurnRecords], prompt' \in 0 .. MaxTurns,
           TurnsRemember',
           \/ toWorker' = toWorker
           \/ connected /\ toWorker' \in Seq(Orders),
           \/ toManager' = toManager
           \/ \E messages \in Seq(TrueReports') : Post(messages)
    PROVE  IInv'
<1>1. /\ ran' \in Seq(Commands)
      /\ \A c : CarriedOut(c) => CarriedOut(c)'
  BY RanGrows DEF IInv, WorkerTyped
<1>2. UNCHANGED <<target, connected, greeted, steerable, targeting>>
  BY DEF RunAndRows, setting
<1>3. WorkerTyped'
  BY <1>1, <1>2, Zenon DEF IInv, WorkerTyped
<1>4. ChannelsTyped'
  <2>1. toManager \in Seq(TrueReports) /\ toWorker \in Seq(Orders)
    BY DEF IInv, ChannelsTyped
  <2>2. toManager' \in Seq(TrueReports') /\ (~connected => toManager' = toManager)
    BY <1>1, <2>1, PostTyped, ReportsStayTrue
  <2>3. toWorker' \in Seq(Orders) /\ (~connected => toWorker' = toWorker)
    BY <2>1
  <2>4. ~connected => toWorker = <<>> /\ toManager = <<>>
    BY DEF IInv, ChannelsTyped
  <2> QED BY <1>2, <2>2, <2>3, <2>4 DEF ChannelsTyped
<1> QED BY <1>1, <1>3, <1>4, RunStays DEF IInv

LEMMA TurnTyped ==
    ASSUME IInv, NEW t \in Turns
    PROVE  /\ turn[t] \in TurnRecords /\ Remembers(turn[t])
           /\ turn[t].phase \in [Commands -> Phases]
           /\ turn[t].task \in Tasks /\ turn[t].round \in Nat /\ turn[t].gen \in Nat
BY DEF IInv, WorkerTyped, TurnsRemember, TurnRecords

LEMMA PromptTyped ==
    ASSUME IInv, prompt # 0
    PROVE  prompt \in Turns
BY BoundsAssumption DEF IInv, WorkerTyped, Turns

(* One turn changes.                                                       *)
LEMMA OneTurn ==
    ASSUME IInv, NEW t \in Turns, NEW new \in TurnRecords, turn' = [turn EXCEPT ![t] = new],
           \A c : CarriedOut(c) => CarriedOut(c)', Remembers(new)'
    PROVE  turn' \in [Turns -> TurnRecords] /\ TurnsRemember'
<1>1. turn \in [Turns -> TurnRecords]
  BY DEF IInv, WorkerTyped
<1>2. ASSUME NEW s \in Turns PROVE Remembers(turn[s])'
  <2>1. CASE s = t
    BY <1>1, <2>1 DEF Remembers
  <2>2. CASE s # t
    <3>1. turn'[s] = turn[s]
      BY <1>1, <2>2
    <3>2. Remembers(turn[s])
      BY TurnTyped
    <3> QED BY <3>1, <3>2 DEF Remembers
  <2> QED BY <2>1, <2>2
<1> QED BY <1>1, <1>2 DEF TurnsRemember

LEMMA OnePhase ==
    ASSUME IInv, NEW t \in Turns, NEW c \in Commands, NEW phase \in Phases,
           turn' = [turn EXCEPT ![t].phase[c] = phase],
           \A d : CarriedOut(d) => CarriedOut(d)',
           phase \in {"applied", "completed"} => CarriedOut(c)'
    PROVE  turn' \in [Turns -> TurnRecords] /\ TurnsRemember'
<1> DEFINE new == [turn[t] EXCEPT !.phase[c] = phase]
<1>1. turn' = [turn EXCEPT ![t] = new]
  BY DEF IInv, WorkerTyped
<1>2. new \in TurnRecords
  BY TurnTyped DEF TurnRecords
<1>3. /\ new.task = turn[t].task
      /\ \A d \in Commands : new.phase[d] = IF d = c THEN phase ELSE turn[t].phase[d]
  BY TurnTyped DEF TurnRecords
<1> DEFINE done == {d \in Commands : CarriedOut(d)'}
<1>4. /\ turn[t].task \in Commands => turn[t].task \in done
      /\ \A d \in Commands : turn[t].phase[d] \in {"applied", "completed"} => d \in done
      /\ phase \in {"applied", "completed"} => c \in done
  BY TurnTyped DEF Remembers
<1> HIDE DEF new
<1>5. /\ new.task \in Commands => new.task \in done
      /\ \A d \in Commands : new.phase[d] \in {"applied", "completed"} => d \in done
  BY <1>3, <1>4
<1>6. /\ turn \in [Turns -> TurnRecords]
      /\ \A s \in Turns : /\ turn[s].task \in Commands => turn[s].task \in done
                          /\ \A d \in Commands :
                                turn[s].phase[d] \in {"applied", "completed"} => d \in done
  BY TurnTyped DEF IInv, WorkerTyped, Remembers
<1>7. \A s \in Turns : turn'[s] = IF s = t THEN new ELSE turn[s]
  BY <1>1, <1>6
<1>8. \A s \in Turns : /\ turn'[s].task \in Commands => turn'[s].task \in done
                       /\ \A d \in Commands :
                             turn'[s].phase[d] \in {"applied", "completed"} => d \in done
  BY <1>5, <1>6, <1>7
<1> QED BY <1>1, <1>2, <1>6, <1>8 DEF TurnsRemember, Remembers

LEMMA StatusIsTrue ==
    ASSUME NEW c \in Commands, NEW m, m.round \in Nat, m.gen \in Nat,
           NEW what \in Answers, what = "completed" => CarriedOut(c)'
    PROVE  <<Status(c, m, what)>> \in Seq(TrueReports') /\ Status(c, m, what) \in TrueReports'
<1>1. Status(c, m, what) \in Reports
  BY CommandNumbers DEF Status, Reports, Answers
<1>2. Truthful(Status(c, m, what))'
  BY DEF Status, Truthful
<1>3. Status(c, m, what) \in TrueReports'
  BY <1>1, <1>2 DEF TrueReports
<1> QED BY <1>3

LEMMA ReceivePromptInv ==
    ASSUME IInv, NEW t \in Turns, ReceivePrompt(t)
    PROVE  IInv'
<1>1. /\ \E x \in Orders : x = toWorker[1]
      /\ Tail(toWorker) \in Seq(Orders) /\ connected
  BY FirstOrder DEF ReceivePrompt
<1> PICK m \in Orders : m = toWorker[1]
  BY <1>1
<1> DEFINE new == [NoTurn EXCEPT !.state = "open", !.round = m.round, !.gen = m.gen,
                                 !.task = m.task]
<1>2. m.round \in Nat /\ m.gen \in Nat /\ m.task \in Tasks
  BY <1>1 DEF Orders
<1>3. ran' = ran \/ \E c \in Commands : ran' = Append(ran, c)
  BY DEF ReceivePrompt
<1>4. /\ \A c : CarriedOut(c) => CarriedOut(c)'
      /\ m.task \in Commands => CarriedOut(m.task)'
  <2>1. ran \in Seq(Commands)
    BY DEF IInv, WorkerTyped
  <2>2. m.task \in Commands => ran' = Append(ran, m.task)
    BY DEF ReceivePrompt
  <2> QED BY <1>3, <2>1, <2>2, RanGrows
<1>5. /\ new \in TurnRecords /\ new.task = m.task
      /\ \A c \in Commands : new.phase[c] = "none"
  BY <1>2 DEF NoTurn, TurnRecords, TurnStates, Phases
<1>6. turn' = [turn EXCEPT ![t] = new]
  BY DEF ReceivePrompt
<1> HIDE DEF new
<1>7. Remembers(new)'
  BY <1>4, <1>5 DEF Remembers
<1>8. turn' \in [Turns -> TurnRecords] /\ TurnsRemember'
  BY <1>4, <1>5, <1>6, <1>7, OneTurn
<1>9. prompt' \in 0 .. MaxTurns
  BY BoundsAssumption DEF ReceivePrompt, Turns
<1>10. /\ UNCHANGED <<RunAndRows, toManager>>
       /\ toWorker' = Tail(toWorker)
  BY DEF ReceivePrompt, RunAndRows
<1> QED BY <1>1, <1>3, <1>8, <1>9, <1>10, WorkerStep

LEMMA ReceiveCommandInv ==
    ASSUME IInv, ReceiveCommand
    PROVE  IInv'
<1>1. /\ \E x \in Orders : x = toWorker[1] /\ x.kind = "steer"
      /\ Tail(toWorker) \in Seq(Orders) /\ connected
  BY FirstOrder DEF ReceiveCommand
<1> PICK m \in Orders : m = toWorker[1] /\ m.kind = "steer"
  BY <1>1
<1> DEFINE c == m.task
           answer(phase) == Post(IF phase = "queued" THEN <<>>
                                 ELSE <<Status(c, m, StatusOf(phase))>>)
<1>2. m.round \in Nat /\ m.gen \in Nat /\ c \in Commands
  BY <1>1 DEF Orders
<1>3. /\ UNCHANGED <<RunAndRows, prompt, ran>>
      /\ toWorker' = Tail(toWorker)
  BY DEF ReceiveCommand, RunAndRows
<1>4. \A d : CarriedOut(d) => CarriedOut(d)'
  BY <1>3 DEF CarriedOut
<1>5. ASSUME NEW phase \in Phases \ {"none"}, answer(phase), phase = "completed" => CarriedOut(c)'
      PROVE  \E messages \in Seq(TrueReports') : Post(messages)
  <2>1. CASE phase = "queued"
    <3>1. <<>> \in Seq(TrueReports') /\ Post(<<>>)
      BY <1>5, <2>1
    <3> QED BY <3>1
  <2>2. CASE phase # "queued"
    <3>1. /\ StatusOf(phase) \in Answers
          /\ StatusOf(phase) = "completed" => CarriedOut(c)'
      BY <1>5, <2>2 DEF StatusOf, Phases, Answers
    <3> HIDE DEF c
    <3>2. <<Status(c, m, StatusOf(phase))>> \in Seq(TrueReports')
      BY <1>2, <3>1, StatusIsTrue
    <3> QED BY <1>5, <2>2, <3>2 DEF c
  <2> QED BY <2>1, <2>2
<1>6. turn \in [Turns -> TurnRecords] /\ TurnsRemember /\ prompt \in 0 .. MaxTurns
  BY DEF IInv, WorkerTyped
<1>7. TurnsRemember /\ turn' = turn => turn' \in [Turns -> TurnRecords] /\ TurnsRemember'
  BY <1>3, <1>6 DEF TurnsRemember, Remembers, CarriedOut
<1> SUFFICES /\ \E messages \in Seq(TrueReports') : Post(messages)
             /\ turn' \in [Turns -> TurnRecords] /\ TurnsRemember'
  <2> HIDE DEF c
  <2>1. prompt' \in 0 .. MaxTurns /\ ran' = ran
    BY <1>3, <1>6
  <2> QED BY <1>1, <1>3, <2>1, WorkerStep
<1>8. CASE ~SamePrompt(m, prompt) /\ answer("rejected") /\ UNCHANGED turn
  <2>1. "rejected" \in Phases \ {"none"}
    BY DEF Phases
  <2> HIDE DEF c
  <2> QED BY <1>5, <1>6, <1>7, <1>8, <2>1
<1>9. CASE /\ SamePrompt(m, prompt) /\ turn[prompt].phase[c] # "none"
           /\ answer(turn[prompt].phase[c]) /\ UNCHANGED turn
  <2>1. prompt \in Turns
    BY <1>9, PromptTyped DEF SamePrompt
  <2>2. /\ turn[prompt].phase[c] \in Phases \ {"none"}
        /\ turn[prompt].phase[c] = "completed" => CarriedOut(c)'
    <3>1. turn[prompt].phase \in [Commands -> Phases] /\ Remembers(turn[prompt])
      BY <2>1, TurnTyped
    <3> HIDE DEF c
    <3> QED BY <1>2, <1>4, <1>9, <3>1 DEF Remembers
  <2> HIDE DEF c
  <2> QED BY <1>5, <1>6, <1>7, <1>9, <2>2
<1>10. CASE /\ SamePrompt(m, prompt)
            /\ turn' = [turn EXCEPT ![prompt].phase[c] = PhaseOf(c, prompt)]
            /\ answer(PhaseOf(c, prompt))
  <2>1. prompt \in Turns
    BY <1>10, PromptTyped DEF SamePrompt
  <2>2. /\ PhaseOf(c, prompt) \in Phases \ {"none"}
        /\ PhaseOf(c, prompt) \notin {"applied", "completed"}
    BY DEF PhaseOf, Phases
  <2> HIDE DEF c
  <2>3. turn' \in [Turns -> TurnRecords] /\ TurnsRemember'
    BY <1>2, <1>4, <1>10, <2>1, <2>2, OnePhase
  <2> QED BY <1>5, <1>10, <2>2, <2>3
<1> QED BY <1>8, <1>9, <1>10 DEF ReceiveCommand

LEMMA ProgressInv ==
    ASSUME IInv, NEW t \in Turns, NEW c \in Commands, NEW phase \in {"sending", "applied", "failed"},
           Progress(t, c, phase),
           \/ phase # "applied" /\ ran' = ran
           \/ ran' = Append(ran, c)
    PROVE  IInv'
<1>1. ran' = ran \/ \E d \in Commands : ran' = Append(ran, d)
  OBVIOUS
<1>2. /\ \A d : CarriedOut(d) => CarriedOut(d)'
      /\ phase = "applied" => CarriedOut(c)'
  BY <1>1, RanGrows DEF IInv, WorkerTyped
<1>3. turn' \in [Turns -> TurnRecords] /\ TurnsRemember'
  BY <1>2, OnePhase DEF Progress, Phases
<1>4. \E messages \in Seq(TrueReports') : Post(messages)
  <2>1. StatusOf(phase) \in Answers /\ StatusOf(phase) # "completed"
    BY DEF StatusOf, Answers
  <2>2. turn[t].round \in Nat /\ turn[t].gen \in Nat
    BY TurnTyped
  <2>3. <<Status(c, turn[t], StatusOf(phase))>> \in Seq(TrueReports')
    BY <2>1, <2>2, StatusIsTrue
  <2> QED BY <2>3 DEF Progress
<1>5. UNCHANGED <<RunAndRows, prompt, toWorker>>
  BY DEF Progress, RunAndRows
<1>6. prompt' \in 0 .. MaxTurns
  BY <1>5 DEF IInv, WorkerTyped
<1> QED BY <1>1, <1>3, <1>4, <1>5, <1>6, WorkerStep

LEMMA SteerInv ==
    ASSUME IInv, NEW t \in Turns, NEW c \in Commands, Steer(t, c) \/ Applied(t, c)
    PROVE  IInv'
<1>2. CASE Steer(t, c)
  BY <1>2, ProgressInv DEF Steer
<1>3. CASE Progress(t, c, "applied") /\ ran' = Append(ran, c)
  BY <1>3, ProgressInv
<1>4. CASE Progress(t, c, "failed") /\ ran' = ran
  BY <1>4, ProgressInv
<1> QED BY <1>2, <1>3, <1>4 DEF Applied

(* What a turn had taken ends with it, and is completed only if applied.   *)
LEMMA SettleInv ==
    ASSUME IInv, NEW t \in Turns, NEW state \in TurnStates, NEW success \in BOOLEAN,
           SettleTurn(t, state, success), UNCHANGED ran
    PROVE  /\ turn' \in [Turns -> TurnRecords] /\ TurnsRemember'
           /\ \E messages \in Seq(TrueReports') : Post(messages)
<1> PICK old \in TurnRecords : old = turn[t]
  BY TurnTyped
<1>1. /\ old.phase \in [Commands -> Phases] /\ old.task \in Tasks
      /\ old.round \in Nat /\ old.gen \in Nat
  BY DEF TurnRecords
<1> DEFINE done == {c \in Commands : CarriedOut(c)}
<1>2. done = {c \in Commands : CarriedOut(c)'}
  BY DEF CarriedOut
<1>3. /\ old.task \in Commands => old.task \in done
      /\ \A c \in Commands : old.phase[c] \in {"applied", "completed"} => c \in done
  BY TurnTyped DEF Remembers
<1>9. Settled(t, success) \in [Commands -> Phases]
  <2>1. {"completed", "failed"} \subseteq Phases
    BY DEF Phases
  <2> QED BY <1>1, <2>1 DEF Settled
<1> PICK phases \in [Commands -> Phases] :
       /\ phases = Settled(t, success)
       /\ \A c \in Commands : phases[c] = IF old.phase[c] \in Unfinished
                                          THEN (IF success /\ old.phase[c] = "applied"
                                                THEN "completed" ELSE "failed")
                                          ELSE old.phase[c]
  BY <1>9 DEF Settled
<1>4. /\ turn' = [turn EXCEPT ![t].state = state, ![t].phase = phases]
      /\ \E queue \in InOrder({c \in Commands : turn[t].phase[c] \in Unfinished}) :
            Post([i \in DOMAIN queue |-> Status(queue[i], turn[t], phases[queue[i]])])
  BY DEF SettleTurn
<1> PICK new \in TurnRecords : new = [old EXCEPT !.state = state, !.phase = phases]
  BY DEF TurnRecords
<1>5. /\ turn' = [turn EXCEPT ![t] = new]
      /\ new.task = old.task /\ new.phase = phases
  BY <1>4 DEF IInv, WorkerTyped, TurnRecords
<1>6. \A c \in Commands : phases[c] \in {"applied", "completed"} => c \in done
  BY <1>3
<1>7. turn' \in [Turns -> TurnRecords] /\ TurnsRemember'
  <2>1. Remembers(new)'
    BY <1>2, <1>3, <1>5, <1>6 DEF Remembers
  <2>2. \A c : CarriedOut(c) => CarriedOut(c)'
    BY DEF CarriedOut
  <2> QED BY <1>5, <2>1, <2>2, OneTurn
<1>8. \E messages \in Seq(TrueReports') : Post(messages)
  <2> DEFINE taken == {c \in Commands : old.phase[c] \in Unfinished}
  <2> PICK queue \in InOrder(taken) :
         Post([i \in DOMAIN queue |-> Status(queue[i], old, phases[queue[i]])])
    BY <1>4
  <2>1. /\ DOMAIN queue = 1 .. Len(queue) /\ Len(queue) \in Nat
        /\ \A i \in DOMAIN queue : queue[i] \in taken
    BY InOrderSeq
  <2>2. ASSUME NEW i \in DOMAIN queue
        PROVE  Status(queue[i], old, phases[queue[i]]) \in TrueReports'
    <3>1. queue[i] \in taken /\ queue[i] \in Commands
      BY <2>1
    <3>2. phases[queue[i]] \in {"completed", "failed"}
      BY <3>1
    <3>3. phases[queue[i]] = "completed" => CarriedOut(queue[i])'
      BY <1>2, <1>6, <3>1
    <3> QED BY <1>1, <3>1, <3>2, <3>3, StatusIsTrue DEF Answers
  <2>3. [i \in DOMAIN queue |-> Status(queue[i], old, phases[queue[i]])] \in Seq(TrueReports')
    BY <2>1, <2>2
  <2> QED BY <2>3
<1> QED BY <1>7, <1>8

LEMMA CloseInv ==
    ASSUME IInv, ReceiveInterrupt \/ \E t \in Turns : CloseTurn(t)
    PROVE  IInv'
<1>1. UNCHANGED <<RunAndRows, prompt, ran>>
  BY DEF ReceiveInterrupt, CloseTurn, RunAndRows
<1>2. prompt' \in 0 .. MaxTurns
  BY <1>1 DEF IInv, WorkerTyped
<1>3. {"interrupted", "succeeded", "failed"} \subseteq TurnStates
  BY DEF TurnStates
<1>4. ASSUME ReceiveInterrupt PROVE IInv'
  <2>1. connected /\ toWorker' = Tail(toWorker) /\ Tail(toWorker) \in Seq(Orders)
    BY <1>4, FirstOrder DEF ReceiveInterrupt
  <2>2. CASE prompt # 0 /\ SettleTurn(prompt, "interrupted", FALSE)
    BY <1>1, <1>2, <1>3, <2>1, <2>2, PromptTyped, SettleInv, WorkerStep
  <2>3. CASE UNCHANGED <<turn, toManager>>
    <3>1. turn' \in [Turns -> TurnRecords] /\ TurnsRemember'
      BY <1>1, <2>3, WorkerStays DEF IInv, WorkerTyped
    <3> QED BY <1>1, <1>2, <2>1, <2>3, <3>1, WorkerStep
  <2> QED BY <1>4, <2>2, <2>3 DEF ReceiveInterrupt
<1>5. ASSUME NEW t \in Turns, CloseTurn(t) PROVE IInv'
  <2>1. UNCHANGED toWorker
    BY <1>5 DEF CloseTurn
  <2>2. SettleTurn(t, "succeeded", TRUE) \/ SettleTurn(t, "failed", FALSE)
    BY <1>5 DEF CloseTurn
  <2>3. /\ turn' \in [Turns -> TurnRecords] /\ TurnsRemember'
        /\ \E messages \in Seq(TrueReports') : Post(messages)
    BY <1>1, <1>3, <2>2, SettleInv
  <2> QED BY <1>1, <1>2, <2>1, <2>3, WorkerStep
<1> QED BY <1>4, <1>5

LEMMA FinishInv ==
    ASSUME IInv, NEW t \in Turns, FinishTurn(t)
    PROVE  IInv'
<1> PICK old \in TurnRecords : old = turn[t]
  BY TurnTyped
<1> PICK m : m = [kind |-> IF old.state = "succeeded" THEN "handoff" ELSE "error",
                  what |-> "none", round |-> old.round, gen |-> old.gen, task |-> old.task]
  OBVIOUS
<1>1. UNCHANGED <<RunAndRows, ran, toWorker>>
  BY DEF FinishTurn, RunAndRows
<1>2. \A c : CarriedOut(c) => CarriedOut(c)'
  BY <1>1 DEF CarriedOut
<1>3. <<m>> \in Seq(TrueReports')
  <2>1. m \in Reports
    BY DEF TurnRecords, Reports, Answers
  <2>2. old.task \in Commands => CarriedOut(old.task)'
    BY <1>2, TurnTyped DEF Remembers
  <2>3. Truthful(m)'
    BY <2>2 DEF Truthful
  <2> QED BY <2>1, <2>3 DEF TrueReports
<1>4. Post(<<m>>)
  BY DEF FinishTurn
<1>5. turn' \in [Turns -> TurnRecords] /\ TurnsRemember'
  <2>1. NoTurn \in TurnRecords /\ Remembers(NoTurn)'
    BY CommandNumbers DEF NoTurn, TurnRecords, TurnStates, Phases, Remembers
  <2>2. turn' = [turn EXCEPT ![t] = NoTurn]
    BY DEF FinishTurn
  <2> QED BY <1>2, <2>1, <2>2, OneTurn
<1>6. prompt' \in 0 .. MaxTurns
  BY BoundsAssumption DEF FinishTurn, IInv, WorkerTyped
<1> QED BY <1>1, <1>3, <1>4, <1>5, <1>6, WorkerStep

-----------------------------------------------------------------------------
(* What the Manager hears is true.                                         *)

LEMMA FirstReport ==
    ASSUME IInv, NEW kind, FromWorker(kind)
    PROVE  /\ toManager[1] \in TrueReports /\ toManager[1].kind = kind
           /\ Tail(toManager) \in Seq(TrueReports)
           /\ connected
<1>1. toManager \in Seq(TrueReports) /\ toManager # <<>>
  BY DEF IInv, ChannelsTyped, FromWorker
<1> QED BY <1>1 DEF IInv, ChannelsTyped, FromWorker

LEMMA HearingStays ==
    ASSUME IInv, connected, toManager' = Tail(toManager), Tail(toManager) \in Seq(TrueReports),
           UNCHANGED <<target, connected, greeted, setting, workerVars, toWorker>>
    PROVE  WorkerTyped' /\ ChannelsTyped' /\ TurnsRemember' /\ UNCHANGED <<turn, prompt, ran>>
<1>1. UNCHANGED <<steerable, targeting, turn, prompt, ran>>
  BY DEF setting, workerVars
<1>2. WorkerTyped'
  BY <1>1, Zenon DEF IInv, WorkerTyped
<1>3. ChannelsTyped'
  BY <1>1, WorkerStays DEF IInv, ChannelsTyped
<1> QED BY <1>1, <1>2, <1>3, WorkerStays

LEMMA TransitionRow ==
    ASSUME NEW status \in (Outstanding \ {"queued"}) \cup Ended,
           NEW row \in [status : {"none"} \cup Outstanding \cup Ended, round : 0 .. MaxRounds]
    PROVE  /\ Transition(row, status) \in
                  [status : {"none"} \cup Outstanding \cup Ended, round : 0 .. MaxRounds]
           /\ Transition(row, status).status = "completed" =>
                 row.status = "completed" \/ status = "completed"
BY DEF Transition, Outstanding, Ended

LEMMA ReceiveStatusInv ==
    ASSUME IInv, ReceiveStatus
    PROVE  IInv'
<1>1. /\ \E x \in TrueReports : x = toManager[1] /\ x.kind = "status"
      /\ Tail(toManager) \in Seq(TrueReports) /\ connected
  BY FirstReport DEF ReceiveStatus
<1> PICK m \in TrueReports : m = toManager[1] /\ m.kind = "status"
  BY <1>1
<1>2. /\ m.task \in Commands /\ m.what \in Answers
      /\ m.what = "completed" => CarriedOut(m.task)
  BY DEF TrueReports, Truthful, Reports
<1>3. WorkerTyped' /\ ChannelsTyped' /\ TurnsRemember' /\ UNCHANGED <<turn, prompt, ran>>
  BY <1>1, HearingStays DEF ReceiveStatus
<1>4. RunTyped'
  BY DEF ReceiveStatus, IInv, RunTyped, runVars
<1>5. live \in [Commands -> [status : {"none"} \cup Outstanding \cup Ended,
                             round : 0 .. MaxRounds]] /\ UNCHANGED link
  BY DEF ReceiveStatus, IInv, RowsTyped
<1>6. CASE live' = live
  BY <1>3, <1>4, <1>5, <1>6, NothingCompleted DEF IInv, RowsTyped
<1>7. CASE m.what # "unsupported"
           /\ live' = [live EXCEPT ![m.task] = Transition(@, RowStatus(m.what))]
  <2>1. /\ RowStatus(m.what) \in (Outstanding \ {"queued"}) \cup Ended
        /\ RowStatus(m.what) = "completed" => m.what = "completed"
    BY <1>2, <1>7 DEF RowStatus, Answers, Outstanding, Ended
  <2>2. PICK row : row = Transition(live[m.task], RowStatus(m.what))
    OBVIOUS
  <2>3. /\ row \in [status : {"none"} \cup Outstanding \cup Ended, round : 0 .. MaxRounds]
        /\ row.status = "completed" =>
              live[m.task].status = "completed" \/ m.what = "completed"
    BY <1>2, <1>5, <2>1, <2>2, TransitionRow
  <2>4. live' = [live EXCEPT ![m.task] = row]
    BY <1>7, <2>2
  <2>5. RowsTyped'
    BY <1>2, <1>5, <2>3, <2>4 DEF IInv, RowsTyped
  <2>6. CompletedWasCarriedOut'
    BY <1>2, <1>3, <1>5, <2>3, <2>4 DEF IInv, CompletedWasCarriedOut, CarriedOut
  <2> QED BY <1>3, <1>4, <2>5, <2>6 DEF IInv
<1> QED BY <1>6, <1>7 DEF ReceiveStatus

LEMMA ReceiveHandoffInv ==
    ASSUME IInv, ReceiveHandoff \/ ReceiveError
    PROVE  IInv'
<1>1. /\ \E x \in TrueReports : x = toManager[1] /\ x.kind \in {"handoff", "error"}
      /\ Tail(toManager) \in Seq(TrueReports) /\ connected
  BY FirstReport DEF ReceiveHandoff, ReceiveError
<1> PICK m \in TrueReports : m = toManager[1] /\ m.kind \in {"handoff", "error"}
  BY <1>1
<1>2. WorkerTyped' /\ ChannelsTyped' /\ TurnsRemember' /\ UNCHANGED <<turn, prompt, ran>>
  BY <1>1, HearingStays DEF ReceiveHandoff, ReceiveError
<1>3. RunTyped'
  BY DEF ReceiveHandoff, ReceiveError, IInv, RunTyped
<1>4. /\ live \in [Commands -> [status : {"none"} \cup Outstanding \cup Ended,
                                round : 0 .. MaxRounds]]
      /\ link \in [Commands -> {"none", "pending", "acknowledged", "cancelled"}]
  BY DEF IInv, RowsTyped
<1>5. CASE UNCHANGED <<live, link>>
  BY <1>2, <1>3, <1>4, <1>5, NothingCompleted DEF IInv, RowsTyped
<1>6. CASE /\ ReceiveHandoff /\ m.task \in Commands
           /\ link' = [link EXCEPT ![m.task] = "acknowledged"]
           /\ live' = [live EXCEPT ![m.task] = Transition(@, "completed")]
  <2>1. m.kind = "handoff"
    BY <1>6 DEF ReceiveHandoff, FromWorker
  <2>2. CarriedOut(m.task)
    BY <1>6, <2>1 DEF TrueReports, Truthful
  <2>3. PICK row : row = Transition(live[m.task], "completed")
    OBVIOUS
  <2>4. row \in [status : {"none"} \cup Outstanding \cup Ended, round : 0 .. MaxRounds]
    BY <1>4, <1>6, <2>3, TransitionRow DEF Ended
  <2>5. live' = [live EXCEPT ![m.task] = row]
    BY <1>6, <2>3
  <2>6. RowsTyped'
    BY <1>4, <1>6, <2>4, <2>5 DEF RowsTyped
  <2>7. CompletedWasCarriedOut'
    BY <1>2, <1>4, <1>6, <2>2, <2>5 DEF IInv, CompletedWasCarriedOut, CarriedOut
  <2> QED BY <1>2, <1>3, <2>6, <2>7 DEF IInv
<1> QED BY <1>5, <1>6 DEF ReceiveHandoff, ReceiveError

-----------------------------------------------------------------------------
LEMMA Step == IInv /\ [Next]_vars => IInv'
<1> SUFFICES ASSUME IInv, [Next]_vars PROVE IInv'
  OBVIOUS
<1>1. CASE UNCHANGED vars
  <2>1. /\ UNCHANGED RunAndRows
        /\ UNCHANGED <<turn, prompt, ran, toWorker, toManager>>
    BY <1>1 DEF vars, runVars, workerVars, RunAndRows
  <2>2. turn' \in [Turns -> TurnRecords] /\ TurnsRemember' /\ prompt' \in 0 .. MaxTurns
    BY <2>1, WorkerStays DEF IInv, WorkerTyped
  <2> QED BY <2>1, <2>2, WorkerStep
<1>2. ASSUME NEW c \in Commands, SendLiveCommand(c) \/ Resend(c) PROVE IInv'
  BY <1>2, SendInv
<1>3. ASSUME NEW t \in Turns, TurnStep(t) PROVE IInv'
  BY <1>3, ReceivePromptInv, CloseInv, FinishInv, SteerInv DEF TurnStep
<1>4. CASE Receive
  BY <1>4, ReceiveCommandInv, CloseInv, ReceiveStatusInv, ReceiveHandoffInv DEF Receive
<1>5. CASE Proceed
  BY <1>5, DispatchInv, BoundaryInv, EndRunInv DEF Proceed, CompleteRun
<1>6. CASE Connect
  BY <1>6, ConnectionInv, FirstWorkerInv DEF Connect
<1>7. CASE Resume \/ ResumeOthers \/ EndRun \/ Retry \/ Stop \/ Disconnect \/ Restart
  BY <1>7, BoundaryInv, EndRunInv, AdvanceInv, ConnectionInv
<1> QED BY <1>1, <1>2, <1>3, <1>4, <1>5, <1>6, <1>7 DEF Next

THEOREM Invariant == Spec => []IInv
<1> QED BY InitInv, Step, PTL DEF Spec

(* Runs, rows, turns and channels keep their types.                        *)
THEOREM TypeCorrect == Spec => []TypeOK
<1>1. IInv => TypeOK
  <2> SUFFICES ASSUME IInv PROVE TypeOK
    OBVIOUS
  <2>1. \A t \in Turns :
           turn[t].state \in {"none", "open", "interrupted", "succeeded", "failed"}
    BY DEF IInv, WorkerTyped, TurnRecords, TurnStates
  <2>2. \A i \in DOMAIN toWorker : toWorker[i].kind \in Kinds
    BY DEF IInv, ChannelsTyped, Orders, Kinds
  <2>3. \A i \in DOMAIN toManager : toManager[i].kind \in Kinds
    BY DEF IInv, ChannelsTyped, TrueReports, Reports, Kinds
  <2>4. \A i \in DOMAIN ran : ran[i] \in Commands
    BY DEF IInv, WorkerTyped
  <2>5. {target, connected, greeted, steerable} \subseteq BOOLEAN /\ targeting \in Targetings
    BY Zenon DEF IInv, WorkerTyped
  <2>6. prompt \in 0 .. MaxTurns
    BY DEF IInv, WorkerTyped
  <2> QED BY <2>1, <2>2, <2>3, <2>4, <2>5, <2>6, Zenon
          DEF IInv, RunTyped, RowsTyped, ChannelsTyped, TypeOK
<1> QED BY <1>1, Invariant, PTL

(* Whatever is lost, delayed or repeated, a live command that is recorded  *)
(* as completed was carried out by a turn.                                 *)
THEOREM CompletedMeansDone == Spec => []CompletedWasCarriedOut
<1>1. IInv => CompletedWasCarriedOut
  BY DEF IInv
<1> QED BY <1>1, Invariant, PTL

-----------------------------------------------------------------------------
(* No live command is carried out twice while nothing is lost.  A turn is  *)
(* named by its round and generation; it is at first a prompt, then a turn *)
(* of the Worker and at last a handoff or an error, and only one of them.  *)

Of(m) == <<m.round, m.gen>>
Now   == <<round, gen>>

Prompts   == {i \in DOMAIN toWorker : toWorker[i].kind = "prompt"}
Steers(c) == {i \in DOMAIN toWorker : toWorker[i].kind = "steer" /\ toWorker[i].task = c}
Busy      == {t \in Turns : turn[t].state # "none"}
Ends      == {i \in DOMAIN toManager : toManager[i].kind \in {"handoff", "error"}}

Prompted   == {Of(toWorker[i]) : i \in Prompts}
Steered(c) == {Of(toWorker[i]) : i \in Steers(c)}
Working    == {Of(turn[t]) : t \in Busy}
Ending     == {Of(toManager[i]) : i \in Ends}

(* The turns that may yet carry a command out.                             *)
Awaits(c, t) == \/ turn[t].phase[c] \in {"queued", "sending"}
                \/ turn[t].phase[c] = "none" /\ Of(turn[t]) \in Steered(c)
Due(c) == (Prompted \cap Steered(c)) \cup {Of(turn[t]) : t \in {s \in Busy : Awaits(c, s)}}

(* A command of a round whose turn has not been opened yet.                *)
Pending(c) == \/ task = c /\ node = "READY"
              \/ \E i \in Prompts : toWorker[i].task = c

(* While nothing is lost the Worker is there and knows of its turns.       *)
Undisturbed ==
    /\ connected /\ greeted
    /\ node = "RUNNING" => target
    /\ run = "waiting" => node \in {"COMPLETED", "FAILED"}
    /\ run = "ended" => \A c \in Commands : live[c].status # "queued"
    /\ prompt # 0 => prompt \in Busy
    /\ \A t \in Turns \ Busy : \A c \in Commands : turn[t].phase[c] = "none"

OneOfEach ==
    /\ \A i, j \in Prompts : Of(toWorker[i]) = Of(toWorker[j]) => i = j
    /\ \A s, t \in Busy : Of(turn[s]) = Of(turn[t]) => s = t
    /\ \A i, j \in Ends : Of(toManager[i]) = Of(toManager[j]) => i = j
    /\ Prompted \cap Working = {} /\ Prompted \cap Ending = {} /\ Working \cap Ending = {}

(* What is under way is of the current round, or of an old generation.     *)
AtWork(k) == k[2] < gen \/ (k = Now /\ node = "RUNNING")
Sent(k)   == k[2] < gen \/ k[1] < round \/ (k = Now /\ node # "READY")

UpToDate == /\ \A k \in Prompted \cup Working \cup Ending : AtWork(k)
            /\ \A c \in Commands : \A k \in Steered(c) : Sent(k)

(* A command that could still be sent or fall back is due nowhere but in   *)
(* the current turn, one that was not stored or became a round's nowhere.  *)
WhereDue ==
    \A c \in Commands :
        /\ Sendable(c, live, link) => /\ Due(c) \subseteq {Now}
                                      /\ Due(c) # {} => live[c].round = round
        /\ live[c].status = "none" => Due(c) = {} /\ ~CarriedOut(c) /\ link[c] = "none"
        /\ Pending(c) => Due(c) = {} /\ ~CarriedOut(c) /\ link[c] # "none"
        /\ CarriedOut(c) => Due(c) = {}
        /\ \A k, l \in Due(c) : k = l

OnePending ==
    \A c \in Commands :
        /\ \A i, j \in Prompts : toWorker[i].task = c /\ toWorker[j].task = c => i = j
        /\ task = c /\ node = "READY" => \A i \in Prompts : toWorker[i].task # c

(* The Manager will hear of the command before it hears that the turn is   *)
(* over, and then the command is no longer sent.                           *)
News(c) ==
    /\ run = "active" /\ node = "RUNNING" /\ live[c].round = round
    /\ \E i \in DOMAIN toManager :
          /\ toManager[i].kind = "status" /\ toManager[i].task = c
          /\ Of(toManager[i]) = Now /\ toManager[i].what # "unsupported"
          /\ \A j \in Ends : Of(toManager[j]) = Now => i < j

Heard ==
    \A c \in Commands : Sendable(c, live, link) =>
        /\ (\E t \in Busy : turn[t].phase[c] = "sending") => News(c)
        /\ CarriedOut(c) => /\ News(c)
                            /\ Now \notin Prompted
                            /\ \A t \in Busy : Of(turn[t]) = Now => turn[t].phase[c] # "none"

NoRepeat == \A i, j \in DOMAIN ran : ran[i] = ran[j] => i = j

Faults == restarts \in Nat /\ disconnects \in Nat

Calm == Undisturbed /\ OneOfEach /\ UpToDate /\ WhereDue /\ OnePending /\ Heard /\ NoRepeat

OnceInv == IInv /\ Faults /\ (Lossless => Calm)

-----------------------------------------------------------------------------
LEMMA ChannelsAreSeqs ==
    ASSUME IInv
    PROVE  /\ toWorker \in Seq(Orders) /\ toManager \in Seq(TrueReports)
           /\ turn \in [Turns -> TurnRecords] /\ ran \in Seq(Commands)
BY DEF IInv, ChannelsTyped, WorkerTyped

LEMMA DueIsCarried == \A c : Due(c) \subseteq Prompted \cup Working
BY DEF Due, Working

(* What the rest of a channel holds, and what it holds after an append.    *)
LEMMA TailHolds ==
    ASSUME NEW S, NEW s \in Seq(S), s # <<>>
    PROVE  /\ Tail(s) \in Seq(S) /\ 1 \in DOMAIN s
           /\ \A i \in DOMAIN Tail(s) : i \in Nat /\ i + 1 \in DOMAIN s
                                        /\ Tail(s)[i] = s[i + 1] /\ i + 1 # 1
           /\ \A i \in DOMAIN s : i # 1 => i - 1 \in DOMAIN Tail(s) /\ Tail(s)[i - 1] = s[i]
                                           /\ i \in Nat
OBVIOUS

LEMMA AppendHolds ==
    ASSUME NEW S, NEW s \in Seq(S), NEW m \in S
    PROVE  /\ Append(s, m) \in Seq(S)
           /\ DOMAIN Append(s, m) = DOMAIN s \cup {Len(s) + 1}
           /\ Len(s) + 1 \notin DOMAIN s
           /\ \A i \in DOMAIN s : Append(s, m)[i] = s[i] /\ i \in Nat /\ i < Len(s) + 1
           /\ Append(s, m)[Len(s) + 1] = m
OBVIOUS

LEMMA JoinHolds ==
    ASSUME NEW S, NEW s \in Seq(S), NEW t \in Seq(S)
    PROVE  /\ s \o t \in Seq(S)
           /\ \A i \in DOMAIN s : i \in DOMAIN (s \o t) /\ (s \o t)[i] = s[i] /\ i \in Nat
           /\ \A i \in DOMAIN (s \o t) : i \notin DOMAIN s =>
                 /\ i - Len(s) \in DOMAIN t /\ (s \o t)[i] = t[i - Len(s)]
                 /\ i \in Nat /\ \A j \in DOMAIN s : j < i
OBVIOUS

(* Taking the first message of a channel moves the others up.              *)
LEMMA PopWorker ==
    ASSUME IInv, toWorker # <<>>, toWorker' = Tail(toWorker)
    PROVE  /\ \A i \in Prompts' : i \in Nat /\ i + 1 \in Prompts /\ i + 1 # 1
                                  /\ toWorker'[i] = toWorker[i + 1]
           /\ Prompted' \subseteq Prompted
           /\ \A c : Steered(c)' \subseteq Steered(c)
<1>1. \A i \in DOMAIN toWorker' : i \in Nat /\ i + 1 \in DOMAIN toWorker /\ i + 1 # 1
                                  /\ toWorker'[i] = toWorker[i + 1]
  BY ChannelsAreSeqs, TailHolds
<1>2. \A i \in Prompts' : i \in Nat /\ i + 1 \in Prompts /\ i + 1 # 1
                          /\ toWorker'[i] = toWorker[i + 1]
  BY <1>1 DEF Prompts
<1>3. Prompted' \subseteq Prompted
  BY <1>2 DEF Prompted, Of
<1>4. \A c : Steered(c)' \subseteq Steered(c)
  BY <1>1 DEF Steered, Steers, Of
<1> QED BY <1>2, <1>3, <1>4

LEMMA PopManager ==
    ASSUME IInv, toManager # <<>>, toManager' = Tail(toManager)
    PROVE  /\ \A i \in Ends' : i \in Nat /\ i + 1 \in Ends /\ i + 1 # 1
                               /\ toManager'[i] = toManager[i + 1]
           /\ \A i \in DOMAIN toManager : i # 1 => i \in Nat /\ i - 1 \in DOMAIN toManager'
                                                   /\ toManager'[i - 1] = toManager[i]
           /\ Ending' \subseteq Ending
<1>1. \A i \in DOMAIN toManager' : i \in Nat /\ i + 1 \in DOMAIN toManager /\ i + 1 # 1
                                   /\ toManager'[i] = toManager[i + 1]
  BY ChannelsAreSeqs, TailHolds
<1>2. \A i \in Ends' : i \in Nat /\ i + 1 \in Ends /\ i + 1 # 1
                       /\ toManager'[i] = toManager[i + 1]
  BY <1>1 DEF Ends
<1>3. Ending' \subseteq Ending
  BY <1>2 DEF Ending, Of
<1>4. \A i \in DOMAIN toManager : i # 1 => i \in Nat /\ i - 1 \in DOMAIN toManager'
                                           /\ toManager'[i - 1] = toManager[i]
  BY ChannelsAreSeqs, TailHolds
<1> QED BY <1>2, <1>3, <1>4

(* What is posted while the Worker is connected comes after what was.      *)
LEMMA PostCalm ==
    ASSUME IInv, connected, NEW messages \in Seq(Reports), Post(messages),
           \A i \in DOMAIN messages : messages[i].kind = "status"
    PROVE  /\ \A i \in DOMAIN toManager : i \in DOMAIN toManager' /\ toManager'[i] = toManager[i]
           /\ Ends' = Ends /\ Ending' = Ending
<1>1. toManager \in Seq(Reports) /\ toManager' = toManager \o messages
  BY ChannelsAreSeqs DEF Post, TrueReports
<1>2. /\ \A i \in DOMAIN toManager : i \in DOMAIN toManager' /\ toManager'[i] = toManager[i]
      /\ \A i \in DOMAIN toManager' : i \notin DOMAIN toManager =>
            i - Len(toManager) \in DOMAIN messages
            /\ toManager'[i] = messages[i - Len(toManager)]
  BY <1>1, JoinHolds
<1>3. Ends' = Ends
  BY <1>2 DEF Ends
<1>4. Ending' = Ending
  BY <1>2, <1>3 DEF Ending, Of, Ends
<1> QED BY <1>2, <1>3, <1>4

-----------------------------------------------------------------------------
(* The Worker at work: no turn appears and a command becomes due nowhere.  *)

LEMMA WorkerKeeps ==
    ASSUME UpToDate, WhereDue, UNCHANGED RunAndRows,
           \A c \in Commands : Due(c)' \subseteq Due(c),
           Prompted' \cup Working' \cup Ending' \subseteq Prompted \cup Working \cup Ending,
           \A c \in Commands : Steered(c)' \subseteq Steered(c),
           \A i \in Prompts' : \E j \in Prompts : toWorker'[i].task = toWorker[j].task,
           \A c \in Commands : CarriedOut(c)' =>
               \/ CarriedOut(c)
               \/ Due(c)' = {} /\ ~Pending(c)' /\ live[c].status # "none"
    PROVE  UpToDate' /\ WhereDue'
<1>1. UNCHANGED <<run, round, node, gen, task, live, link>>
  BY DEF RunAndRows, runVars
<1>2. UpToDate'
  BY <1>1 DEF UpToDate, AtWork, Sent, Now
<1>3. \A c \in Commands : Pending(c)' => Pending(c)
  BY <1>1 DEF Pending
<1>4. \A c \in Commands : Sendable(c, live, link)' => Sendable(c, live, link)
  BY <1>1 DEF Sendable
<1>5. ASSUME NEW c \in Commands
      PROVE  /\ Sendable(c, live, link)' => /\ Due(c)' \subseteq {Now'}
                                            /\ Due(c)' # {} => live'[c].round = round'
             /\ live'[c].status = "none" => Due(c)' = {} /\ ~CarriedOut(c)' /\ link'[c] = "none"
             /\ Pending(c)' => Due(c)' = {} /\ ~CarriedOut(c)' /\ link'[c] # "none"
             /\ CarriedOut(c)' => Due(c)' = {}
             /\ \A k, l \in Due(c)' : k = l
  <2>1. /\ Sendable(c, live, link) => /\ Due(c) \subseteq {Now}
                                      /\ Due(c) # {} => live[c].round = round
        /\ live[c].status = "none" => Due(c) = {} /\ ~CarriedOut(c) /\ link[c] = "none"
        /\ Pending(c) => Due(c) = {} /\ ~CarriedOut(c) /\ link[c] # "none"
        /\ CarriedOut(c) => Due(c) = {}
        /\ \A k, l \in Due(c) : k = l
    BY DEF WhereDue
  <2>2. Due(c)' \subseteq Due(c)
    OBVIOUS
  <2>3. Now' = Now
    BY <1>1 DEF Now
  <2>4. \/ CarriedOut(c)' => CarriedOut(c)
        \/ Due(c)' = {} /\ ~Pending(c)' /\ live[c].status # "none"
    OBVIOUS
  <2> QED BY <1>1, <1>3, <1>4, <2>1, <2>2, <2>3, <2>4
<1> QED BY <1>2, <1>5 DEF WhereDue

(* What the Worker sends of a command does not make it less likely to be   *)
(* heard of.                                                               *)
LEMMA NewsStays ==
    ASSUME NEW c, News(c), UNCHANGED <<run, node, round, gen, live>>,
           \A i \in DOMAIN toManager : i \in DOMAIN toManager' /\ toManager'[i] = toManager[i],
           \A j \in Ends' : j \in Ends \/ \A i \in DOMAIN toManager : i < j
    PROVE  News(c)'
<1>1. PICK i \in DOMAIN toManager :
          /\ toManager[i].kind = "status" /\ toManager[i].task = c
          /\ Of(toManager[i]) = Now /\ toManager[i].what # "unsupported"
          /\ \A j \in Ends : Of(toManager[j]) = Now => i < j
  BY DEF News
<1>2. Now' = Now /\ i \in DOMAIN toManager' /\ toManager'[i] = toManager[i]
  BY DEF Now
<1>3. Of(toManager'[i]) = Of(toManager[i])
  BY <1>2
<1>4. \A j \in Ends' : Of(toManager'[j]) = Now => i < j
  <2> SUFFICES ASSUME NEW j \in Ends', Of(toManager'[j]) = Now PROVE i < j
    OBVIOUS
  <2>1. CASE j \in Ends
    <3>1. toManager'[j] = toManager[j]
      BY <2>1 DEF Ends
    <3>2. Of(toManager[j]) = Now
      BY <3>1 DEF Of
    <3> QED BY <1>1, <2>1, <3>2
  <2> QED BY <2>1
<1>5. run = "active" /\ node = "RUNNING" /\ live[c].round = round
  BY DEF News
<1>6. /\ toManager'[i].kind = "status" /\ toManager'[i].task = c
      /\ Of(toManager'[i]) = Now' /\ toManager'[i].what # "unsupported"
      /\ \A j \in Ends' : Of(toManager'[j]) = Now' => i < j
  BY <1>1, <1>2, <1>3, <1>4
<1>7. Of(toManager'[i]) = Of(toManager[i])' 
  BY <1>1, <1>2, <1>3, <1>6 DEF Of
<1> QED BY <1>2, <1>5, <1>6 DEF News, Of

TakesOne == toWorker' = toWorker \/ (toWorker # <<>> /\ toWorker' = Tail(toWorker))

LEMMA OrdersTaken ==
    ASSUME IInv, OneOfEach, OnePending, TakesOne, UNCHANGED <<node, task>>
    PROVE  /\ \A i, j \in Prompts' : Of(toWorker'[i]) = Of(toWorker'[j]) => i = j
           /\ OnePending'
           /\ Prompted' \subseteq Prompted
           /\ \A c : Steered(c)' \subseteq Steered(c)
           /\ \A i \in Prompts' : \E j \in Prompts : toWorker'[i].task = toWorker[j].task
<1>1. CASE toWorker' = toWorker
  <2>1. Prompts' = Prompts /\ Prompted' = Prompted /\ \A c : Steered(c)' = Steered(c)
    BY <1>1 DEF Prompts, Prompted, Steered, Steers, Of
  <2> QED BY <1>1, <2>1 DEF OneOfEach, OnePending
<1>2. CASE toWorker # <<>> /\ toWorker' = Tail(toWorker)
  <2>1. /\ \A i \in Prompts' : i \in Nat /\ i + 1 \in Prompts
                               /\ toWorker'[i] = toWorker[i + 1]
        /\ Prompted' \subseteq Prompted
        /\ \A c : Steered(c)' \subseteq Steered(c)
    BY <1>2, PopWorker
  <2>2. ASSUME NEW i \in Prompts', NEW j \in Prompts', Of(toWorker'[i]) = Of(toWorker'[j])
        PROVE  i = j
    <3>1. Of(toWorker[i + 1]) = Of(toWorker[j + 1])
      BY <2>1, <2>2
    <3>2. i + 1 = j + 1
      BY <2>1, <3>1 DEF OneOfEach
    <3> QED BY <2>1, <3>2
  <2>3. ASSUME NEW c \in Commands, NEW i \in Prompts', NEW j \in Prompts',
               toWorker'[i].task = c, toWorker'[j].task = c
        PROVE  i = j
    <3>1. i + 1 = j + 1
      BY <2>1, <2>3 DEF OnePending
    <3> QED BY <2>1, <3>1
  <2>4. ASSUME NEW c \in Commands, task' = c, node' = "READY", NEW i \in Prompts'
        PROVE  toWorker'[i].task # c
    BY <2>1, <2>4 DEF OnePending
  <2>5. OnePending'
    BY <2>3, <2>4 DEF OnePending
  <2> QED BY <2>1, <2>2, <2>5
<1> QED BY <1>1, <1>2 DEF TakesOne

LEMMA TurnGoesOn ==
    ASSUME IInv, Calm, UNCHANGED RunAndRows, UNCHANGED prompt, TakesOne,
           NEW t, \A s \in Turns : s # t => turn'[s] = turn[s],
           t \in Turns => t \in Busy /\ turn'[t].state # "none" /\ Of(turn'[t]) = Of(turn[t]),
           NEW messages \in Seq(Reports), Post(messages),
           \A i \in DOMAIN messages : messages[i].kind = "status",
           \A c \in Commands : Awaits(c, t)' => Awaits(c, t),
           \A c \in Commands : turn'[t].phase[c] = "none" => turn[t].phase[c] = "none",
           \A c \in Commands :
               turn'[t].phase[c] = "sending" /\ Sendable(c, live, link) =>
                   turn[t].phase[c] = "sending" \/ News(c)',
           \/ ran' = ran
           \/ \E c \in Commands : /\ t \in Busy /\ ran' = Append(ran, c)
                                  /\ turn[t].phase[c] = "sending" /\ ~Awaits(c, t)'
    PROVE  Calm'
<1>1. UNCHANGED <<run, round, node, gen, task, live, link, target, connected, greeted>>
  BY DEF RunAndRows, runVars
<1>2. ran \in Seq(Commands) /\ connected
  BY ChannelsAreSeqs DEF Calm, Undisturbed
<1>3. /\ Busy' = Busy
      /\ \A s \in Turns : Of(turn'[s]) = Of(turn[s])
      /\ Working' = Working
  <2>1. Busy' = Busy
    BY <1>2 DEF Busy
  <2>2. \A s \in Turns : Of(turn'[s]) = Of(turn[s])
    BY <1>2
  <2>3. Working' = Working
    BY <2>1, <2>2 DEF Working, Busy, Of
  <2> QED BY <2>1, <2>2, <2>3
<1>4. /\ \A i \in DOMAIN toManager : i \in DOMAIN toManager' /\ toManager'[i] = toManager[i]
      /\ Ends' = Ends /\ Ending' = Ending
  BY <1>2, PostCalm
<1>5. /\ \A i, j \in Prompts' : Of(toWorker'[i]) = Of(toWorker'[j]) => i = j
      /\ OnePending'
      /\ Prompted' \subseteq Prompted
      /\ \A c : Steered(c)' \subseteq Steered(c)
      /\ \A i \in Prompts' : \E j \in Prompts : toWorker'[i].task = toWorker[j].task
  BY <1>1, OrdersTaken DEF Calm
<1>6. \A c \in Commands : \A s \in Busy : Awaits(c, s)' => Awaits(c, s)
  <2> SUFFICES ASSUME NEW c \in Commands, NEW s \in Busy, s # t, Awaits(c, s)'
               PROVE  Awaits(c, s)
    OBVIOUS
  <2>1. turn'[s] = turn[s] /\ Steered(c)' \subseteq Steered(c)
    BY <1>5 DEF Busy
  <2> QED BY <2>1 DEF Awaits, Of
<1>7. \A c \in Commands : Due(c)' \subseteq Due(c)
  <2> SUFFICES ASSUME NEW c \in Commands, NEW k \in Due(c)' PROVE k \in Due(c)
    OBVIOUS
  <2>1. CASE k \in Prompted' \cap Steered(c)'
    BY <1>5, <2>1 DEF Due
  <2>2. ASSUME NEW s \in Busy', Awaits(c, s)', k = Of(turn'[s]) PROVE k \in Due(c)
    <3>1. s \in Busy /\ Awaits(c, s) /\ k = Of(turn[s])
      BY <1>3, <1>6, <2>2 DEF Busy
    <3> QED BY <3>1 DEF Due
  <2> QED BY <2>1, <2>2 DEF Due, Of
<1>8. ASSUME NEW c \in Commands, t \in Busy, ran' = Append(ran, c),
             turn[t].phase[c] = "sending", ~Awaits(c, t)'
      PROVE  ~CarriedOut(c) /\ Due(c)' = {} /\ ~Pending(c)' /\ live[c].status # "none"
  <2>1. Of(turn[t]) \in Due(c)
    BY <1>8 DEF Due, Awaits
  <2>2. Due(c) = {Of(turn[t])}
    BY <2>1 DEF Calm, WhereDue
  <2>3. ~CarriedOut(c) /\ ~Pending(c) /\ live[c].status # "none"
    BY <2>1 DEF Calm, WhereDue
  <2>4. ~Pending(c)'
    BY <1>1, <1>5, <2>3 DEF Pending
  <2>5. Of(turn[t]) \notin Due(c)'
    <3> SUFFICES ASSUME Of(turn[t]) \in Due(c)' PROVE FALSE
      OBVIOUS
    <3>1. Of(turn[t]) \in Working
      BY <1>8 DEF Working
    <3>2. Of(turn[t]) \notin Prompted'
      BY <1>5, <3>1 DEF Calm, OneOfEach
    <3>3. PICK s \in Busy' : Awaits(c, s)' /\ Of(turn[t]) = Of(turn'[s])
      BY <3>2 DEF Due, Of
    <3>4. s \in Busy /\ Of(turn[s]) = Of(turn[t])
      BY <1>3, <3>3 DEF Busy
    <3>5. s = t
      BY <1>8, <3>4 DEF Calm, OneOfEach
    <3> QED BY <1>8, <3>3, <3>5
  <2>6. Due(c)' = {}
    BY <1>7, <2>2, <2>5
  <2> QED BY <2>3, <2>4, <2>6
<1>9. ASSUME NEW c \in Commands, CarriedOut(c)'
      PROVE  \/ CarriedOut(c)
             \/ /\ Due(c)' = {} /\ ~Pending(c)' /\ live[c].status # "none"
                /\ t \in Busy /\ turn[t].phase[c] = "sending"
  <2>1. CASE ran' = ran
    BY <1>9, <2>1 DEF CarriedOut
  <2>2. ASSUME NEW d \in Commands, t \in Busy, ran' = Append(ran, d),
               turn[t].phase[d] = "sending", ~Awaits(d, t)'
        PROVE  \/ CarriedOut(c)
               \/ /\ Due(c)' = {} /\ ~Pending(c)' /\ live[c].status # "none"
                  /\ t \in Busy /\ turn[t].phase[c] = "sending"
    <3>1. c = d \/ CarriedOut(c)
      BY <1>2, <1>9, <2>2 DEF CarriedOut
    <3> QED BY <1>8, <2>2, <3>1
  <2> QED BY <2>1, <2>2
<1>10. UpToDate' /\ WhereDue'
  BY <1>3, <1>4, <1>5, <1>7, <1>9, WorkerKeeps DEF Calm
<1>11. Undisturbed'
  BY <1>1, <1>3 DEF Calm, Undisturbed, Busy
<1>12. OneOfEach'
  <2>1. \A s, u \in Busy' : Of(turn'[s]) = Of(turn'[u]) => s = u
    BY <1>3 DEF Calm, OneOfEach, Busy
  <2>2. \A i, j \in Ends' : Of(toManager'[i]) = Of(toManager'[j]) => i = j
    BY <1>4 DEF Calm, OneOfEach, Ends
  <2> QED BY <1>3, <1>4, <1>5, <2>1, <2>2 DEF Calm, OneOfEach, Of
<1>13. Heard'
  <2> SUFFICES ASSUME NEW c \in Commands, Sendable(c, live, link)
               PROVE  /\ (\E s \in Busy' : turn'[s].phase[c] = "sending") => News(c)'
                      /\ CarriedOut(c)' => /\ News(c)'
                                           /\ Now' \notin Prompted'
                                           /\ \A s \in Busy' : Of(turn'[s]) = Now'
                                                 => turn'[s].phase[c] # "none"
    BY <1>1 DEF Heard, Sendable, Of
  <2>1. News(c) => News(c)'
    BY <1>1, <1>4, NewsStays
  <2>2. /\ (\E s \in Busy : turn[s].phase[c] = "sending") => News(c)
        /\ CarriedOut(c) => /\ News(c)
                            /\ Now \notin Prompted
                            /\ \A s \in Busy : Of(turn[s]) = Now => turn[s].phase[c] # "none"
    BY DEF Calm, Heard
  <2>3. ASSUME NEW s \in Busy', turn'[s].phase[c] = "sending" PROVE News(c)'
    <3>1. CASE s = t
      BY <1>3, <2>1, <2>2, <2>3, <3>1
    <3>2. CASE s # t
      BY <1>3, <2>1, <2>2, <2>3, <3>2 DEF Busy
    <3> QED BY <3>1, <3>2
  <2>4. Now' = Now
    BY <1>1 DEF Now
  <2>5. CASE CarriedOut(c)
    <3>1. Now' \notin Prompted'
      BY <1>5, <2>2, <2>4, <2>5
    <3>2. ASSUME NEW s \in Busy', Of(turn'[s]) = Now' PROVE turn'[s].phase[c] # "none"
      <4>1. s \in Busy /\ s \in Turns /\ Of(turn[s]) = Now
        BY <1>3, <2>4, <3>2 DEF Busy
      <4> QED BY <2>2, <2>5, <4>1
    <3> QED BY <2>1, <2>2, <2>3, <2>5, <3>1, <3>2
  <2>6. CASE CarriedOut(c)' /\ ~CarriedOut(c)
    <3>1. t \in Busy /\ turn[t].phase[c] = "sending"
      BY <1>9, <2>6
    <3>2. Of(turn[t]) \in Due(c)
      BY <3>1 DEF Due, Awaits
    <3>3. Of(turn[t]) = Now
      BY <3>2 DEF Calm, WhereDue
    <3>4. Now' \notin Prompted'
      <4>1. Now \in Working
        BY <3>1, <3>3 DEF Working
      <4> QED BY <1>5, <2>4, <4>1 DEF Calm, OneOfEach
    <3>5. ASSUME NEW s \in Busy', Of(turn'[s]) = Now' PROVE turn'[s].phase[c] # "none"
      <4>1. s \in Busy /\ Of(turn[s]) = Of(turn[t])
        BY <1>3, <2>4, <3>3, <3>5 DEF Busy
      <4>2. s = t
        BY <3>1, <4>1 DEF Calm, OneOfEach
      <4> QED BY <3>1, <4>2
    <3> QED BY <2>1, <2>2, <2>3, <3>1, <3>4, <3>5
  <2> QED BY <2>3, <2>5, <2>6
<1>14. NoRepeat'
  <2>1. CASE ran' = ran
    BY <2>1 DEF Calm, NoRepeat
  <2>2. ASSUME NEW c \in Commands, ran' = Append(ran, c), ~CarriedOut(c) PROVE NoRepeat'
    <3>1. /\ DOMAIN ran' = DOMAIN ran \cup {Len(ran) + 1}
          /\ \A i \in DOMAIN ran : ran'[i] = ran[i] /\ ran[i] # c
          /\ ran'[Len(ran) + 1] = c
      BY <1>2, <2>2, AppendHolds DEF CarriedOut
    <3> QED BY <3>1 DEF Calm, NoRepeat
  <2> QED BY <1>8, <2>1, <2>2
<1> QED BY <1>5, <1>10, <1>11, <1>12, <1>13, <1>14 DEF Calm

LEMMA StatusIsReport ==
    ASSUME NEW c \in Commands, NEW m, m.round \in Nat, m.gen \in Nat, NEW what \in Answers
    PROVE  <<Status(c, m, what)>> \in Seq(Reports) /\ Status(c, m, what) \in Reports
BY CommandNumbers DEF Status, Reports, Answers

(* One phase of one turn changes.                                          *)
LEMMA PhaseChange ==
    ASSUME IInv, NEW t \in Turns, NEW c \in Commands, NEW phase \in Phases,
           turn[t].state # "none",
           turn' = [turn EXCEPT ![t].phase[c] = phase]
    PROVE  /\ t \in Busy
           /\ \A s \in Turns : s # t => turn'[s] = turn[s]
           /\ turn'[t].state = turn[t].state /\ turn'[t].state # "none"
           /\ Of(turn'[t]) = Of(turn[t])
           /\ \A d \in Commands : turn'[t].phase[d] = IF d = c THEN phase ELSE turn[t].phase[d]
<1>1. turn \in [Turns -> TurnRecords] /\ turn[t].phase \in [Commands -> Phases]
  BY TurnTyped DEF IInv, WorkerTyped
<1>2. turn[t] \in [state : TurnStates, round : Nat, gen : Nat, task : Tasks,
                   phase : [Commands -> Phases]]
  BY <1>1 DEF TurnRecords
<1> QED BY <1>1, <1>2 DEF Busy, Of

(* What a command that waits in a turn means for a row that could be sent. *)
LEMMA WaitsHere ==
    ASSUME IInv, Calm, NEW t \in Busy, NEW c \in Commands, Awaits(c, t),
           Sendable(c, live, link)
    PROVE  /\ Of(turn[t]) = Now /\ live[c].round = round
           /\ run = "active" /\ node = "RUNNING"
           /\ Now \notin Prompted /\ Now \notin Ending
<1>1. Of(turn[t]) \in Due(c)
  BY DEF Due
<1>2. Of(turn[t]) = Now /\ live[c].round = round
  BY <1>1 DEF Calm, WhereDue
<1>3. Now \in Working
  BY <1>2 DEF Working
<1>4. node = "RUNNING"
  <2>1. ~ (Now[2] < gen)
    BY DEF Now, IInv, RunTyped
  <2> QED BY <1>3, <2>1 DEF Calm, UpToDate, AtWork
<1>5. run = "active"
  BY <1>4 DEF Calm, Undisturbed, Sendable, IInv, RunTyped
<1> QED BY <1>2, <1>3, <1>4, <1>5 DEF Calm, OneOfEach

(* A status that is posted now is news.                                    *)
LEMMA PostedNews ==
    ASSUME IInv, Calm, NEW t \in Busy, NEW c \in Commands, Awaits(c, t),
           Sendable(c, live, link), NEW what \in Answers, what # "unsupported",
           Post(<<Status(c, turn[t], what)>>),
           UNCHANGED <<run, round, node, gen, live>>
    PROVE  News(c)'
<1>1. /\ Of(turn[t]) = Now /\ live[c].round = round
      /\ run = "active" /\ node = "RUNNING" /\ Now \notin Ending
  BY WaitsHere
<1> PICK m \in Reports : m = Status(c, turn[t], what)
  <2>1. t \in Turns /\ turn[t].round \in Nat /\ turn[t].gen \in Nat
    BY TurnTyped DEF Busy
  <2> QED BY <2>1, StatusIsReport
<1>2. toManager \in Seq(Reports) /\ toManager' = Append(toManager, m)
  <2>1. toManager \in Seq(Reports)
    BY ChannelsAreSeqs DEF TrueReports
  <2>2. toManager' = toManager \o <<m>>
    BY DEF Post, Calm, Undisturbed
  <2> QED BY <2>1, <2>2
<1>3. /\ m.kind = "status" /\ m.task = c /\ m.what = what /\ Of(m) = Now
  BY <1>1 DEF Status, Of
<1>4. /\ DOMAIN toManager' = DOMAIN toManager \cup {Len(toManager) + 1}
      /\ \A i \in DOMAIN toManager : toManager'[i] = toManager[i]
      /\ toManager'[Len(toManager) + 1] = m
  BY <1>2, AppendHolds
<1>5. \A j \in Ends' : Of(toManager'[j]) # Now
  <2> SUFFICES ASSUME NEW j \in Ends', Of(toManager'[j]) = Now PROVE FALSE
    OBVIOUS
  <2>1. j \in Ends /\ toManager'[j] = toManager[j]
    BY <1>3, <1>4 DEF Ends
  <2>2. Now \in Ending
    BY <2>1 DEF Ending, Of
  <2> QED BY <1>1, <2>2
<1>6. Now' = Now
  BY DEF Now
<1>7. Len(toManager) + 1 \in DOMAIN toManager'
  BY <1>4
<1> HIDE DEF Ends
<1>8. \E i \in DOMAIN toManager' :
          /\ toManager'[i].kind = "status" /\ toManager'[i].task = c
          /\ Of(toManager'[i]) = Now' /\ toManager'[i].what # "unsupported"
          /\ \A j \in Ends' : Of(toManager'[j]) = Now' => i < j
  BY <1>3, <1>4, <1>5, <1>6, <1>7
<1> QED BY <1>1, <1>8 DEF News, Of

LEMMA ProgressCalm ==
    ASSUME IInv, Calm, NEW t \in Turns, NEW c \in Commands, Steer(t, c) \/ Applied(t, c)
    PROVE  Calm'
<1>1. PICK phase \in {"sending", "applied", "failed"} :
          /\ Progress(t, c, phase)
          /\ turn[t].phase[c] \in {"queued", "sending"}
          /\ phase # "sending" => turn[t].phase[c] = "sending"
          /\ IF phase = "applied" THEN ran' = Append(ran, c) ELSE ran' = ran
  BY DEF Steer, Applied
<1>2. /\ turn[t].state # "none" /\ turn' = [turn EXCEPT ![t].phase[c] = phase]
      /\ Post(<<Status(c, turn[t], StatusOf(phase))>>)
      /\ UNCHANGED RunAndRows /\ UNCHANGED <<prompt, toWorker>>
  BY <1>1 DEF Progress, RunAndRows
<1>3. phase \in Phases /\ StatusOf(phase) \in Answers /\ StatusOf(phase) # "unsupported"
  BY DEF Phases, StatusOf, Answers
<1>4. /\ t \in Busy
      /\ \A s \in Turns : s # t => turn'[s] = turn[s]
      /\ turn'[t].state # "none" /\ Of(turn'[t]) = Of(turn[t])
      /\ \A d \in Commands : turn'[t].phase[d] = IF d = c THEN phase ELSE turn[t].phase[d]
  BY <1>2, <1>3, PhaseChange
<1>5. TakesOne /\ \A d : Steered(d)' = Steered(d)
  BY <1>2 DEF TakesOne, Steered, Steers, Of
<1>6. Awaits(c, t) /\ (phase # "sending" => ~Awaits(c, t)')
  BY <1>1, <1>4 DEF Awaits
<1>7. \A d \in Commands : Awaits(d, t)' => Awaits(d, t)
  BY <1>4, <1>5, <1>6 DEF Awaits
<1>8. \A d \in Commands : turn'[t].phase[d] = "none" => turn[t].phase[d] = "none"
  BY <1>4
<1>9. ASSUME NEW d \in Commands, turn'[t].phase[d] = "sending", Sendable(d, live, link)
      PROVE  turn[t].phase[d] = "sending" \/ News(d)'
  <2>1. CASE d = c
    <3>1. UNCHANGED <<run, round, node, gen, live>>
      BY <1>2 DEF RunAndRows, runVars
    <3> QED BY <1>2, <1>3, <1>4, <1>6, <1>9, <2>1, <3>1, PostedNews
  <2>2. CASE d # c
    BY <1>4, <1>9, <2>2
  <2> QED BY <2>1, <2>2
<1>10. \/ ran' = ran
       \/ \E d \in Commands : /\ t \in Busy /\ ran' = Append(ran, d)
                              /\ turn[t].phase[d] = "sending" /\ ~Awaits(d, t)'
  BY <1>1, <1>4, <1>6
<1> PICK messages \in Seq(Reports) :
       Post(messages) /\ \A i \in DOMAIN messages : messages[i].kind = "status"
  <2>1. <<Status(c, turn[t], StatusOf(phase))>> \in Seq(Reports)
    BY <1>3, TurnTyped, StatusIsReport
  <2> DEFINE m == Status(c, turn[t], StatusOf(phase))
  <2>2. m.kind = "status"
    BY DEF Status
  <2> HIDE DEF m
  <2>3. \A i \in DOMAIN <<m>> : <<m>>[i].kind = "status"
    BY <2>2
  <2> QED BY <1>2, <2>1, <2>3 DEF m
<1> QED BY <1>2, <1>4, <1>5, <1>7, <1>8, <1>9, <1>10, TurnGoesOn

LEMMA ReceiveCommandCalm ==
    ASSUME IInv, Calm, ReceiveCommand
    PROVE  Calm'
<1> PICK m \in Orders : m = toWorker[1] /\ m.kind = "steer"
  BY FirstOrder DEF ReceiveCommand
<1>1. m.task \in Commands /\ m.round \in Nat /\ m.gen \in Nat
  BY DEF Orders
<1> PICK c \in Commands : c = m.task
  BY <1>1
<1>2. /\ UNCHANGED RunAndRows /\ UNCHANGED <<prompt, ran>>
      /\ TakesOne
  BY DEF ReceiveCommand, FromManager, RunAndRows, TakesOne
<1>3. Of(m) \in Steered(c) /\ \A d : Steered(d)' \subseteq Steered(d)
  <2>1. 1 \in Steers(c)
    BY ChannelsAreSeqs DEF ReceiveCommand, FromManager, Steers
  <2> QED BY <1>2, <2>1, OrdersTaken DEF Steered, RunAndRows, runVars, Calm
<1>4. PICK phase \in Phases \ {"none"} :
         /\ Post(IF phase = "queued" THEN <<>> ELSE <<Status(c, m, StatusOf(phase))>>)
         /\ \/ UNCHANGED turn
            \/ /\ SamePrompt(m, prompt) /\ turn[prompt].phase[c] = "none"
               /\ turn' = [turn EXCEPT ![prompt].phase[c] = phase]
               /\ phase # "sending"
  <2>1. CASE ~SamePrompt(m, prompt) /\ UNCHANGED turn
             /\ Post(<<Status(c, m, StatusOf("rejected"))>>)
    <3>1. "rejected" \in Phases \ {"none"} /\ "rejected" # "queued"
      BY DEF Phases
    <3> QED BY <2>1, <3>1
  <2>2. CASE SamePrompt(m, prompt) /\ turn[prompt].phase[c] # "none" /\ UNCHANGED turn
             /\ Post(IF turn[prompt].phase[c] = "queued" THEN <<>>
                     ELSE <<Status(c, m, StatusOf(turn[prompt].phase[c]))>>)
    <3>1. prompt \in Turns
      BY <2>2, PromptTyped DEF SamePrompt
    <3>2. turn[prompt].phase[c] \in Phases \ {"none"}
      BY <2>2, <3>1, TurnTyped
    <3> QED BY <2>2, <3>2
  <2>3. CASE /\ SamePrompt(m, prompt) /\ turn[prompt].phase[c] = "none"
             /\ turn' = [turn EXCEPT ![prompt].phase[c] = PhaseOf(c, prompt)]
             /\ Post(IF PhaseOf(c, prompt) = "queued" THEN <<>>
                     ELSE <<Status(c, m, StatusOf(PhaseOf(c, prompt)))>>)
    <3>1. PhaseOf(c, prompt) \in Phases \ {"none"} /\ PhaseOf(c, prompt) # "sending"
      BY DEF PhaseOf, Phases
    <3> QED BY <2>3, <3>1
  <2>4. ReceiveCommand =>
          LET answer(phase) == Post(IF phase = "queued" THEN <<>>
                                    ELSE <<Status(c, m, StatusOf(phase))>>)
          IN  \/ ~SamePrompt(m, prompt) /\ answer("rejected") /\ UNCHANGED turn
              \/ /\ SamePrompt(m, prompt) /\ turn[prompt].phase[c] # "none"
                 /\ answer(turn[prompt].phase[c])
                 /\ UNCHANGED turn
              \/ /\ SamePrompt(m, prompt) /\ turn[prompt].phase[c] = "none"
                 /\ turn' = [turn EXCEPT ![prompt].phase[c] = PhaseOf(c, prompt)]
                 /\ answer(PhaseOf(c, prompt))
    BY Zenon DEF ReceiveCommand
  <2> QED BY <2>1, <2>2, <2>3, <2>4
<1> PICK messages \in Seq(Reports) :
       Post(messages) /\ \A i \in DOMAIN messages : messages[i].kind = "status"
  <2>1. CASE phase = "queued"
    <3>1. <<>> \in Seq(Reports) /\ \A i \in DOMAIN <<>> : <<>>[i].kind = "status"
      OBVIOUS
    <3> QED BY <1>4, <2>1, <3>1
  <2>2. CASE phase # "queued"
    <3> DEFINE s == Status(c, m, StatusOf(phase))
    <3>1. StatusOf(phase) \in Answers
      BY <2>2 DEF StatusOf, Phases, Answers
    <3>2. <<s>> \in Seq(Reports)
      BY <1>1, <3>1, StatusIsReport
    <3>3. s.kind = "status"
      BY DEF Status
    <3>4. Post(<<s>>)
      BY <1>4, <2>2
    <3> HIDE DEF s
    <3>5. \A i \in DOMAIN <<s>> : <<s>>[i].kind = "status"
      BY <3>3
    <3> QED BY <3>2, <3>4, <3>5
  <2> QED BY <2>1, <2>2
<1>5. CASE UNCHANGED turn
  <2>1. \A d \in Commands : Awaits(d, 0)' => Awaits(d, 0)
    BY <1>3, <1>5 DEF Awaits, Of
  <2>2. 0 \notin Turns
    BY BoundsAssumption DEF Turns
  <2> QED BY <1>2, <1>5, <2>1, <2>2, TurnGoesOn
<1>6. CASE /\ SamePrompt(m, prompt) /\ turn[prompt].phase[c] = "none"
           /\ turn' = [turn EXCEPT ![prompt].phase[c] = phase]
           /\ phase # "sending"
  <2>1. prompt \in Turns /\ prompt \in Busy /\ Of(turn[prompt]) = Of(m)
    BY <1>6, PromptTyped DEF SamePrompt, Calm, Undisturbed, Of
  <2>2. /\ \A s \in Turns : s # prompt => turn'[s] = turn[s]
        /\ turn'[prompt].state # "none"
        /\ Of(turn'[prompt]) = Of(turn[prompt])
        /\ \A d \in Commands : turn'[prompt].phase[d] = IF d = c THEN phase
                                                        ELSE turn[prompt].phase[d]
    BY <1>6, <2>1, PhaseChange DEF Busy
  <2>3. Awaits(c, prompt)
    BY <1>3, <1>6, <2>1 DEF Awaits
  <2>4. \A d \in Commands : turn'[prompt].phase[d] = "none" => turn[prompt].phase[d] = "none"
    BY <1>4, <2>2
  <2>5. \A d \in Commands :
           turn'[prompt].phase[d] = "sending" => turn[prompt].phase[d] = "sending"
    BY <1>6, <2>2
  <2> PICK p \in Busy : p = prompt
    BY <2>1
  <2>6. \A d \in Commands : Awaits(d, p)' => Awaits(d, p)
    <3> SUFFICES ASSUME NEW d \in Commands, d # c, Awaits(d, p)' PROVE Awaits(d, p)
      BY <2>3
    <3>1. turn'[p].phase[d] = turn[p].phase[d] /\ Of(turn'[p]) = Of(turn[p])
      BY <2>2
    <3> QED BY <1>3, <3>1 DEF Awaits, Of
  <2> QED BY <1>2, <2>1, <2>2, <2>4, <2>5, <2>6, TurnGoesOn
<1> QED BY <1>4, <1>5, <1>6

(* A turn that is settled awaits nothing more than the commands it has not *)
(* seen.                                                                   *)
LEMMA SettleCalm ==
    ASSUME IInv, Calm, NEW t \in Turns, turn[t].state # "none",
           NEW state \in TurnStates \ {"none"}, NEW success \in BOOLEAN,
           SettleTurn(t, state, success), UNCHANGED RunAndRows, UNCHANGED <<prompt, ran>>,
           TakesOne
    PROVE  Calm'
<1> PICK old \in TurnRecords : old = turn[t]
  BY TurnTyped
<1>1. /\ old.phase \in [Commands -> Phases] /\ old.round \in Nat /\ old.gen \in Nat
  BY DEF TurnRecords
<1>2. Settled(t, success) \in [Commands -> Phases]
  <2>1. {"completed", "failed"} \subseteq Phases
    BY DEF Phases
  <2> QED BY <1>1, <2>1 DEF Settled
<1> PICK phases \in [Commands -> Phases] :
       /\ phases = Settled(t, success)
       /\ \A c \in Commands : phases[c] = IF old.phase[c] \in Unfinished
                                          THEN (IF success /\ old.phase[c] = "applied"
                                                THEN "completed" ELSE "failed")
                                          ELSE old.phase[c]
  BY <1>2 DEF Settled
<1>3. /\ turn' = [turn EXCEPT ![t].state = state, ![t].phase = phases]
      /\ \E queue \in InOrder({c \in Commands : turn[t].phase[c] \in Unfinished}) :
            Post([i \in DOMAIN queue |-> Status(queue[i], turn[t], phases[queue[i]])])
  BY DEF SettleTurn
<1>4. /\ \A s \in Turns : s # t => turn'[s] = turn[s]
      /\ turn'[t].state = state /\ turn'[t].phase = phases
      /\ Of(turn'[t]) = Of(turn[t])
  BY <1>3 DEF IInv, WorkerTyped, TurnRecords, Of
<1>5. TakesOne /\ \A d : Steered(d)' \subseteq Steered(d)
  BY OrdersTaken DEF RunAndRows, runVars, Calm
<1>6. \A c \in Commands : /\ phases[c] # "sending" /\ phases[c] # "queued"
                          /\ phases[c] = "none" => old.phase[c] = "none"
  BY <1>1 DEF Unfinished
<1>7. \A c \in Commands : Awaits(c, t)' => Awaits(c, t)
  BY <1>4, <1>5, <1>6 DEF Awaits, Of
<1>8. t \in Busy
  BY DEF Busy
<1> PICK messages \in Seq(Reports) :
       Post(messages) /\ \A i \in DOMAIN messages : messages[i].kind = "status"
  <2> DEFINE taken == {c \in Commands : old.phase[c] \in Unfinished}
  <2> PICK queue \in InOrder(taken) :
         Post([i \in DOMAIN queue |-> Status(queue[i], old, phases[queue[i]])])
    BY <1>3
  <2>1. /\ DOMAIN queue = 1 .. Len(queue) /\ Len(queue) \in Nat
        /\ \A i \in DOMAIN queue : queue[i] \in taken
    BY InOrderSeq
  <2> DEFINE posted == [i \in DOMAIN queue |-> Status(queue[i], old, phases[queue[i]])]
  <2>2. ASSUME NEW i \in DOMAIN queue
        PROVE  /\ Status(queue[i], old, phases[queue[i]]) \in Reports
               /\ Status(queue[i], old, phases[queue[i]]).kind = "status"
    <3>1. queue[i] \in taken /\ queue[i] \in Commands
      BY <2>1
    <3>2. phases[queue[i]] \in Answers
      BY <3>1 DEF Answers
    <3>3. Status(queue[i], old, phases[queue[i]]) \in Reports
      BY <1>1, <3>1, <3>2, StatusIsReport
    <3> QED BY <3>3 DEF Status
  <2>3. posted \in Seq(Reports)
    BY <2>1, <2>2
  <2>4. \A i \in DOMAIN posted : posted[i].kind = "status"
    BY <2>2
  <2> HIDE DEF posted
  <2> QED BY <2>3, <2>4 DEF posted
<1>9. \A c \in Commands : turn'[t].phase[c] = "none" => turn[t].phase[c] = "none"
  BY <1>4, <1>6
<1>10. \A c \in Commands : turn'[t].phase[c] # "sending"
  BY <1>4, <1>6
<1> QED BY <1>4, <1>7, <1>8, <1>9, <1>10, TurnGoesOn

LEMMA CloseCalm ==
    ASSUME IInv, Calm, ReceiveInterrupt \/ \E t \in Turns : CloseTurn(t)
    PROVE  Calm'
<1>1. UNCHANGED RunAndRows /\ UNCHANGED <<prompt, ran>>
  BY DEF ReceiveInterrupt, CloseTurn, RunAndRows
<1>2. {"interrupted", "succeeded", "failed"} \subseteq TurnStates \ {"none"}
  BY DEF TurnStates
<1>3. ASSUME ReceiveInterrupt PROVE Calm'
  <2>1. TakesOne
    BY <1>3 DEF ReceiveInterrupt, FromManager, TakesOne
  <2>2. CASE /\ prompt # 0 /\ turn[prompt].state = "open"
             /\ SettleTurn(prompt, "interrupted", FALSE)
    <3>1. prompt \in Turns
      BY <2>2, PromptTyped
    <3> QED BY <1>1, <1>2, <2>1, <2>2, <3>1, SettleCalm
  <2>3. CASE UNCHANGED <<turn, toManager>>
    <3>1. \A d : Steered(d)' \subseteq Steered(d)
      BY <1>1, <2>1, OrdersTaken DEF RunAndRows, runVars, Calm
    <3>2. \A d \in Commands : Awaits(d, 0)' => Awaits(d, 0)
      BY <2>3, <3>1 DEF Awaits, Of
    <3>3. 0 \notin Turns
      BY BoundsAssumption DEF Turns
    <3>4. <<>> \in Seq(Reports) /\ Post(<<>>)
          /\ \A i \in DOMAIN <<>> : <<>>[i].kind = "status"
      BY <2>3, ChannelsAreSeqs DEF Post
    <3> QED BY <1>1, <2>1, <2>3, <3>2, <3>3, <3>4, TurnGoesOn
  <2> QED BY <1>3, <2>2, <2>3 DEF ReceiveInterrupt
<1>4. ASSUME NEW t \in Turns, CloseTurn(t) PROVE Calm'
  <2>1. TakesOne /\ turn[t].state # "none"
    BY <1>4 DEF CloseTurn, TakesOne
  <2>2. SettleTurn(t, "succeeded", TRUE) \/ SettleTurn(t, "failed", FALSE)
    BY <1>4 DEF CloseTurn
  <2> QED BY <1>1, <1>2, <2>1, <2>2, SettleCalm
<1> QED BY <1>3, <1>4

(* The prompt becomes a turn, and with it the round's command is carried   *)
(* out.                                                                    *)
LEMMA ReceivePromptCalm ==
    ASSUME IInv, Calm, NEW t \in Turns, ReceivePrompt(t)
    PROVE  Calm'
<1> PICK m \in Orders : m = toWorker[1] /\ m.kind = "prompt"
  BY FirstOrder DEF ReceivePrompt
<1>1. /\ UNCHANGED <<run, round, node, gen, task, live, link, target, connected, greeted>>
      /\ UNCHANGED RunAndRows /\ UNCHANGED toManager
      /\ toWorker # <<>> /\ toWorker' = Tail(toWorker) /\ TakesOne
      /\ turn[t].state = "none" /\ prompt' = t
      /\ turn' = [turn EXCEPT ![t] = [NoTurn EXCEPT !.state = "open", !.round = m.round,
                                                    !.gen = m.gen, !.task = m.task]]
      /\ ran' = IF m.task \in Commands THEN Append(ran, m.task) ELSE ran
  BY DEF ReceivePrompt, FromManager, RunAndRows, runVars, TakesOne
<1>2. /\ turn \in [Turns -> TurnRecords] /\ ran \in Seq(Commands)
      /\ m.round \in Nat /\ m.gen \in Nat
  BY ChannelsAreSeqs DEF Orders
<1>3. /\ \A s \in Turns : s # t => turn'[s] = turn[s]
      /\ turn'[t].state = "open" /\ Of(turn'[t]) = Of(m)
      /\ \A c \in Commands : turn'[t].phase[c] = "none"
  BY <1>1, <1>2 DEF NoTurn, Of
<1>4. Busy' = Busy \cup {t} /\ t \notin Busy
  BY <1>1, <1>3 DEF Busy
<1>5. 1 \in Prompts /\ Of(m) \in Prompted
  <2>1. 1 \in DOMAIN toWorker
    BY <1>1, ChannelsAreSeqs, TailHolds
  <2> QED BY <2>1 DEF Prompts, Prompted
<1>6. /\ \A i, j \in Prompts' : Of(toWorker'[i]) = Of(toWorker'[j]) => i = j
      /\ OnePending'
      /\ Prompted' \subseteq Prompted
      /\ \A c : Steered(c)' \subseteq Steered(c)
      /\ \A i \in Prompts' : \E j \in Prompts : toWorker'[i].task = toWorker[j].task
  BY <1>1, OrdersTaken DEF Calm
<1>7. \A i \in Prompts' : i + 1 \in Prompts /\ i + 1 # 1 /\ toWorker'[i] = toWorker[i + 1]
  BY <1>1, PopWorker
<1>8. Of(m) \notin Prompted'
  <2> SUFFICES ASSUME NEW i \in Prompts', Of(toWorker'[i]) = Of(m) PROVE FALSE
    BY DEF Prompted, Of
  <2>1. i + 1 \in Prompts /\ i + 1 # 1 /\ Of(toWorker[i + 1]) = Of(toWorker[1])
    BY <1>7
  <2> QED BY <1>5, <2>1 DEF Calm, OneOfEach
<1>9. Working' = Working \cup {Of(m)}
  <2>1. \A s \in Busy : Of(turn'[s]) = Of(turn[s])
    BY <1>3, <1>4 DEF Busy
  <2> QED BY <1>3, <1>4, <2>1 DEF Working, Of
<1>10. Ends' = Ends /\ Ending' = Ending
  BY <1>1 DEF Ends, Ending, Of
<1>11. ASSUME NEW c \in Commands PROVE Due(c)' \subseteq Due(c)
  <2> SUFFICES ASSUME NEW k \in Due(c)' PROVE k \in Due(c)
    OBVIOUS
  <2>1. CASE k \in Prompted' \cap Steered(c)'
    BY <1>6, <2>1 DEF Due
  <2>2. ASSUME NEW s \in Busy', Awaits(c, s)', k = Of(turn'[s]) PROVE k \in Due(c)
    <3>1. CASE s = t
      <4>1. Of(m) \in Steered(c)'
        BY <1>3, <2>2, <3>1 DEF Awaits, Of
      <4> QED BY <1>3, <1>5, <1>6, <2>2, <3>1, <4>1 DEF Due
    <3>2. CASE s # t
      <4>1. s \in Busy /\ turn'[s] = turn[s]
        BY <1>3, <1>4, <3>2 DEF Busy
      <4>2. Awaits(c, s)
        BY <1>6, <2>2, <4>1 DEF Awaits, Of
      <4> QED BY <2>2, <4>1, <4>2 DEF Due
    <3> QED BY <3>1, <3>2
  <2> QED BY <2>1, <2>2 DEF Due, Of
<1>12. ASSUME NEW c \in Commands, m.task = c
       PROVE  ~CarriedOut(c) /\ Due(c)' = {} /\ ~Pending(c)' /\ live[c].status # "none"
              /\ link[c] # "none"
  <2>1. Pending(c)
    BY <1>5, <1>12 DEF Pending
  <2>2. Due(c) = {} /\ ~CarriedOut(c) /\ link[c] # "none" /\ live[c].status # "none"
    BY <2>1 DEF Calm, WhereDue
  <2>3. ~ (task' = c /\ node' = "READY")
    BY <1>1, <1>5, <1>12 DEF Calm, OnePending
  <2>4. ASSUME NEW i \in Prompts', toWorker'[i].task = c PROVE FALSE
    <3>1. i + 1 \in Prompts /\ i + 1 # 1 /\ toWorker[i + 1].task = c
      BY <1>7, <2>4
    <3> QED BY <1>5, <1>12, <3>1 DEF Calm, OnePending
  <2> QED BY <1>11, <2>2, <2>3, <2>4 DEF Pending
<1>13. ASSUME NEW c \in Commands, CarriedOut(c)'
       PROVE  CarriedOut(c) \/ m.task = c
  BY <1>1, <1>2, <1>13 DEF CarriedOut
<1>14. UpToDate' /\ WhereDue'
  <2>1. Prompted' \cup Working' \cup Ending' \subseteq Prompted \cup Working \cup Ending
    BY <1>5, <1>6, <1>9, <1>10
  <2>2. \A c \in Commands : CarriedOut(c)' =>
            \/ CarriedOut(c)
            \/ Due(c)' = {} /\ ~Pending(c)' /\ live[c].status # "none"
    BY <1>12, <1>13
  <2> QED BY <1>1, <1>6, <1>11, <2>1, <2>2, WorkerKeeps DEF Calm
<1>15. Undisturbed'
  <2>1. prompt' # 0 => prompt' \in Busy'
    BY <1>1, <1>4
  <2>2. \A s \in Turns \ Busy' : \A c \in Commands : turn'[s].phase[c] = "none"
    BY <1>3, <1>4 DEF Calm, Undisturbed
  <2> QED BY <1>1, <2>1, <2>2 DEF Calm, Undisturbed, Busy
<1>16. OneOfEach'
  <2>1. ASSUME NEW s \in Busy', NEW u \in Busy', Of(turn'[s]) = Of(turn'[u]) PROVE s = u
    <3>1. \A v \in Busy : Of(turn'[v]) = Of(turn[v]) /\ Of(turn'[v]) # Of(m)
      <4> SUFFICES ASSUME NEW v \in Busy
                   PROVE Of(turn'[v]) = Of(turn[v]) /\ Of(turn'[v]) # Of(m)
        OBVIOUS
      <4>1. turn'[v] = turn[v]
        BY <1>3, <1>4 DEF Busy
      <4>2. Of(turn[v]) \in Working
        BY DEF Working
      <4> QED BY <1>5, <4>1, <4>2 DEF Calm, OneOfEach
    <3> QED BY <1>3, <1>4, <2>1, <3>1 DEF Calm, OneOfEach
  <2>2. \A i, j \in Ends' : Of(toManager'[i]) = Of(toManager'[j]) => i = j
    BY <1>1, <1>10 DEF Calm, OneOfEach
  <2>3. /\ Prompted' \cap Working' = {} /\ Prompted' \cap Ending' = {}
        /\ Working' \cap Ending' = {}
    BY <1>5, <1>6, <1>8, <1>9, <1>10 DEF Calm, OneOfEach
  <2> QED BY <1>6, <2>1, <2>2, <2>3 DEF OneOfEach, Of
<1>17. Heard'
  <2> SUFFICES ASSUME NEW c \in Commands, Sendable(c, live, link)
               PROVE  /\ (\E s \in Busy' : turn'[s].phase[c] = "sending") => News(c)'
                      /\ CarriedOut(c)' => /\ News(c)'
                                           /\ Now' \notin Prompted'
                                           /\ \A s \in Busy' : Of(turn'[s]) = Now'
                                                 => turn'[s].phase[c] # "none"
    BY <1>1 DEF Heard, Sendable, Of
  <2>1. News(c) => News(c)'
    BY <1>1, <1>10, NewsStays
  <2>2. /\ (\E s \in Busy : turn[s].phase[c] = "sending") => News(c)
        /\ CarriedOut(c) => /\ News(c)
                            /\ Now \notin Prompted
                            /\ \A s \in Busy : Of(turn[s]) = Now => turn[s].phase[c] # "none"
    BY DEF Calm, Heard
  <2>3. Now' = Now
    BY <1>1 DEF Now
  <2>4. ASSUME NEW s \in Busy', turn'[s].phase[c] = "sending" PROVE News(c)'
    <3>1. s # t
      BY <1>3, <2>4
    <3>2. s \in Busy /\ turn[s].phase[c] = "sending"
      BY <1>3, <1>4, <2>4, <3>1 DEF Busy
    <3> QED BY <2>1, <2>2, <3>2
  <2>5. ASSUME CarriedOut(c)'
        PROVE  /\ News(c)' /\ Now' \notin Prompted'
               /\ \A s \in Busy' : Of(turn'[s]) = Now' => turn'[s].phase[c] # "none"
    <3>1. CarriedOut(c)
      BY <1>12, <1>13, <2>5 DEF Sendable
    <3>2. Of(m) # Now
      BY <1>5, <2>2, <3>1
    <3>3. ASSUME NEW s \in Busy', Of(turn'[s]) = Now' PROVE turn'[s].phase[c] # "none"
      <4>1. s # t
        BY <1>3, <2>3, <3>2, <3>3
      <4>2. s \in Busy /\ turn'[s] = turn[s]
        BY <1>3, <1>4, <4>1 DEF Busy
      <4> QED BY <2>2, <2>3, <3>1, <3>3, <4>2
    <3> QED BY <1>6, <2>1, <2>2, <2>3, <3>1, <3>3
  <2> QED BY <2>4, <2>5
<1>18. NoRepeat'
  <2>1. CASE ran' = ran
    BY <2>1 DEF Calm, NoRepeat
  <2>2. ASSUME NEW c \in Commands, ran' = Append(ran, c), m.task = c PROVE NoRepeat'
    <3>1. /\ DOMAIN ran' = DOMAIN ran \cup {Len(ran) + 1}
          /\ \A i \in DOMAIN ran : ran'[i] = ran[i] /\ ran[i] # c
          /\ ran'[Len(ran) + 1] = c
      BY <1>2, <1>12, <2>2, AppendHolds DEF CarriedOut
    <3> QED BY <3>1 DEF Calm, NoRepeat
  <2> QED BY <1>1, <2>1, <2>2
<1> QED BY <1>6, <1>14, <1>15, <1>16, <1>17, <1>18 DEF Calm

(* The turn is over: what it has sent of its commands comes before.        *)
LEMMA FinishCalm ==
    ASSUME IInv, Calm, NEW t \in Turns, FinishTurn(t)
    PROVE  Calm'
<1> PICK old \in TurnRecords : old = turn[t]
  BY TurnTyped
<1> PICK m : m = [kind |-> IF old.state = "succeeded" THEN "handoff" ELSE "error",
                  what |-> "none", round |-> old.round, gen |-> old.gen, task |-> old.task]
  OBVIOUS
<1>1. /\ UNCHANGED <<run, round, node, gen, task, live, link, target, connected, greeted>>
      /\ UNCHANGED RunAndRows /\ UNCHANGED <<ran, toWorker>>
      /\ turn' = [turn EXCEPT ![t] = NoTurn]
      /\ prompt' = IF prompt = t THEN 0 ELSE prompt
      /\ turn[t].state # "none"
  BY DEF FinishTurn, RunAndRows, runVars
<1>2. turn \in [Turns -> TurnRecords]
  BY ChannelsAreSeqs
<1>3. /\ m \in Reports /\ m.kind \in {"handoff", "error"} /\ Of(m) = Of(turn[t])
  BY DEF TurnRecords, Reports, Answers, Of
<1>4. toManager \in Seq(Reports) /\ toManager' = Append(toManager, m)
  <2>1. toManager \in Seq(Reports)
    BY ChannelsAreSeqs DEF TrueReports
  <2>2. toManager' = toManager \o <<m>>
    BY DEF FinishTurn, Post, Calm, Undisturbed
  <2> QED BY <2>1, <2>2
<1>5. /\ DOMAIN toManager' = DOMAIN toManager \cup {Len(toManager) + 1}
      /\ \A i \in DOMAIN toManager : toManager'[i] = toManager[i] /\ i < Len(toManager) + 1
      /\ toManager'[Len(toManager) + 1] = m
      /\ Len(toManager) + 1 \notin DOMAIN toManager
  BY <1>3, <1>4, AppendHolds
<1>6. Ends' = Ends \cup {Len(toManager) + 1} /\ Ending' = Ending \cup {Of(m)}
  <2>1. Ends' = Ends \cup {Len(toManager) + 1}
    BY <1>3, <1>5 DEF Ends
  <2>2. \A i \in Ends : Of(toManager'[i]) = Of(toManager[i])
    BY <1>5 DEF Ends
  <2> QED BY <1>5, <2>1, <2>2 DEF Ending, Of
<1>7. /\ t \in Busy /\ Busy' = Busy \ {t}
      /\ \A s \in Turns : s # t => turn'[s] = turn[s]
      /\ turn'[t] = NoTurn
  BY <1>1, <1>2 DEF Busy, NoTurn
<1>8. Of(m) \in Working /\ Working' \subseteq Working /\ Of(m) \notin Working'
  <2>1. Of(m) \in Working
    BY <1>3, <1>7 DEF Working
  <2>2. \A s \in Busy' : Of(turn'[s]) = Of(turn[s]) /\ s \in Busy /\ s # t
    BY <1>7 DEF Busy
  <2>3. Working' \subseteq Working
    BY <2>2 DEF Working, Of
  <2>4. ASSUME NEW s \in Busy', Of(turn'[s]) = Of(m) PROVE FALSE
    BY <1>3, <1>7, <2>2, <2>4 DEF Calm, OneOfEach
  <2> QED BY <2>1, <2>3, <2>4 DEF Working, Of
<1>9. Prompts' = Prompts /\ Prompted' = Prompted /\ \A c : Steered(c)' = Steered(c)
  BY <1>1 DEF Prompts, Prompted, Steered, Steers, Of
<1>10. ASSUME NEW c \in Commands PROVE Due(c)' \subseteq Due(c)
  <2>1. \A s \in Busy' : s \in Busy /\ turn'[s] = turn[s] /\ (Awaits(c, s)' => Awaits(c, s))
    <3> SUFFICES ASSUME NEW s \in Busy'
                 PROVE  s \in Busy /\ turn'[s] = turn[s] /\ (Awaits(c, s)' => Awaits(c, s))
      OBVIOUS
    <3>1. s \in Busy /\ turn'[s] = turn[s]
      BY <1>7 DEF Busy
    <3> QED BY <1>9, <3>1 DEF Awaits, Of
  <2> QED BY <1>9, <2>1 DEF Due, Of
<1>11. \A c \in Commands : CarriedOut(c)' => CarriedOut(c)
  BY <1>1 DEF CarriedOut
<1>12. OnePending' /\ \A i \in Prompts' : \E j \in Prompts : toWorker'[i].task = toWorker[j].task
  BY <1>1, <1>9 DEF Calm, OnePending
<1>13. UpToDate' /\ WhereDue'
  <2>1. Prompted' \cup Working' \cup Ending' \subseteq Prompted \cup Working \cup Ending
    BY <1>6, <1>8, <1>9
  <2> QED BY <1>1, <1>9, <1>10, <1>11, <1>12, <2>1, WorkerKeeps DEF Calm
<1>14. Undisturbed'
  <2>1. prompt' # 0 => prompt' \in Busy'
    BY <1>1, <1>7 DEF Calm, Undisturbed
  <2>2. \A s \in Turns \ Busy' : \A c \in Commands : turn'[s].phase[c] = "none"
    BY <1>7 DEF Calm, Undisturbed, NoTurn
  <2> QED BY <1>1, <2>1, <2>2 DEF Calm, Undisturbed, Busy
<1>15. OneOfEach'
  <2>1. \A i, j \in Prompts' : Of(toWorker'[i]) = Of(toWorker'[j]) => i = j
    BY <1>1, <1>9 DEF Calm, OneOfEach
  <2>2. \A s, u \in Busy' : Of(turn'[s]) = Of(turn'[u]) => s = u
    <3>1. \A s \in Busy' : Of(turn'[s]) = Of(turn[s]) /\ s \in Busy
      BY <1>7 DEF Busy
    <3> QED BY <3>1 DEF Calm, OneOfEach
  <2>3. \A i, j \in Ends' : Of(toManager'[i]) = Of(toManager'[j]) => i = j
    <3>1. \A i \in Ends : Of(toManager'[i]) = Of(toManager[i]) /\ Of(toManager[i]) # Of(m)
      <4> SUFFICES ASSUME NEW i \in Ends
                   PROVE  Of(toManager'[i]) = Of(toManager[i]) /\ Of(toManager[i]) # Of(m)
        OBVIOUS
      <4>1. toManager'[i] = toManager[i]
        BY <1>5 DEF Ends
      <4>2. Of(toManager[i]) \in Ending
        BY DEF Ending
      <4> QED BY <1>8, <4>1, <4>2 DEF Calm, OneOfEach
    <3> QED BY <1>5, <1>6, <3>1 DEF Calm, OneOfEach
  <2>4. /\ Prompted' \cap Working' = {} /\ Prompted' \cap Ending' = {}
        /\ Working' \cap Ending' = {}
    BY <1>6, <1>8, <1>9 DEF Calm, OneOfEach
  <2> QED BY <2>1, <2>2, <2>3, <2>4 DEF OneOfEach, Of
<1>16. Heard'
  <2> SUFFICES ASSUME NEW c \in Commands, Sendable(c, live, link)
               PROVE  /\ (\E s \in Busy' : turn'[s].phase[c] = "sending") => News(c)'
                      /\ CarriedOut(c)' => /\ News(c)'
                                           /\ Now' \notin Prompted'
                                           /\ \A s \in Busy' : Of(turn'[s]) = Now'
                                                 => turn'[s].phase[c] # "none"
    BY <1>1 DEF Heard, Sendable, Of
  <2>1. News(c) => News(c)'
    BY <1>1, <1>5, <1>6, NewsStays
  <2>2. /\ (\E s \in Busy : turn[s].phase[c] = "sending") => News(c)
        /\ CarriedOut(c) => /\ News(c)
                            /\ Now \notin Prompted
                            /\ \A s \in Busy : Of(turn[s]) = Now => turn[s].phase[c] # "none"
    BY DEF Calm, Heard
  <2>3. Now' = Now
    BY <1>1 DEF Now
  <2>4. \A s \in Busy' : s \in Busy /\ turn'[s] = turn[s]
    BY <1>7 DEF Busy
  <2> QED BY <1>9, <1>11, <2>1, <2>2, <2>3, <2>4
<1>17. NoRepeat'
  BY <1>1 DEF Calm, NoRepeat
<1> QED BY <1>12, <1>13, <1>14, <1>15, <1>16, <1>17 DEF Calm

-----------------------------------------------------------------------------
(* The Manager at work.                                                    *)

LEMMA TurnsAreNumbers ==
    ASSUME IInv
    PROVE  /\ Prompted \subseteq Nat \X Nat /\ Working \subseteq Nat \X Nat
           /\ Ending \subseteq Nat \X Nat /\ \A c : Steered(c) \subseteq Nat \X Nat
           /\ round \in Nat /\ gen \in Nat /\ Now[1] = round /\ Now[2] = gen
<1>1. \A i \in DOMAIN toWorker : toWorker[i].round \in Nat /\ toWorker[i].gen \in Nat
  BY ChannelsAreSeqs DEF Orders
<1>2. \A i \in DOMAIN toManager : toManager[i].round \in Nat /\ toManager[i].gen \in Nat
  BY ChannelsAreSeqs DEF TrueReports, Reports
<1>3. \A t \in Turns : turn[t].round \in Nat /\ turn[t].gen \in Nat
  BY TurnTyped
<1>4. round \in Nat /\ gen \in Nat
  BY BoundsAssumption DEF IInv, RunTyped
<1> QED BY <1>1, <1>2, <1>3, <1>4 DEF Prompted, Prompts, Working, Busy, Ending, Ends, Steered,
           Steers, Of, Now

LEMMA CarriersStay ==
    ASSUME UNCHANGED <<turn, toWorker, ran>>
    PROVE  /\ Prompts' = Prompts /\ Prompted' = Prompted
           /\ Busy' = Busy /\ Working' = Working
           /\ \A c : Steered(c)' = Steered(c) /\ Due(c)' = Due(c)
           /\ \A c : CarriedOut(c)' <=> CarriedOut(c)
<1>1. /\ Prompts' = Prompts /\ Prompted' = Prompted
      /\ Busy' = Busy /\ Working' = Working
      /\ \A c : Steered(c)' = Steered(c)
      /\ \A c : CarriedOut(c)' <=> CarriedOut(c)
  BY DEF Prompts, Prompted, Busy, Working, Steered, Steers, CarriedOut, Of
<1>2. \A c, s : Awaits(c, s)' <=> Awaits(c, s)
  BY <1>1 DEF Awaits, Of
<1>3. ASSUME NEW c PROVE Due(c)' = Due(c)
  BY <1>1, <1>2 DEF Due, Of
<1> QED BY <1>1, <1>3

(* Reading a message that does not end a turn, or that ends an old one.    *)
LEMMA NewsWaits ==
    ASSUME IInv, NEW c, News(c), toManager # <<>>, toManager' = Tail(toManager),
           UNCHANGED <<run, node, round, gen>>, live'[c].round = live[c].round,
           ~ (/\ toManager[1].kind = "status" /\ toManager[1].task = c
              /\ Of(toManager[1]) = Now /\ toManager[1].what # "unsupported")
    PROVE  News(c)'
<1>1. PICK i \in DOMAIN toManager :
          /\ toManager[i].kind = "status" /\ toManager[i].task = c
          /\ Of(toManager[i]) = Now /\ toManager[i].what # "unsupported"
          /\ \A j \in Ends : Of(toManager[j]) = Now => i < j
  BY DEF News
<1>2. i # 1
  BY <1>1
<1>3. /\ \A j \in Ends' : j \in Nat /\ j + 1 \in Ends /\ toManager'[j] = toManager[j + 1]
      /\ i \in Nat /\ i - 1 \in DOMAIN toManager' /\ toManager'[i - 1] = toManager[i]
  BY <1>2, PopManager
<1>4. \A j \in Ends' : Of(toManager'[j]) = Now => i - 1 < j
  <2> SUFFICES ASSUME NEW j \in Ends', Of(toManager'[j]) = Now PROVE i - 1 < j
    OBVIOUS
  <2>1. j + 1 \in Ends /\ Of(toManager[j + 1]) = Now /\ j \in Nat
    BY <1>3
  <2>2. i < j + 1
    BY <1>1, <2>1
  <2> QED BY <1>3, <2>1, <2>2
<1>5. Now' = Now
  BY DEF Now
<1>6. \E x \in DOMAIN toManager' :
          /\ toManager'[x].kind = "status" /\ toManager'[x].task = c
          /\ Of(toManager'[x]) = Now' /\ toManager'[x].what # "unsupported"
          /\ \A j \in Ends' : Of(toManager'[j]) = Now' => x < j
  BY <1>1, <1>3, <1>4, <1>5
<1> QED BY <1>6 DEF News, Of

LEMMA EndsTaken ==
    ASSUME IInv, OneOfEach, toManager # <<>>, toManager' = Tail(toManager)
    PROVE  /\ \A i, j \in Ends' : Of(toManager'[i]) = Of(toManager'[j]) => i = j
           /\ Ending' \subseteq Ending
           /\ toManager[1].kind \in {"handoff", "error"} => Of(toManager[1]) \notin Ending'
                                                            /\ 1 \in Ends
<1>1. /\ \A i \in Ends' : i \in Nat /\ i + 1 \in Ends /\ i + 1 # 1
                          /\ toManager'[i] = toManager[i + 1]
      /\ Ending' \subseteq Ending
  BY PopManager
<1>2. ASSUME NEW i \in Ends', NEW j \in Ends', Of(toManager'[i]) = Of(toManager'[j])
      PROVE  i = j
  <2>1. Of(toManager[i + 1]) = Of(toManager[j + 1])
    BY <1>1, <1>2
  <2>2. i + 1 = j + 1
    BY <1>1, <2>1 DEF OneOfEach
  <2> QED BY <1>1, <2>2
<1>3. ASSUME toManager[1].kind \in {"handoff", "error"}
      PROVE  Of(toManager[1]) \notin Ending' /\ 1 \in Ends
  <2>1. 1 \in Ends
    BY <1>3, ChannelsAreSeqs DEF Ends
  <2> SUFFICES ASSUME NEW i \in Ends', Of(toManager'[i]) = Of(toManager[1]) PROVE FALSE
    BY <2>1 DEF Ending, Of
  <2>2. i + 1 \in Ends /\ i + 1 # 1 /\ Of(toManager[i + 1]) = Of(toManager[1])
    BY <1>1
  <2> QED BY <2>1, <2>2 DEF OneOfEach
<1> QED BY <1>1, <1>2, <1>3

LEMMA TransitionLeavesQueue ==
    ASSUME NEW status \in (Outstanding \ {"queued"}) \cup Ended,
           NEW row \in [status : {"none"} \cup Outstanding \cup Ended, round : 0 .. MaxRounds]
    PROVE  /\ Transition(row, status).round = row.round
           /\ Transition(row, status).status # "queued"
           /\ Transition(row, status).status = "none" => row.status = "none"
BY DEF Transition, Outstanding, Ended, Rank

LEMMA ReceiveStatusCalm ==
    ASSUME IInv, Calm, ReceiveStatus
    PROVE  Calm'
<1> PICK m \in TrueReports : m = toManager[1] /\ m.kind = "status"
  BY FirstReport DEF ReceiveStatus
<1>1. /\ UNCHANGED <<run, round, node, gen, task, link, target, connected, greeted>>
      /\ UNCHANGED <<turn, prompt, ran, toWorker>>
      /\ toManager # <<>> /\ toManager' = Tail(toManager)
  BY DEF ReceiveStatus, FromWorker, runVars, workerVars
<1>2. m.task \in Commands /\ m.what \in Answers
  BY DEF TrueReports, Reports
<1> DEFINE moved == Current(m) /\ target /\ live[m.task].round = m.round
                    /\ m.what # "unsupported"
<1>3. live' = IF moved THEN [live EXCEPT ![m.task] = Transition(@, RowStatus(m.what))] ELSE live
  BY DEF ReceiveStatus
<1>4. RowStatus(m.what) \in (Outstanding \ {"queued"}) \cup Ended \/ m.what = "unsupported"
  BY <1>2 DEF RowStatus, Answers, Outstanding, Ended
<1>5. live \in [Commands -> [status : {"none"} \cup Outstanding \cup Ended,
                             round : 0 .. MaxRounds]]
  BY DEF IInv, RowsTyped
<1> PICK row : row = Transition(live[m.task], RowStatus(m.what))
  OBVIOUS
<1>6. ASSUME moved PROVE /\ row.round = live[m.task].round
                         /\ row.status # "queued"
                         /\ row.status = "none" => live[m.task].status = "none"
  BY <1>2, <1>4, <1>5, <1>6, TransitionLeavesQueue
<1>7. \A c \in Commands : live'[c] = IF moved /\ c = m.task THEN row ELSE live[c]
  BY <1>2, <1>3, <1>5
<1> HIDE DEF moved
<1>8. \A c \in Commands : /\ live'[c].round = live[c].round
                          /\ live'[c].status = "queued" => live[c].status = "queued"
                          /\ live'[c].status = "none" => live[c].status = "none"
                          /\ moved /\ c = m.task => live'[c].status # "queued"
  BY <1>6, <1>7
<1>9. /\ Prompts' = Prompts /\ Prompted' = Prompted
      /\ Busy' = Busy /\ Working' = Working
      /\ \A c : Steered(c)' = Steered(c) /\ Due(c)' = Due(c)
      /\ \A c : CarriedOut(c)' <=> CarriedOut(c)
  BY <1>1, CarriersStay
<1>10. /\ \A i, j \in Ends' : Of(toManager'[i]) = Of(toManager'[j]) => i = j
       /\ Ending' \subseteq Ending
  BY <1>1, EndsTaken DEF Calm
<1>11. Now' = Now /\ \A c \in Commands : Pending(c)' <=> Pending(c)
  BY <1>1, <1>9 DEF Now, Pending
<1>12. \A c \in Commands : Sendable(c, live, link)' => Sendable(c, live, link)
  BY <1>1, <1>8 DEF Sendable
<1>13. Undisturbed'
  BY <1>1, <1>8, <1>9 DEF Calm, Undisturbed
<1>14. OneOfEach'
  BY <1>1, <1>9, <1>10 DEF Calm, OneOfEach, Of
<1>15. UpToDate'
  BY <1>1, <1>9, <1>10, <1>11 DEF Calm, UpToDate, AtWork, Sent
<1>16. WhereDue'
  <2> SUFFICES ASSUME NEW c \in Commands
      PROVE  /\ Sendable(c, live, link)' => /\ Due(c)' \subseteq {Now'}
                                            /\ Due(c)' # {} => live'[c].round = round'
             /\ live'[c].status = "none" => Due(c)' = {} /\ ~CarriedOut(c)' /\ link'[c] = "none"
             /\ Pending(c)' => Due(c)' = {} /\ ~CarriedOut(c)' /\ link'[c] # "none"
             /\ CarriedOut(c)' => Due(c)' = {}
             /\ \A k, l \in Due(c)' : k = l
    BY DEF WhereDue
  <2>1. Due(c)' = Due(c) /\ (CarriedOut(c)' <=> CarriedOut(c))
    BY <1>9
  <2> QED BY <1>1, <1>8, <1>11, <1>12, <2>1 DEF Calm, WhereDue
<1>17. OnePending'
  BY <1>1, <1>9 DEF Calm, OnePending
<1>18. Heard'
  <2> SUFFICES ASSUME NEW c \in Commands, Sendable(c, live, link)'
               PROVE  /\ (\E s \in Busy' : turn'[s].phase[c] = "sending") => News(c)'
                      /\ CarriedOut(c)' => /\ News(c)'
                                           /\ Now' \notin Prompted'
                                           /\ \A s \in Busy' : Of(turn'[s]) = Now'
                                                 => turn'[s].phase[c] # "none"
    BY DEF Heard, Of
  <2>1. ASSUME News(c) PROVE News(c)'
    <3>1. CASE /\ m.task = c /\ Of(m) = Now /\ m.what # "unsupported"
      <4>1. m.round = round /\ m.gen = gen
        BY <3>1 DEF Of, Now
      <4>2. moved
        <5>1. run = "active" /\ node = "RUNNING" /\ live[c].round = round
          BY <2>1 DEF News
        <5>2. target
          BY <5>1 DEF Calm, Undisturbed
        <5> QED BY <3>1, <4>1, <5>1, <5>2 DEF moved, Current
      <4> QED BY <1>8, <3>1, <4>2 DEF Sendable
    <3>2. CASE ~ (m.task = c /\ Of(m) = Now /\ m.what # "unsupported")
      BY <1>1, <1>8, <2>1, <3>2, NewsWaits
    <3> QED BY <3>1, <3>2
  <2>2. Sendable(c, live, link)
    BY <1>12
  <2> QED BY <1>1, <1>9, <1>11, <2>1, <2>2 DEF Calm, Heard
<1>19. NoRepeat'
  BY <1>1 DEF Calm, NoRepeat
<1> QED BY <1>13, <1>14, <1>15, <1>16, <1>17, <1>18, <1>19 DEF Calm

(* The end of the current turn ends what could be news; that of another    *)
(* turn changes nothing.                                                   *)
LEMMA ReceiveEndCalm ==
    ASSUME IInv, Calm, ReceiveHandoff \/ ReceiveError
    PROVE  Calm'
<1>0. /\ \E x \in TrueReports : x = toManager[1] /\ x.kind \in {"handoff", "error"}
      /\ toManager # <<>>
  BY FirstReport DEF ReceiveHandoff, ReceiveError, FromWorker
<1> PICK m \in TrueReports : m = toManager[1] /\ m.kind \in {"handoff", "error"}
  BY <1>0
<1>1. /\ UNCHANGED <<run, round, gen, task, target, connected, greeted>>
      /\ UNCHANGED <<turn, prompt, ran, toWorker>>
      /\ toManager # <<>> /\ toManager' = Tail(toManager)
  BY <1>0 DEF ReceiveHandoff, ReceiveError, workerVars
<1>2. live \in [Commands -> [status : {"none"} \cup Outstanding \cup Ended,
                             round : 0 .. MaxRounds]]
      /\ link \in [Commands -> {"none", "pending", "acknowledged", "cancelled"}]
  BY DEF IInv, RowsTyped
<1>3. /\ \/ node' = node
         \/ node' \in {"FAILED", "COMPLETED"} /\ Accepted(m)
      /\ \/ UNCHANGED <<link, live>>
         \/ /\ m.task \in Commands
            /\ link' = [link EXCEPT ![m.task] = "acknowledged"]
            /\ live' = [live EXCEPT ![m.task] = Transition(@, "completed")]
  BY DEF ReceiveHandoff, ReceiveError
<1>4. \A c \in Commands : /\ live'[c].round = live[c].round
                          /\ live'[c].status = "queued" => live[c].status = "queued"
                          /\ live'[c].status = "none" => live[c].status = "none" /\ link'[c] = link[c]
                          /\ link'[c] = "none" => link[c] = "none"
                          /\ link[c] # "none" => link'[c] # "none"
  <2>1. CASE UNCHANGED <<link, live>>
    BY <2>1
  <2>2. CASE /\ m.task \in Commands
             /\ link' = [link EXCEPT ![m.task] = "acknowledged"]
             /\ live' = [live EXCEPT ![m.task] = Transition(@, "completed")]
    <3> PICK row : row = Transition(live[m.task], "completed")
      OBVIOUS
    <3>1. row.round = live[m.task].round /\ row.status \notin {"queued", "none"}
      <4>1. row.status # "none"
        BY <1>2, <2>2 DEF Transition, Ended, Outstanding, Rank
      <4> QED BY <1>2, <2>2, <4>1, TransitionLeavesQueue DEF Ended
    <3>2. \A c \in Commands : live'[c] = IF c = m.task THEN row ELSE live[c]
      BY <1>2, <2>2
    <3>3. \A c \in Commands : link'[c] = IF c = m.task THEN "acknowledged" ELSE link[c]
      BY <1>2, <2>2
    <3> QED BY <3>1, <3>2, <3>3
  <2> QED BY <1>3, <2>1, <2>2
<1>5. /\ Prompts' = Prompts /\ Prompted' = Prompted
      /\ Busy' = Busy /\ Working' = Working
      /\ \A c : Steered(c)' = Steered(c) /\ Due(c)' = Due(c)
      /\ \A c : CarriedOut(c)' <=> CarriedOut(c)
  BY <1>1, CarriersStay
<1>6. /\ \A i, j \in Ends' : Of(toManager'[i]) = Of(toManager'[j]) => i = j
      /\ Ending' \subseteq Ending
      /\ Of(m) \notin Ending' /\ 1 \in Ends /\ Of(m) \in Ending
  BY <1>1, EndsTaken DEF Calm, Ending
<1>7. Now' = Now /\ \A c \in Commands : Pending(c)' => Pending(c)
  BY <1>1, <1>3, <1>5 DEF Now, Pending
<1>8. \A c \in Commands : Sendable(c, live, link)' => Sendable(c, live, link)
  BY <1>4 DEF Sendable
<1>9. Accepted(m) => Of(m) = Now /\ run = "active"
  BY DEF Accepted, Current, Of, Now
<1>10. Undisturbed'
  <2>1. node' = "RUNNING" => node = "RUNNING"
    BY <1>3
  <2>2. run' = "waiting" => node' \in {"COMPLETED", "FAILED"}
    BY <1>1, <1>3 DEF Calm, Undisturbed
  <2> QED BY <1>1, <1>4, <1>5, <2>1, <2>2 DEF Calm, Undisturbed
<1>11. OneOfEach'
  BY <1>1, <1>5, <1>6 DEF Calm, OneOfEach, Of
<1>12. UpToDate'
  <2>1. CASE node' = node
    BY <1>1, <1>5, <1>6, <1>7, <2>1 DEF Calm, UpToDate, AtWork, Sent
  <2>2. CASE node' \in {"FAILED", "COMPLETED"} /\ Accepted(m)
    <3>1. Now \notin Prompted \cup Working \cup Ending'
      BY <1>6, <1>9, <2>2 DEF Calm, OneOfEach
    <3>2. \A k \in Prompted' \cup Working' \cup Ending' : AtWork(k)'
      BY <1>1, <1>5, <1>6, <3>1 DEF Calm, UpToDate, AtWork
    <3>3. \A c \in Commands : \A k \in Steered(c)' : Sent(k)'
      BY <1>1, <1>5, <1>7, <2>2 DEF Calm, UpToDate, Sent
    <3> QED BY <3>2, <3>3 DEF UpToDate
  <2> QED BY <1>3, <2>1, <2>2
<1>13. WhereDue'
  <2> SUFFICES ASSUME NEW c \in Commands
      PROVE  /\ Sendable(c, live, link)' => /\ Due(c)' \subseteq {Now'}
                                            /\ Due(c)' # {} => live'[c].round = round'
             /\ live'[c].status = "none" => Due(c)' = {} /\ ~CarriedOut(c)' /\ link'[c] = "none"
             /\ Pending(c)' => Due(c)' = {} /\ ~CarriedOut(c)' /\ link'[c] # "none"
             /\ CarriedOut(c)' => Due(c)' = {}
             /\ \A k, l \in Due(c)' : k = l
    BY DEF WhereDue
  <2>1. Due(c)' = Due(c) /\ (CarriedOut(c)' <=> CarriedOut(c))
    BY <1>5
  <2> QED BY <1>1, <1>4, <1>7, <1>8, <2>1 DEF Calm, WhereDue
<1>14. OnePending'
  <2>1. node' = "READY" => node = "READY"
    BY <1>3
  <2> QED BY <1>1, <1>5, <2>1 DEF Calm, OnePending
<1>15. Heard'
  <2> SUFFICES ASSUME NEW c \in Commands, Sendable(c, live, link)'
               PROVE  /\ (\E s \in Busy' : turn'[s].phase[c] = "sending") => News(c)'
                      /\ CarriedOut(c)' => /\ News(c)'
                                           /\ Now' \notin Prompted'
                                           /\ \A s \in Busy' : Of(turn'[s]) = Now'
                                                 => turn'[s].phase[c] # "none"
    BY DEF Heard, Of
  <2>1. ASSUME News(c) PROVE News(c)'
    <3>1. Of(m) # Now
      <4> SUFFICES ASSUME Of(m) = Now PROVE FALSE
        OBVIOUS
      <4>1. PICK i \in DOMAIN toManager : \A j \in Ends : Of(toManager[j]) = Now => i < j
        BY <2>1 DEF News
      <4>2. i < 1 /\ i \in Nat /\ i > 0
        BY <1>6, <4>1, ChannelsAreSeqs
      <4> QED BY <4>2
    <3>2. node' = node
      BY <1>3, <1>9, <3>1
    <3> QED BY <1>1, <1>4, <2>1, <3>2, NewsWaits
  <2>2. Sendable(c, live, link)
    BY <1>8
  <2> QED BY <1>1, <1>5, <1>7, <2>1, <2>2 DEF Calm, Heard
<1>16. NoRepeat'
  BY <1>1 DEF Calm, NoRepeat
<1> QED BY <1>10, <1>11, <1>12, <1>13, <1>14, <1>15, <1>16 DEF Calm

-----------------------------------------------------------------------------
(* Boundaries: no turn is at work, so nothing that could fall back is due. *)

LEMMA AtRest ==
    ASSUME IInv, Calm, node # "RUNNING"
    PROVE  /\ Now \notin Prompted \cup Working \cup Ending
           /\ \A k \in Prompted \cup Working \cup Ending : k[2] < gen
           /\ \A c \in Commands : Sendable(c, live, link) =>
                 /\ Due(c) = {} /\ ~CarriedOut(c) /\ ~Pending(c)
                 /\ \A t \in Busy : turn[t].phase[c] # "sending"
<1>1. \A k \in Prompted \cup Working \cup Ending : k[2] < gen
  BY DEF Calm, UpToDate, AtWork
<1>2. Now \notin Prompted \cup Working \cup Ending
  BY <1>1, TurnsAreNumbers
<1>3. ASSUME NEW c \in Commands, Sendable(c, live, link)
      PROVE  /\ Due(c) = {} /\ ~CarriedOut(c) /\ ~Pending(c)
             /\ \A t \in Busy : turn[t].phase[c] # "sending"
  <2>1. Due(c) = {}
    BY <1>2, <1>3, DueIsCarried DEF Calm, WhereDue
  <2>2. ~News(c)
    BY DEF News
  <2> QED BY <1>3, <2>1, <2>2 DEF Calm, WhereDue, Heard, Sendable
<1> QED BY <1>1, <1>2, <1>3

LEMMA NewRoundCalm ==
    ASSUME IInv, Calm, node \in {"COMPLETED", "FAILED"}, NEW c0,
           run' = "active", round' = round + 1, gen' = gen, task' = c0,
           node' \in {"READY", "COMPLETED", "FAILED"},
           \/ c0 \notin Commands /\ UNCHANGED link
           \/ Consumable(c0) /\ c0 \in Commands /\ link' = [link EXCEPT ![c0] = "pending"],
           UNCHANGED <<live, target, connected, greeted, turn, prompt, ran, toWorker, toManager>>
    PROVE  Calm'
<1>1. /\ run' = "active" /\ round' = round + 1 /\ task' = c0 /\ gen' = gen
      /\ node' \in {"READY", "COMPLETED", "FAILED"}
  OBVIOUS
<1>2. \A c \in Commands : link'[c] = IF c0 \in Commands /\ c = c0 THEN "pending" ELSE link[c]
  BY DEF IInv, RowsTyped
<1>3. c0 \in Commands => Sendable(c0, live, link)
  BY DEF Consumable, Sendable
<1>4. /\ Prompts' = Prompts /\ Prompted' = Prompted
      /\ Busy' = Busy /\ Working' = Working
      /\ \A c : Steered(c)' = Steered(c) /\ Due(c)' = Due(c)
      /\ \A c : CarriedOut(c)' <=> CarriedOut(c)
  BY CarriersStay
<1>5. Ends' = Ends /\ Ending' = Ending
  BY DEF Ends, Ending, Of
<1>6. \A c \in Commands : /\ Sendable(c, live, link)' => Sendable(c, live, link)
                          /\ live'[c].status = live[c].status
  BY <1>2 DEF Sendable
<1>7. \A c \in Commands : Pending(c)' => Pending(c) \/ c = c0
  BY <1>1, <1>4 DEF Pending
<1>8. Undisturbed'
  BY <1>1, <1>4 DEF Calm, Undisturbed
<1>9. OneOfEach'
  BY <1>4, <1>5 DEF Calm, OneOfEach, Of
<1>10. UpToDate'
  <2>1. \A k \in Prompted' \cup Working' \cup Ending' : AtWork(k)'
    BY <1>1, <1>4, <1>5, AtRest DEF AtWork
  <2>2. ASSUME NEW c \in Commands, NEW k \in Steered(c) PROVE Sent(k)'
    <3>1. k[1] \in Nat /\ round \in Nat /\ Now[1] = round
      BY TurnsAreNumbers
    <3>2. k[2] < gen \/ k[1] < round \/ k = Now
      BY DEF Calm, UpToDate, Sent
    <3> QED BY <1>1, <3>1, <3>2 DEF Sent
  <2> QED BY <1>4, <2>1, <2>2 DEF UpToDate
<1>11. WhereDue'
  <2> SUFFICES ASSUME NEW c \in Commands
      PROVE  /\ Sendable(c, live, link)' => /\ Due(c)' \subseteq {Now'}
                                            /\ Due(c)' # {} => live'[c].round = round'
             /\ live'[c].status = "none" => Due(c)' = {} /\ ~CarriedOut(c)' /\ link'[c] = "none"
             /\ Pending(c)' => Due(c)' = {} /\ ~CarriedOut(c)' /\ link'[c] # "none"
             /\ CarriedOut(c)' => Due(c)' = {}
             /\ \A k, l \in Due(c)' : k = l
    BY DEF WhereDue
  <2>1. Due(c)' = Due(c) /\ (CarriedOut(c)' <=> CarriedOut(c))
    BY <1>4
  <2>2. Sendable(c, live, link) => Due(c) = {} /\ ~CarriedOut(c)
    BY AtRest
  <2>3. live'[c].status = "none" => link'[c] = link[c]
    BY <1>2, <1>3, <1>6 DEF Sendable
  <2>4. Pending(c)' => Due(c)' = {} /\ ~CarriedOut(c)' /\ link'[c] # "none"
    <3>1. CASE c = c0
      BY <1>2, <1>3, <2>1, <2>2, <3>1
    <3>2. CASE c # c0
      BY <1>2, <1>7, <2>1, <3>2 DEF Calm, WhereDue
    <3> QED BY <3>1, <3>2
  <2> QED BY <1>6, <2>1, <2>2, <2>3, <2>4 DEF Calm, WhereDue
<1>12. OnePending'
  <2>1. \A c \in Commands : c = c0 => ~Pending(c)
    BY <1>3, AtRest
  <2> QED BY <1>1, <1>4, <2>1 DEF Calm, OnePending, Pending
<1>13. Heard'
  <2>1. ASSUME NEW c \in Commands, Sendable(c, live, link)'
        PROVE  ~CarriedOut(c)' /\ \A t \in Busy' : turn'[t].phase[c] # "sending"
    BY <1>4, <1>6, <2>1, AtRest
  <2> QED BY <2>1 DEF Heard
<1>14. NoRepeat'
  BY DEF Calm, NoRepeat
<1> QED BY <1>8, <1>9, <1>10, <1>11, <1>12, <1>13, <1>14 DEF Calm

LEMMA BoundaryCalm ==
    ASSUME IInv, Calm, ReachBoundary \/ Resume \/ ResumeOthers
    PROVE  Calm'
<1>1. UNCHANGED <<live, target, connected, greeted, turn, prompt, ran, toWorker, toManager>>
  BY DEF ReachBoundary, Resume, ResumeOthers, workerVars
<1>2. node \in {"COMPLETED", "FAILED"}
  BY DEF ReachBoundary, Resume, ResumeOthers, Calm, Undisturbed
<1>3. CASE Resume \/ ResumeOthers
  <2>1. NoCommand \notin Commands /\ Other \notin Commands
    BY CommandNumbers
  <2>2. CASE Resume
    BY <1>1, <1>2, <2>1, <2>2, NewRoundCalm DEF Resume, OpenRound
  <2>3. CASE ResumeOthers
    BY <1>1, <1>2, <2>1, <2>3, NewRoundCalm DEF ResumeOthers
  <2> QED BY <1>3, <2>2, <2>3
<1>4. CASE ReachBoundary
  <2>1. CASE /\ Consumable(First(live)) /\ OpenRound(First(live))
             /\ link' = [link EXCEPT ![First(live)] = "pending"]
    <3>1. First(live) \in Commands
      BY <2>1, FirstIsCommand DEF Consumable
    <3> QED BY <1>1, <1>2, <2>1, <3>1, NewRoundCalm DEF OpenRound
  <2>2. CASE run' = "waiting" /\ UNCHANGED <<round, node, gen, task, link>>
    <3>1. /\ Prompts' = Prompts /\ Prompted' = Prompted
          /\ Busy' = Busy /\ Working' = Working
          /\ \A c : Steered(c)' = Steered(c) /\ Due(c)' = Due(c)
          /\ \A c : CarriedOut(c)' <=> CarriedOut(c)
      BY <1>1, CarriersStay
    <3>2. Ends' = Ends /\ Ending' = Ending /\ Now' = Now
      BY <1>1, <2>2 DEF Ends, Ending, Of, Now
    <3>3. \A c \in Commands : /\ Sendable(c, live, link)' <=> Sendable(c, live, link)
                              /\ Pending(c)' <=> Pending(c)
      BY <1>1, <2>2, <3>1 DEF Sendable, Pending
    <3>4. Undisturbed' /\ OneOfEach'
      BY <1>1, <1>2, <2>2, <3>1, <3>2 DEF Calm, Undisturbed, OneOfEach, Of
    <3>5. UpToDate' /\ OnePending' /\ NoRepeat'
      BY <1>1, <2>2, <3>1, <3>2 DEF Calm, UpToDate, AtWork, Sent, OnePending, NoRepeat
    <3>6. WhereDue'
      BY <1>1, <2>2, <3>1, <3>2, <3>3 DEF Calm, WhereDue
    <3>7. Heard'
      <4>1. ASSUME NEW c \in Commands, Sendable(c, live, link)'
            PROVE  ~CarriedOut(c)' /\ \A t \in Busy' : turn'[t].phase[c] # "sending"
        BY <1>1, <1>2, <3>1, <3>3, <4>1, AtRest
      <4> QED BY <4>1 DEF Heard
    <3> QED BY <3>4, <3>5, <3>6, <3>7 DEF Calm
  <2> QED BY <1>4, <2>1, <2>2 DEF ReachBoundary, ConsumeOrWait
<1> QED BY <1>3, <1>4

(* Rows that were all terminated: nothing can be sent, and nothing that    *)
(* belonged to a round is given back.                                      *)
LEMMA TerminatedRows ==
    ASSUME IInv, NEW status \in {"cancelled", "superseded"}, live' = Terminated(live, status),
           link' = Unclaimed
    PROVE  \A c \in Commands : /\ live'[c].status # "queued"
                               /\ live'[c].status = "none" <=> live[c].status = "none"
                               /\ link'[c] = "none" <=> link[c] = "none"
<1>1. \A c \in Commands :
         /\ live[c] \in [status : {"none"} \cup Outstanding \cup Ended, round : 0 .. MaxRounds]
         /\ live'[c] = IF live[c].status \in Outstanding
                       THEN [live[c] EXCEPT !.status = status] ELSE live[c]
         /\ link'[c] = IF link[c] = "pending" THEN "cancelled" ELSE link[c]
  BY DEF IInv, RowsTyped, Terminated, Unclaimed
<1> QED BY <1>1 DEF Outstanding

LEMMA EndRunCalm ==
    ASSUME IInv, Calm, EndRun
    PROVE  Calm'
<1>1. /\ UNCHANGED <<round, node, gen, task, target, connected, greeted>>
      /\ UNCHANGED <<turn, prompt, ran, toWorker, toManager>>
      /\ run' = "ended"
  BY DEF EndRun, workerVars
<1>2. \A c \in Commands : /\ live'[c].status # "queued"
                          /\ live'[c].status = "none" <=> live[c].status = "none"
                          /\ link'[c] = "none" <=> link[c] = "none"
  BY TerminatedRows DEF EndRun
<1>3. /\ Prompts' = Prompts /\ Prompted' = Prompted
      /\ Busy' = Busy /\ Working' = Working
      /\ \A c : Steered(c)' = Steered(c) /\ Due(c)' = Due(c)
      /\ \A c : CarriedOut(c)' <=> CarriedOut(c)
  BY <1>1, CarriersStay
<1>4. Ends' = Ends /\ Ending' = Ending /\ Now' = Now
  BY <1>1 DEF Ends, Ending, Of, Now
<1>5. \A c \in Commands : ~Sendable(c, live, link)' /\ (Pending(c)' <=> Pending(c))
  BY <1>1, <1>2, <1>3 DEF Sendable, Pending
<1>6. Undisturbed' /\ OneOfEach'
  BY <1>1, <1>2, <1>3, <1>4 DEF Calm, Undisturbed, OneOfEach, Of
<1>7. UpToDate' /\ OnePending' /\ NoRepeat'
  BY <1>1, <1>3, <1>4 DEF Calm, UpToDate, AtWork, Sent, OnePending, NoRepeat
<1>8. WhereDue'
  BY <1>2, <1>3, <1>5 DEF Calm, WhereDue
<1>9. Heard'
  BY <1>5 DEF Heard
<1> QED BY <1>6, <1>7, <1>8, <1>9 DEF Calm

LEMMA OrderAdded ==
    ASSUME IInv, NEW m \in Orders, toWorker' = Append(toWorker, m)
    PROVE  /\ DOMAIN toWorker' = DOMAIN toWorker \cup {Len(toWorker) + 1}
           /\ Len(toWorker) + 1 \notin DOMAIN toWorker
           /\ \A i \in DOMAIN toWorker : toWorker'[i] = toWorker[i]
           /\ toWorker'[Len(toWorker) + 1] = m
           /\ m.kind # "prompt" => Prompts' = Prompts /\ Prompted' = Prompted
           /\ m.kind # "steer" => \A c : Steered(c)' = Steered(c)
           /\ m.kind = "steer" => \A c : Steered(c)' = IF m.task = c THEN Steered(c) \cup {Of(m)}
                                                       ELSE Steered(c)
<1>1. /\ DOMAIN toWorker' = DOMAIN toWorker \cup {Len(toWorker) + 1}
      /\ Len(toWorker) + 1 \notin DOMAIN toWorker
      /\ \A i \in DOMAIN toWorker : toWorker'[i] = toWorker[i]
      /\ toWorker'[Len(toWorker) + 1] = m
  BY ChannelsAreSeqs, AppendHolds
<1>2. ASSUME m.kind # "prompt" PROVE Prompts' = Prompts /\ Prompted' = Prompted
  <2>1. Prompts' = Prompts
    BY <1>1, <1>2 DEF Prompts
  <2>2. \A i \in Prompts : toWorker'[i] = toWorker[i]
    BY <1>1 DEF Prompts
  <2> QED BY <2>1, <2>2 DEF Prompted, Of
<1>3. ASSUME NEW c
      PROVE  Steered(c)' = IF m.kind = "steer" /\ m.task = c THEN Steered(c) \cup {Of(m)}
                           ELSE Steered(c)
  <2>1. Steers(c)' = IF m.kind = "steer" /\ m.task = c THEN Steers(c) \cup {Len(toWorker) + 1}
                     ELSE Steers(c)
    BY <1>1 DEF Steers
  <2>2. \A i \in Steers(c) : toWorker'[i] = toWorker[i]
    BY <1>1 DEF Steers
  <2>3. Steered(c)' = {Of(toWorker'[i]) : i \in Steers(c)'}
    BY DEF Steered, Of
  <2>4. Steered(c) = {Of(toWorker'[i]) : i \in Steers(c)}
    BY <2>2 DEF Steered
  <2>5. CASE m.kind = "steer" /\ m.task = c
    <3>1. Steered(c)' = {Of(toWorker'[i]) : i \in Steers(c)} \cup {Of(toWorker'[Len(toWorker) + 1])}
      BY <2>1, <2>3, <2>5
    <3> QED BY <1>1, <2>4, <2>5, <3>1
  <2>6. CASE ~ (m.kind = "steer" /\ m.task = c)
    BY <2>1, <2>3, <2>4, <2>6
  <2> QED BY <2>5, <2>6
<1> QED BY <1>1, <1>2, <1>3

LEMMA AdvanceCalm ==
    ASSUME IInv, Calm, Retry \/ Stop
    PROVE  Calm'
<1>1. /\ UNCHANGED <<run, round, connected, greeted, turn, prompt, ran, toManager>>
      /\ run = "active" /\ gen' = gen + 1 /\ node' \in {"READY", "FAILED"}
      /\ task' \in {NoCommand, Other}
  BY DEF Retry, Stop, Advance, workerVars
<1>2. \A c \in Commands : /\ live'[c].status # "queued"
                          /\ live'[c].status = "none" <=> live[c].status = "none"
                          /\ link'[c] = "none" <=> link[c] = "none"
  BY TerminatedRows DEF Retry, Stop, Advance, Superseded
<1>3. /\ Prompts' = Prompts /\ Prompted' = Prompted
      /\ \A c : Steered(c)' = Steered(c)
      /\ \A i \in Prompts : toWorker'[i] = toWorker[i]
  <2>1. CASE toWorker' = toWorker
    BY <2>1 DEF Prompts, Prompted, Steered, Steers, Of
  <2>2. CASE toWorker' = Append(toWorker, Interrupt)
    <3>1. Interrupt \in Orders /\ Interrupt.kind = "interrupt"
      BY CommandNumbers DEF Interrupt, Orders
    <3> QED BY <2>2, <3>1, OrderAdded DEF Prompts
  <2> QED BY <2>1, <2>2 DEF Retry, Stop, Advance
<1>4. /\ Busy' = Busy /\ Working' = Working
      /\ \A c : CarriedOut(c)' <=> CarriedOut(c)
      /\ Ends' = Ends /\ Ending' = Ending
  BY <1>1 DEF Busy, Working, CarriedOut, Ends, Ending, Of
<1>5. \A c : Due(c)' = Due(c)
  <2>1. \A c, s : Awaits(c, s)' <=> Awaits(c, s)
    BY <1>1, <1>3 DEF Awaits, Of
  <2> QED BY <1>1, <1>3, <1>4, <2>1 DEF Due, Of
<1>6. \A c \in Commands : ~Sendable(c, live, link)' /\ (Pending(c)' => Pending(c))
  <2>1. \A c \in Commands : task' # c
    BY <1>1, CommandNumbers
  <2> QED BY <1>2, <1>3, <2>1 DEF Sendable, Pending
<1>7. Undisturbed'
  BY <1>1, <1>2, <1>4 DEF Calm, Undisturbed
<1>8. OneOfEach'
  BY <1>1, <1>3, <1>4 DEF Calm, OneOfEach, Of
<1>9. UpToDate'
  <2>1. gen \in Nat /\ round \in Nat /\ Now[2] = gen
    BY TurnsAreNumbers
  <2>2. ASSUME NEW k \in Prompted \cup Working \cup Ending PROVE k[2] < gen + 1
    <3>1. k[2] \in Nat
      BY TurnsAreNumbers
    <3> QED BY <2>1, <3>1 DEF Calm, UpToDate, AtWork
  <2>3. ASSUME NEW c \in Commands, NEW k \in Steered(c) PROVE k[2] < gen + 1 \/ k[1] < round
    <3>1. k[2] \in Nat
      BY TurnsAreNumbers
    <3> QED BY <2>1, <3>1 DEF Calm, UpToDate, Sent
  <2> QED BY <1>1, <1>3, <1>4, <2>2, <2>3 DEF UpToDate, AtWork, Sent
<1>10. WhereDue'
  BY <1>2, <1>4, <1>5, <1>6 DEF Calm, WhereDue
<1>11. OnePending'
  <2>1. \A c \in Commands : task' # c
    BY <1>1, CommandNumbers
  <2> QED BY <1>3, <2>1 DEF Calm, OnePending
<1>12. Heard'
  BY <1>6 DEF Heard
<1>13. NoRepeat'
  BY <1>1 DEF Calm, NoRepeat
<1> QED BY <1>7, <1>8, <1>9, <1>10, <1>11, <1>12, <1>13 DEF Calm

LEMMA DispatchCalm ==
    ASSUME IInv, Calm, Dispatch
    PROVE  Calm'
<1>1. /\ UNCHANGED <<run, round, gen, task, live, link, connected, greeted>>
      /\ UNCHANGED <<turn, prompt, ran, toManager>>
      /\ run = "active" /\ node = "READY" /\ node' = "RUNNING" /\ target' = TRUE
      /\ toWorker' = Append(toWorker, PromptMessage(round, gen, task))
  BY DEF Dispatch, workerVars
<1> PICK m \in Orders : m = PromptMessage(round, gen, task)
  BY TurnsAreNumbers, PromptIsOrder DEF IInv, RunTyped
<1>2. m.kind = "prompt" /\ Of(m) = Now /\ m.task = task
  BY DEF PromptMessage, Of, Now
<1>3. /\ DOMAIN toWorker' = DOMAIN toWorker \cup {Len(toWorker) + 1}
      /\ Len(toWorker) + 1 \notin DOMAIN toWorker
      /\ \A i \in DOMAIN toWorker : toWorker'[i] = toWorker[i]
      /\ toWorker'[Len(toWorker) + 1] = m
      /\ \A c : Steered(c)' = Steered(c)
  BY <1>1, <1>2, OrderAdded
<1>4. /\ Prompts' = Prompts \cup {Len(toWorker) + 1}
      /\ \A i \in Prompts : toWorker'[i] = toWorker[i]
      /\ Len(toWorker) + 1 \notin Prompts
  BY <1>2, <1>3 DEF Prompts
<1>5. Prompted' = Prompted \cup {Now}
  <2>1. Prompted' = {Of(toWorker'[i]) : i \in Prompts} \cup {Of(toWorker'[Len(toWorker) + 1])}
    BY <1>4 DEF Prompted, Of
  <2>2. Prompted = {Of(toWorker'[i]) : i \in Prompts}
    BY <1>4 DEF Prompted
  <2> QED BY <1>2, <1>3, <2>1, <2>2
<1>6. /\ Busy' = Busy /\ Working' = Working
      /\ \A c : CarriedOut(c)' <=> CarriedOut(c)
      /\ Ends' = Ends /\ Ending' = Ending /\ Now' = Now
  BY <1>1 DEF Busy, Working, CarriedOut, Ends, Ending, Of, Now
<1>7. /\ Now \notin Prompted \cup Working \cup Ending
      /\ \A k \in Prompted \cup Working \cup Ending : k[2] < gen
      /\ \A c \in Commands : Sendable(c, live, link) =>
            /\ Due(c) = {} /\ ~CarriedOut(c) /\ ~Pending(c)
            /\ \A t \in Busy : turn[t].phase[c] # "sending"
  BY <1>1, AtRest
<1>8. \A c \in Commands : Now \notin Steered(c)
  BY <1>1, TurnsAreNumbers DEF Calm, UpToDate, Sent
<1>9. \A c \in Commands : Due(c)' = Due(c)
  <2>1. \A c, s : Awaits(c, s)' <=> Awaits(c, s)
    BY <1>1, <1>3 DEF Awaits, Of
  <2> QED BY <1>1, <1>3, <1>5, <1>6, <1>8, <2>1 DEF Due, Of
<1>10. \A c \in Commands : /\ Sendable(c, live, link)' <=> Sendable(c, live, link)
                           /\ Pending(c)' => Pending(c)
  <2>1. ASSUME NEW c \in Commands, NEW i \in Prompts', toWorker'[i].task = c PROVE Pending(c)
    BY <1>1, <1>2, <1>3, <1>4, <2>1 DEF Pending
  <2> QED BY <1>1, <2>1 DEF Sendable, Pending
<1>11. Undisturbed'
  BY <1>1, <1>6 DEF Calm, Undisturbed
<1>12. OneOfEach'
  <2>1. \A i \in Prompts : Of(toWorker[i]) # Now
    BY <1>7 DEF Prompted
  <2>2. \A i, j \in Prompts' : Of(toWorker'[i]) = Of(toWorker'[j]) => i = j
    BY <1>2, <1>3, <1>4, <2>1 DEF Calm, OneOfEach
  <2>3. /\ \A s, t \in Busy' : Of(turn'[s]) = Of(turn'[t]) => s = t
        /\ \A i, j \in Ends' : Of(toManager'[i]) = Of(toManager'[j]) => i = j
        /\ Prompted' \cap Working' = {} /\ Prompted' \cap Ending' = {}
        /\ Working' \cap Ending' = {}
    BY <1>1, <1>5, <1>6, <1>7 DEF Calm, OneOfEach
  <2> QED BY <2>2, <2>3 DEF OneOfEach, Of
<1>13. UpToDate'
  BY <1>1, <1>3, <1>5, <1>6, <1>7 DEF Calm, UpToDate, AtWork, Sent
<1>14. WhereDue'
  BY <1>1, <1>6, <1>9, <1>10 DEF Calm, WhereDue
<1>15. OnePending'
  <2>1. ASSUME NEW c \in Commands, NEW i \in Prompts', NEW j \in Prompts',
               toWorker'[i].task = c, toWorker'[j].task = c
        PROVE  i = j
    <3>1. task = c => \A x \in Prompts : toWorker'[x].task # c
      BY <1>1, <1>4 DEF Calm, OnePending
    <3>2. CASE i \in Prompts /\ j \in Prompts
      BY <1>4, <2>1, <3>2 DEF Calm, OnePending
    <3>3. CASE i \notin Prompts \/ j \notin Prompts
      BY <1>2, <1>3, <1>4, <2>1, <3>1, <3>3
    <3> QED BY <3>2, <3>3
  <2> QED BY <1>1, <2>1 DEF OnePending
<1>16. Heard'
  <2>1. ASSUME NEW c \in Commands, Sendable(c, live, link)'
        PROVE  ~CarriedOut(c)' /\ \A t \in Busy' : turn'[t].phase[c] # "sending"
    BY <1>1, <1>6, <1>7, <1>10, <2>1
  <2> QED BY <2>1 DEF Heard
<1>17. NoRepeat'
  BY <1>1 DEF Calm, NoRepeat
<1> QED BY <1>11, <1>12, <1>13, <1>14, <1>15, <1>16, <1>17 DEF Calm

(* A command is sent into the turn at work, which it can reach only once.  *)
LEMMA SentCalm ==
    ASSUME IInv, Calm, NEW c \in Commands, run = "active",
           NEW rows \in [Commands -> [status : {"none"} \cup Outstanding \cup Ended,
                                      round : 0 .. MaxRounds]],
           \/ rows = live /\ live[c].status # "none"
           \/ /\ live[c].status = "none" /\ rows[c].status = "queued" /\ rows[c].round = round
              /\ \A d \in Commands : d # c => rows[d] = live[d],
           TrySend(c, rows),
           UNCHANGED <<runVars, link, target, connected, greeted, turn, prompt, ran, toManager>>
    PROVE  Calm'
<1> DEFINE sent == Sendable(c, rows, link) /\ Reachable
           new == live[c].status = "none"
<1>1. UNCHANGED <<run, round, node, gen, task>>
  BY DEF runVars
<1>2. /\ \A d \in Commands : live'[d].status = rows[d].status
      /\ \A d \in Commands : d # c => live'[d] = live[d]
      /\ sent => live'[c].round = round
      /\ ~sent => live' = rows
  <2>1. live' = [rows EXCEPT ![c].round = round] \/ live' = rows
    BY DEF TrySend
  <2>2. sent => live' = [rows EXCEPT ![c].round = round]
    BY DEF TrySend
  <2> QED BY <2>1, <2>2 DEF TrySend
<1> HIDE DEF sent, new
<1>3. /\ ~new => rows = live
      /\ new => live'[c].status = "queued" /\ live'[c].round = round
  BY <1>2 DEF new
<1>4. /\ Prompts' = Prompts /\ Prompted' = Prompted
      /\ \A i \in Prompts : toWorker'[i] = toWorker[i]
      /\ \A d : Steered(d)' = IF sent /\ d = c THEN Steered(d) \cup {Now} ELSE Steered(d)
  <2>1. CASE sent
    <3>1. PICK m \in Orders : m = SteerMessage(c, round, gen)
      BY TurnsAreNumbers, SteerIsOrder
    <3>2. m.kind = "steer" /\ m.task = c /\ Of(m) = Now
      BY <3>1 DEF SteerMessage, Of, Now
    <3>3. toWorker' = Append(toWorker, m)
      BY <2>1, <3>1 DEF TrySend, sent
    <3> QED BY <2>1, <3>2, <3>3, OrderAdded DEF Prompts
  <2>2. CASE ~sent
    <3>1. toWorker' = toWorker
      BY <2>2 DEF TrySend, sent
    <3> QED BY <2>2, <3>1 DEF Prompts, Prompted, Steered, Steers, Of
  <2> QED BY <2>1, <2>2
<1>5. /\ Busy' = Busy /\ Working' = Working
      /\ \A d : CarriedOut(d)' <=> CarriedOut(d)
      /\ Ends' = Ends /\ Ending' = Ending /\ Now' = Now
      /\ \A d \in Commands : Pending(d)' <=> Pending(d)
  BY <1>1, <1>4 DEF Busy, Working, CarriedOut, Ends, Ending, Of, Now, Pending
<1>6. /\ \A d : d # c => Due(d)' = Due(d)
      /\ ~sent => Due(c)' = Due(c)
      /\ Due(c)' \subseteq Due(c) \cup {Now}
  <2>1. \A d, s : d # c \/ ~sent => (Awaits(d, s)' <=> Awaits(d, s))
    BY <1>4 DEF Awaits, Of
  <2>2. \A s : Awaits(c, s)' => Awaits(c, s) \/ Of(turn[s]) = Now
    BY <1>4 DEF Awaits, Of
  <2>3. \A d : d # c \/ ~sent => Due(d)' = Due(d)
    BY <1>4, <1>5, <2>1 DEF Due, Of
  <2>4. Due(c)' \subseteq Due(c) \cup {Now}
    BY <1>4, <1>5, <2>2 DEF Due, Of
  <2> QED BY <2>3, <2>4
<1>7. sent => node = "RUNNING" /\ link[c] = "none" /\ rows[c].status = "queued"
  BY DEF sent, Sendable, Reachable
<1>8. new => Due(c) = {} /\ ~CarriedOut(c) /\ link[c] = "none"
  BY DEF new, Calm, WhereDue
<1>9. ~new /\ sent => Sendable(c, live, link)
  BY <1>3 DEF sent
<1>10. \A d \in Commands : Sendable(d, live, link)' =>
          (Sendable(d, live, link) \/ (d = c /\ new))
  BY <1>2, <1>3 DEF Sendable
<1>11. ASSUME sent, CarriedOut(c) PROVE Due(c)' = {}
  <2>1. Sendable(c, live, link) /\ Due(c) = {}
    BY <1>8, <1>9, <1>11 DEF Calm, WhereDue
  <2>2. Now \notin Prompted /\ \A t \in Busy : Of(turn[t]) = Now => turn[t].phase[c] # "none"
    BY <1>11, <2>1 DEF Calm, Heard
  <2> SUFFICES ASSUME NEW k \in Due(c)' PROVE FALSE
    OBVIOUS
  <2>3. k = Now
    BY <1>6, <2>1
  <2>4. PICK s \in Busy : Awaits(c, s)' /\ Of(turn[s]) = k
    BY <1>4, <1>5, <2>2, <2>3 DEF Due, Of
  <2>5. turn[s].phase[c] # "none"
    BY <2>2, <2>3, <2>4
  <2>6. Awaits(c, s)
    BY <2>4, <2>5 DEF Awaits
  <2> QED BY <2>1, <2>6 DEF Due
<1>12. Undisturbed'
  BY <1>1, <1>5 DEF Calm, Undisturbed
<1>13. OneOfEach'
  BY <1>4, <1>5 DEF Calm, OneOfEach, Of
<1>14. UpToDate'
  <2>1. \A k \in Prompted' \cup Working' \cup Ending' : AtWork(k)'
    BY <1>1, <1>4, <1>5 DEF Calm, UpToDate, AtWork
  <2>2. \A d \in Commands : \A k \in Steered(d)' : Sent(k)'
    BY <1>1, <1>4, <1>5, <1>7 DEF Calm, UpToDate, Sent
  <2> QED BY <2>1, <2>2 DEF UpToDate
<1>15. WhereDue'
  <2> SUFFICES ASSUME NEW d \in Commands
      PROVE  /\ Sendable(d, live, link)' => /\ Due(d)' \subseteq {Now'}
                                            /\ Due(d)' # {} => live'[d].round = round'
             /\ live'[d].status = "none" => Due(d)' = {} /\ ~CarriedOut(d)' /\ link'[d] = "none"
             /\ Pending(d)' => Due(d)' = {} /\ ~CarriedOut(d)' /\ link'[d] # "none"
             /\ CarriedOut(d)' => Due(d)' = {}
             /\ \A k, l \in Due(d)' : k = l
    BY DEF WhereDue
  <2>1. /\ Sendable(d, live, link) => /\ Due(d) \subseteq {Now}
                                      /\ Due(d) # {} => live[d].round = round
        /\ live[d].status = "none" => Due(d) = {} /\ ~CarriedOut(d) /\ link[d] = "none"
        /\ Pending(d) => Due(d) = {} /\ ~CarriedOut(d) /\ link[d] # "none"
        /\ CarriedOut(d) => Due(d) = {}
        /\ \A k, l \in Due(d) : k = l
    BY DEF Calm, WhereDue
  <2>2. (CarriedOut(d)' <=> CarriedOut(d)) /\ (Pending(d)' <=> Pending(d)) /\ Now' = Now
    BY <1>5
  <2>3. CASE d # c
    <3>1. Due(d)' = Due(d) /\ live'[d] = live[d]
      BY <1>2, <1>6, <2>3
    <3> QED BY <1>1, <1>10, <2>1, <2>2, <2>3, <3>1
  <2>4. CASE d = c /\ sent
    <3>1. Due(c) \subseteq {Now}
      BY <1>8, <1>9, <2>1, <2>4
    <3>2. Due(c)' \subseteq {Now}
      BY <1>6, <3>1
    <3>3. live'[c].status # "none" /\ link[c] = "none"
      BY <1>2, <1>7, <2>4
    <3> QED BY <1>1, <1>2, <1>11, <2>1, <2>2, <2>4, <3>2, <3>3
  <2>5. CASE d = c /\ ~sent
    <3>1. Due(c)' = Due(c) /\ live' = rows
      BY <1>2, <1>6, <2>5
    <3>2. CASE new
      BY <1>3, <1>8, <2>1, <2>2, <2>5, <3>1, <3>2
    <3>3. CASE ~new
      BY <1>1, <1>3, <1>10, <2>1, <2>2, <2>5, <3>1, <3>3
    <3> QED BY <3>2, <3>3
  <2> QED BY <2>3, <2>4, <2>5
<1>16. OnePending'
  BY <1>1, <1>4 DEF Calm, OnePending
<1>17. Heard'
  <2> SUFFICES ASSUME NEW d \in Commands, Sendable(d, live, link)'
               PROVE  /\ (\E s \in Busy' : turn'[s].phase[d] = "sending") => News(d)'
                      /\ CarriedOut(d)' => /\ News(d)'
                                           /\ Now' \notin Prompted'
                                           /\ \A s \in Busy' : Of(turn'[s]) = Now'
                                                 => turn'[s].phase[d] # "none"
    BY DEF Heard, Of
  <2>1. CASE d = c /\ new
    <3>1. \A s \in Busy : turn[s].phase[c] # "sending"
      BY <1>8, <2>1 DEF Due, Awaits
    <3> QED BY <1>5, <1>8, <2>1, <3>1
  <2>2. CASE ~ (d = c /\ new)
    <3>1. Sendable(d, live, link)
      BY <1>10, <2>2
    <3>2. live'[d].round = live[d].round \/ live'[d].round = round
      BY <1>2, <1>3, <2>2
    <3>3. News(d) => News(d)'
      <4>1. UNCHANGED <<run, round, node, toManager, gen>>
        BY <1>1
      <4> QED BY <1>5, <3>2, <4>1 DEF News, Of
    <3> QED BY <1>4, <1>5, <3>1, <3>3 DEF Calm, Heard
  <2> QED BY <2>1, <2>2
<1>18. NoRepeat'
  BY DEF Calm, NoRepeat
<1> QED BY <1>12, <1>13, <1>14, <1>15, <1>16, <1>17, <1>18 DEF Calm

LEMMA SendCalm ==
    ASSUME IInv, Calm, NEW c \in Commands, SendLiveCommand(c) \/ Resend(c)
    PROVE  Calm'
<1> DEFINE Rows == [Commands -> [status : {"none"} \cup Outstanding \cup Ended,
                                 round : 0 .. MaxRounds]]
           queued == [live EXCEPT ![c] = [status |-> "queued", round |-> round]]
<1>1. /\ UNCHANGED <<runVars, link, target, connected, greeted, turn, prompt, ran, toManager>>
      /\ run = "active"
  BY DEF SendLiveCommand, Resend, workerVars
<1>2. live \in Rows /\ queued \in Rows
  <2>1. [status |-> "queued", round |-> round] \in
            [status : {"none"} \cup Outstanding \cup Ended, round : 0 .. MaxRounds]
    BY BoundsAssumption DEF IInv, RunTyped, Outstanding
  <2> QED BY <2>1 DEF IInv, RowsTyped
<1>3. /\ queued[c].status = "queued" /\ queued[c].round = round
      /\ \A d \in Commands : d # c => queued[d] = live[d]
  BY <1>2
<1>4. \/ TrySend(c, live) /\ live[c].status # "none"
      \/ TrySend(c, queued) /\ live[c].status = "none"
  BY DEF SendLiveCommand, Resend
<1> HIDE DEF queued
<1> QED BY <1>1, <1>2, <1>3, <1>4, SentCalm

-----------------------------------------------------------------------------
LEMMA InitCalm == Init => OnceInv
<1> SUFFICES ASSUME Init PROVE OnceInv
  OBVIOUS
<1>1. IInv
  BY InitInv
<1>2. /\ toWorker = <<>> /\ toManager = <<>> /\ ran = <<>> /\ prompt = 0
      /\ \A t \in Turns : turn[t] = NoTurn
      /\ \A c \in Commands : live[c].status = "none" /\ link[c] = "none"
      /\ run = "active" /\ node = "READY" /\ task = NoCommand
      /\ connected /\ greeted /\ restarts = 0 /\ disconnects = 0
  BY DEF Init
<1>3. Prompts = {} /\ Ends = {} /\ Prompted = {} /\ Ending = {} /\ \A c : Steered(c) = {}
  BY <1>2 DEF Prompts, Ends, Prompted, Ending, Steered, Steers
<1>4. Busy = {} /\ Working = {} /\ \A c : Due(c) = {}
  <2>1. Busy = {}
    BY <1>2 DEF Busy, NoTurn
  <2> QED BY <1>3, <2>1 DEF Working, Due
<1>5. \A c \in Commands : ~CarriedOut(c) /\ ~Pending(c) /\ ~Sendable(c, live, link)
  <2>1. \A c : ~CarriedOut(c)
    BY <1>2 DEF CarriedOut
  <2>2. \A c \in Commands : ~Pending(c)
    BY <1>2, <1>3, CommandNumbers DEF Pending
  <2>3. \A c \in Commands : ~Sendable(c, live, link)
    BY <1>2 DEF Sendable
  <2> QED BY <2>1, <2>2, <2>3
<1>6. Undisturbed
  BY <1>2 DEF Undisturbed, NoTurn
<1>7. OneOfEach /\ UpToDate /\ WhereDue /\ Heard /\ NoRepeat
  BY <1>2, <1>3, <1>4, <1>5 DEF OneOfEach, UpToDate, WhereDue, Heard, NoRepeat
<1>8. OnePending
  BY <1>2, <1>3 DEF OnePending
<1>9. Faults
  BY <1>2 DEF Faults
<1> QED BY <1>1, <1>6, <1>7, <1>8, <1>9 DEF OnceInv, Calm

(* A restart or a lost connection may lose messages for good.              *)
LEMMA FaultsCount ==
    ASSUME Faults, Disconnect \/ Restart
    PROVE  Faults' /\ ~Lossless'
<1>1. CASE Disconnect
  <2>1. restarts' = restarts /\ disconnects' = disconnects + 1
    BY <1>1 DEF Disconnect
  <2> QED BY <2>1 DEF Faults, Lossless
<1>2. CASE Restart
  <2>1. disconnects' = disconnects /\ restarts' = restarts + 1
    BY <1>2 DEF Restart
  <2> QED BY <2>1 DEF Faults, Lossless
<1> QED BY <1>1, <1>2

LEMMA CalmStays ==
    ASSUME Calm, UNCHANGED vars
    PROVE  Calm'
<1>1. /\ UNCHANGED <<run, round, node, gen, task, live, link, target, connected, greeted>>
      /\ UNCHANGED <<turn, prompt, ran, toWorker, toManager>>
  BY DEF vars, runVars, workerVars
<1>2. /\ Prompts' = Prompts /\ Prompted' = Prompted
      /\ Busy' = Busy /\ Working' = Working
      /\ \A c : Steered(c)' = Steered(c) /\ Due(c)' = Due(c)
      /\ \A c : CarriedOut(c)' <=> CarriedOut(c)
  BY <1>1, CarriersStay
<1>3. Ends' = Ends /\ Ending' = Ending /\ Now' = Now
  BY <1>1 DEF Ends, Ending, Of, Now
<1>4. \A c : /\ Sendable(c, live, link)' <=> Sendable(c, live, link)
             /\ Pending(c)' <=> Pending(c)
             /\ News(c)' <=> News(c)
  BY <1>1, <1>2, <1>3 DEF Sendable, Pending, News, Of
<1>5. Undisturbed' /\ OneOfEach'
  BY <1>1, <1>2, <1>3 DEF Calm, Undisturbed, OneOfEach, Of
<1>6. UpToDate' /\ OnePending' /\ NoRepeat'
  BY <1>1, <1>2, <1>3 DEF Calm, UpToDate, AtWork, Sent, OnePending, NoRepeat
<1>7. WhereDue'
  BY <1>1, <1>2, <1>3, <1>4 DEF Calm, WhereDue
<1>8. Heard'
  BY <1>1, <1>2, <1>3, <1>4 DEF Calm, Heard
<1> QED BY <1>5, <1>6, <1>7, <1>8 DEF Calm

LEMMA StepOnce == OnceInv /\ [Next]_vars => OnceInv'
<1> SUFFICES ASSUME OnceInv, [Next]_vars PROVE OnceInv'
  OBVIOUS
<1>1. IInv /\ Faults /\ IInv'
  BY Step DEF OnceInv
<1>2. CASE Disconnect \/ Restart
  BY <1>1, <1>2, FaultsCount DEF OnceInv
<1>3. CASE Connect
  <2>1. ~connected \/ ~greeted
    BY <1>3 DEF Connect, Reconnect, FirstWorkerRegisters
  <2>2. ~Lossless /\ UNCHANGED <<restarts, disconnects>>
    BY <1>3, <2>1 DEF OnceInv, Calm, Undisturbed, Connect, Reconnect, FirstWorkerRegisters, bounds
  <2> QED BY <1>1, <2>2 DEF OnceInv, Faults, Lossless
<1>4. CASE UNCHANGED <<restarts, disconnects>> /\ (Calm => Calm')
  BY <1>1, <1>4 DEF OnceInv, Faults, Lossless
<1>5. CASE UNCHANGED vars
  BY <1>1, <1>4, <1>5, CalmStays DEF vars, bounds
<1>6. ASSUME NEW c \in Commands, SendLiveCommand(c) \/ Resend(c) PROVE OnceInv'
  <2>1. UNCHANGED <<restarts, disconnects>>
    BY <1>6 DEF SendLiveCommand, Resend, bounds
  <2> QED BY <1>1, <1>4, <1>6, <2>1, SendCalm
<1>7. ASSUME NEW t \in Turns, TurnStep(t) PROVE OnceInv'
  <2>1. UNCHANGED <<restarts, disconnects>>
    BY <1>7 DEF TurnStep, ReceivePrompt, CloseTurn, FinishTurn, Steer, Applied, Progress, bounds
  <2> QED BY <1>1, <1>4, <1>7, <2>1, ReceivePromptCalm, CloseCalm, FinishCalm, ProgressCalm
          DEF TurnStep
<1>8. CASE Receive
  <2>1. UNCHANGED <<restarts, disconnects>>
    BY <1>8 DEF Receive, ReceiveCommand, ReceiveInterrupt, ReceiveStatus, ReceiveHandoff,
                ReceiveError, bounds
  <2> QED BY <1>1, <1>4, <1>8, <2>1, ReceiveCommandCalm, CloseCalm, ReceiveStatusCalm,
             ReceiveEndCalm DEF Receive
<1>9. CASE Proceed \/ Resume \/ ResumeOthers \/ EndRun \/ Retry \/ Stop
  <2>1. UNCHANGED <<restarts, disconnects>>
    BY <1>9 DEF Proceed, Dispatch, ReachBoundary, CompleteRun, Resume, ResumeOthers, EndRun,
                Retry, Stop, Advance, bounds
  <2> QED BY <1>1, <1>4, <1>9, <2>1, DispatchCalm, BoundaryCalm, EndRunCalm, AdvanceCalm
          DEF Proceed, CompleteRun
<1> QED BY <1>2, <1>3, <1>5, <1>6, <1>7, <1>8, <1>9 DEF Next

(* As long as no message is lost, no live command is carried out twice: at *)
(* any moment a command that could still be sent or fall back is due at    *)
(* most in the current turn, and the Manager hears of it before the turn   *)
(* ends.                                                                   *)
THEOREM CarriedOutAtMostOnce == Spec => []CarriedOutOnce
<1>1. OnceInv => CarriedOutOnce
  BY DEF OnceInv, Calm, NoRepeat, CarriedOutOnce
<1>2. Spec => []OnceInv
  BY InitCalm, StepOnce, PTL DEF Spec
<1> QED BY <1>1, <1>2, PTL
=============================================================================
