---------------------------- MODULE LiveSteering ----------------------------
(***************************************************************************)
(* Live commands: instructions sent to an actor while it works.  A command *)
(* is stored first and then steered into the turn that the actor's Worker  *)
(* has open; one that no turn takes waits in its row for the next boundary *)
(* of the run, where it becomes the command of a new round.                *)
(*                                                                         *)
(* One actor of one run, and the Worker it is leased to; of other actors   *)
(* there are only the rounds that command them and not this one.  Two      *)
(* channels carry prompts, commands and interrupts to the Worker, and      *)
(* statuses, handoffs and errors back; a closed socket drops what is sent, *)
(* and what was under way is lost.  Restarts of the Manager, interventions *)
(* on the actor and user commands at the boundaries interfere.             *)
(*                                                                         *)
(* Commands are numbered as they are stored, so that a command is its      *)
(* sequence number.  The lease of the actor, the choice of Workers (module *)
(* WorkerLifecycle) and the corrections of failed turns are left out; the  *)
(* fence of a message is its round and its actor generation.               *)
(***************************************************************************)
EXTENDS Integers, Sequences, FiniteSets

CONSTANTS
    Backends,        \* backends of the actor: do they take live commands (TRUE)
    Targetings,      \* sets of rounds whose await node targets the actor
    MaxCommands,     \* bound: live commands
    MaxRounds,       \* bound: rounds, the last of which completes the run
    MaxGenerations,  \* bound: generations of the actor
    MaxTurns,        \* bound: turns the Worker has open at a time
    MaxResends,      \* bound: commands steered again by a repeated request
    MaxRestarts,     \* bound: restarts of the Manager
    MaxDisconnects   \* bound: sockets that close by themselves

ASSUME BackendsAssumption == Backends \subseteq BOOLEAN
ASSUME TargetingsAssumption == Targetings \subseteq SUBSET Nat
ASSUME BoundsAssumption ==
    /\ {MaxRounds, MaxGenerations} \subseteq Nat \ {0}
    /\ {MaxCommands, MaxTurns, MaxResends, MaxRestarts, MaxDisconnects} \subseteq Nat

Commands == 1 .. MaxCommands
Turns    == 1 .. MaxTurns

(* The command of a round is a live command, another one (of a user at the *)
(* boundary, or repeated by an intervention), or none.                     *)
NoCommand == 0
Other == MaxCommands + 1
Tasks == 0 .. Other

VARIABLES
    run, round, node,   \* the run, its current round and the actor's node
    gen,                \* generation of the actor
    task,               \* command of the current round and generation
    live,               \* rows of dag_actor_live_commands
    link,               \* status of the round command a live command became
    target,             \* does the dispatch tracker know the Worker
    connected,          \* is the socket of the Worker open
    greeted,            \* has a Worker registered since the Manager started
    steerable,          \* does the backend of the actor take live commands
    targeting,          \* rounds whose await node targets the actor
    turn,               \* turns of the Worker
    prompt,             \* activePrompt: the turn commands go to, 0 if none
    toWorker, toManager, \* the channels
    resends, restarts, disconnects,
    ran                 \* history: live commands in the order they were carried out

setting    == <<steerable, targeting>>
runVars    == <<run, round, node, gen, task>>
workerVars == <<turn, prompt, ran>>
bounds     == <<resends, restarts, disconnects>>
vars == <<runVars, live, link, target, connected, greeted, setting, workerVars,
          toWorker, toManager, bounds>>

Outstanding == {"queued", "delivered", "applied"}
Ended       == {"completed", "rejected", "failed", "superseded", "cancelled"}

NoTurn == [state |-> "none", round |-> 0, gen |-> 0, task |-> NoCommand,
           phase |-> [c \in Commands |-> "none"]]

Init ==
    /\ run = "active" /\ round = 1 /\ node = "READY" /\ gen = 1 /\ task = NoCommand
    /\ live = [c \in Commands |-> [status |-> "none", round |-> 0]]
    /\ link = [c \in Commands |-> "none"]
    /\ target = FALSE /\ connected = TRUE /\ greeted = TRUE
    /\ steerable \in Backends /\ targeting \in Targetings
    /\ turn = [t \in Turns |-> NoTurn] /\ prompt = 0
    /\ toWorker = <<>> /\ toManager = <<>>
    /\ resends = 0 /\ restarts = 0 /\ disconnects = 0
    /\ ran = <<>>

Terminated(rows, status) ==
    [c \in Commands |-> IF rows[c].status \in Outstanding
                        THEN [rows[c] EXCEPT !.status = status] ELSE rows[c]]

Unclaimed == [c \in Commands |-> IF link[c] = "pending" THEN "cancelled" ELSE link[c]]

(* The commands of a set in the order of their numbers.                    *)
InOrder(set) ==
    LET places == 1 .. Cardinality(set)
    IN  {queue \in [places -> set] : \A i, j \in places : i < j => queue[i] < queue[j]}

----------------------------------------------------------------------------
(* The Manager stores and sends.                                           *)

PromptMessage(r, g, c) == [kind |-> "prompt", round |-> r, gen |-> g, task |-> c]
SteerMessage(c, r, g)  == [kind |-> "steer", round |-> r, gen |-> g, task |-> c]
Interrupt == [kind |-> "interrupt", round |-> 0, gen |-> 0, task |-> NoCommand]

(* Fault: the round command a live command became is not looked for. *)
QueuedOnly(c, rows, links) == rows[c].status = "queued"

(* trySendDagActorLiveCommand passes its tests up to the state of the run: *)
(* the row is queued and no round has the command.  The row of a round     *)
(* command that ended has ended with it.                                   *)
Sendable(c, rows, links) == rows[c].status = "queued" /\ links[c] = "none"

(* The rest of its tests: otherwise the command stays queued for the next  *)
(* boundary.                                                               *)
Reachable == run = "active" /\ node = "RUNNING" /\ target /\ connected

(* recordDagActorLiveCommandSendAttempt binds the row to the round.        *)
TrySend(c, rows) ==
    IF Sendable(c, rows, link) /\ Reachable
    THEN /\ live' = [rows EXCEPT ![c].round = round]
         /\ toWorker' = Append(toWorker, SteerMessage(c, round, gen))
    ELSE live' = rows /\ UNCHANGED toWorker

(* sendDagActorLiveCommands, with a command of its own or again.           *)
SendLiveCommand(c) ==
    /\ run = "active"
    /\ live[c].status = "none"
    /\ \A b \in Commands : b < c => live[b].status # "none"
    /\ TrySend(c, [live EXCEPT ![c] = [status |-> "queued", round |-> round]])
    /\ UNCHANGED <<runVars, link, target, connected, greeted, setting, workerVars,
                   toManager, bounds>>

Resend(c) ==
    /\ run = "active"
    /\ live[c].status # "none"
    /\ IF Sendable(c, live, link) /\ Reachable
       THEN resends < MaxResends /\ resends' = resends + 1
       ELSE UNCHANGED resends
    /\ TrySend(c, live)
    /\ UNCHANGED <<runVars, link, target, connected, greeted, setting, workerVars,
                   toManager, restarts, disconnects>>

(* The node is dispatched with the command of the round.                   *)
Dispatch ==
    /\ run = "active" /\ node = "READY" /\ connected
    /\ node' = "RUNNING"
    /\ target' = TRUE
    /\ toWorker' = Append(toWorker, PromptMessage(round, gen, task))
    /\ UNCHANGED <<run, round, gen, task, live, link, connected, greeted, setting,
                   workerVars, toManager, bounds>>

----------------------------------------------------------------------------
(* Boundaries of the run.                                                  *)

First(rows) ==
    LET queue == {c \in Commands : rows[c].status \in Outstanding}
    IN  IF queue = {} THEN NoCommand ELSE CHOOSE c \in queue : \A b \in queue : c <= b

(* target_actors of the await node: it names the actor, or no actor.       *)
Targeted == round \in targeting

(* consumeDagActorLiveCommandFallbacksAtBoundary takes the first command   *)
(* that has not ended if it is queued and the await node targets the actor;*)
(* otherwise the row only gets a reason.  createDagActorCommand refuses an *)
(* id that already belongs to another round, and the run goes on waiting.  *)
Consumable(c) == c # NoCommand /\ Targeted /\ live[c].status = "queued" /\ link[c] = "none"

OpenRound(c) ==
    /\ run' = "active"
    /\ round' = round + 1
    /\ node' = "READY"
    /\ task' = c
    /\ UNCHANGED gen

ConsumeOrWait(c) ==
    \/ /\ Consumable(c)
       /\ OpenRound(c)
       /\ link' = [link EXCEPT ![c] = "pending"]
    \/ /\ ~Consumable(c)
       /\ run' = "waiting"
       /\ UNCHANGED <<round, node, gen, task, link>>

(* The await node of the graph is reached.                                 *)
ReachBoundary ==
    /\ run = "active" /\ node \in {"COMPLETED", "FAILED"}
    /\ round < MaxRounds
    /\ ConsumeOrWait(First(live))
    /\ UNCHANGED <<live, target, connected, greeted, setting, workerVars, toWorker,
                   toManager, bounds>>

(* resumeWaitingActiveRun with a user's command to the actor, which the    *)
(* await node has to target, ...                                           *)
Resume ==
    /\ run = "waiting" /\ round < MaxRounds
    /\ Targeted
    /\ OpenRound(Other)
    /\ UNCHANGED <<live, link, target, connected, greeted, setting, workerVars,
                   toWorker, toManager, bounds>>

(* ... or with commands to other actors, live ones at the boundary among   *)
(* them: the actor's node keeps its result through their round.            *)
ResumeOthers ==
    /\ run = "waiting" /\ round < MaxRounds
    /\ run' = "active"
    /\ round' = round + 1
    /\ task' = NoCommand
    /\ UNCHANGED <<node, gen, live, link, target, connected, greeted, setting, workerVars,
                   toWorker, toManager, bounds>>

(* _persistTerminalRun; the run may end at any time, and ends after the    *)
(* last round.                                                             *)
EndRun ==
    /\ run # "ended"
    /\ run' = "ended"
    /\ live' = Terminated(live, "cancelled")
    /\ link' = Unclaimed
    /\ UNCHANGED <<round, node, gen, task, target, connected, greeted, setting,
                   workerVars, toWorker, toManager, bounds>>

CompleteRun ==
    /\ run = "active" /\ node \in {"COMPLETED", "FAILED"}
    /\ round = MaxRounds
    /\ EndRun

----------------------------------------------------------------------------
(* _applyPersistedDagActorIntervention: the generation of the actor is     *)
(* advanced, what was sent to the old one is superseded.                   *)

(* Fault: commands the turn already has are kept. *)
QueuedSuperseded(rows) ==
    [c \in Commands |-> IF rows[c].status = "queued"
                        THEN [rows[c] EXCEPT !.status = "superseded"] ELSE rows[c]]

Superseded(rows) == Terminated(rows, "superseded")

Advance ==
    /\ run = "active"
    /\ gen < MaxGenerations
    /\ gen' = gen + 1
    /\ link' = Unclaimed
    /\ live' = Superseded(live)
    /\ target' = FALSE
    /\ toWorker' = IF target /\ connected THEN Append(toWorker, Interrupt) ELSE toWorker
    /\ UNCHANGED <<run, round, connected, greeted, setting, workerVars, toManager, bounds>>

(* retry, reassign, checkpoint_fork: the node starts over; after the first *)
(* round there must be a command to repeat.                                *)
Retry ==
    /\ round > 1 => task # NoCommand
    /\ task' = IF task = NoCommand THEN NoCommand ELSE Other
    /\ node' = "READY"
    /\ Advance

(* interrupt, cancel                                                       *)
Stop ==
    /\ task' = NoCommand
    /\ node' = "FAILED"
    /\ Advance

----------------------------------------------------------------------------
(* The Worker.                                                             *)

(* Fault: what cannot be sent is kept for the next connection. *)
PostLater(messages) == toManager' = toManager \o messages

(* A message on a socket that is not open is dropped.                      *)
Post(messages) == toManager' = IF connected THEN toManager \o messages ELSE toManager

FromManager(kind) == toWorker # <<>> /\ toWorker[1].kind = kind

(* A prompt opens a turn and becomes the active one, whatever was active.  *)
ReceivePrompt(t) ==
    /\ FromManager("prompt")
    /\ turn[t].state = "none"
    /\ \A s \in Turns : s < t => turn[s].state # "none"
    /\ turn' = [turn EXCEPT ![t] = [NoTurn EXCEPT !.state = "open",
                                                  !.round = toWorker[1].round,
                                                  !.gen = toWorker[1].gen,
                                                  !.task = toWorker[1].task]]
    /\ prompt' = t
    /\ ran' = IF toWorker[1].task \in Commands THEN Append(ran, toWorker[1].task) ELSE ran
    /\ toWorker' = Tail(toWorker)
    /\ UNCHANGED <<runVars, live, link, target, connected, greeted, setting,
                   toManager, bounds>>

Unfinished == {"queued", "sending", "applied"}
StatusOf(phase) == IF phase = "sending" THEN "accepted" ELSE phase

Status(c, m, what) == [kind |-> "status", what |-> what, round |-> m.round, gen |-> m.gen,
                       task |-> c]

Taken(t) == {c \in Commands : turn[t].phase[c] \in Unfinished \cup {"completed", "failed"}}

(* AgentTurnController.steer, for a command the turn does not know.        *)
PhaseOf(c, t) ==
    IF ~steerable THEN "unsupported"
    ELSE IF turn[t].state # "open" \/ \E b \in Taken(t) : c <= b THEN "rejected"
    ELSE "queued"

SamePrompt(m, t) == t # 0 /\ turn[t].round = m.round /\ turn[t].gen = m.gen

(* routeDagActorCommand: a command for no turn or for another one is       *)
(* rejected, a known one is reported again, another one is taken or not.   *)
ReceiveCommand ==
    /\ FromManager("steer")
    /\ LET m == toWorker[1]
           c == m.task
           answer(phase) == Post(IF phase = "queued" THEN <<>>
                                 ELSE <<Status(c, m, StatusOf(phase))>>)
       IN  \/ ~SamePrompt(m, prompt) /\ answer("rejected") /\ UNCHANGED turn
           \/ /\ SamePrompt(m, prompt) /\ turn[prompt].phase[c] # "none"
              /\ answer(turn[prompt].phase[c])
              /\ UNCHANGED turn
           \/ /\ SamePrompt(m, prompt) /\ turn[prompt].phase[c] = "none"
              /\ turn' = [turn EXCEPT ![prompt].phase[c] = PhaseOf(c, prompt)]
              /\ answer(PhaseOf(c, prompt))
    /\ toWorker' = Tail(toWorker)
    /\ UNCHANGED <<runVars, live, link, target, connected, greeted, setting, prompt, ran,
                   bounds>>

(* drain: one command at a time is handed to the provider, in order, and   *)
(* submitted or refused.                                                   *)
Progress(t, c, phase) ==
    /\ turn[t].state = "open"
    /\ turn' = [turn EXCEPT ![t].phase[c] = phase]
    /\ Post(<<Status(c, turn[t], StatusOf(phase))>>)
    /\ UNCHANGED <<runVars, live, link, target, connected, greeted, setting, prompt,
                   toWorker, bounds>>

Steer(t, c) ==
    /\ turn[t].phase[c] = "queued"
    /\ \A b \in Commands : turn[t].phase[b] # "sending"
    /\ \A b \in Commands : b < c => turn[t].phase[b] # "queued"
    /\ Progress(t, c, "sending")
    /\ UNCHANGED ran

Applied(t, c) ==
    /\ turn[t].phase[c] = "sending"
    /\ \/ Progress(t, c, "applied") /\ ran' = Append(ran, c)
       \/ Progress(t, c, "failed") /\ UNCHANGED ran

(* Fault: what the turn had not submitted is completed with it. *)
SettledAll(t, success) ==
    [c \in Commands |->
        IF turn[t].phase[c] \in Unfinished
        THEN (IF success THEN "completed" ELSE "failed") ELSE turn[t].phase[c]]

(* close and failUnfinished: a successful turn completes what it applied.  *)
Settled(t, success) ==
    [c \in Commands |->
        IF turn[t].phase[c] \in Unfinished
        THEN (IF success /\ turn[t].phase[c] = "applied" THEN "completed" ELSE "failed")
        ELSE turn[t].phase[c]]

SettleTurn(t, state, success) ==
    LET phases == Settled(t, success)
    IN  /\ turn' = [turn EXCEPT ![t].state = state, ![t].phase = phases]
        /\ \E queue \in InOrder({c \in Commands : turn[t].phase[c] \in Unfinished}) :
              Post([i \in DOMAIN queue |-> Status(queue[i], turn[t], phases[queue[i]])])

ReceiveInterrupt ==
    /\ FromManager("interrupt")
    /\ IF prompt # 0 /\ turn[prompt].state = "open"
       THEN SettleTurn(prompt, "interrupted", FALSE)
       ELSE UNCHANGED <<turn, toManager>>
    /\ toWorker' = Tail(toWorker)
    /\ UNCHANGED <<runVars, live, link, target, connected, greeted, setting, prompt, ran,
                   bounds>>

(* The prompt of the turn ends: the controller is closed, which may take   *)
(* time, and then the handoff or the error is sent.                        *)
CloseTurn(t) ==
    /\ \/ turn[t].state = "open" /\ SettleTurn(t, "succeeded", TRUE)
       \/ turn[t].state \in {"open", "interrupted"} /\ SettleTurn(t, "failed", FALSE)
    /\ UNCHANGED <<runVars, live, link, target, connected, greeted, setting, prompt, ran,
                   toWorker, bounds>>

FinishTurn(t) ==
    /\ turn[t].state \in {"succeeded", "failed"}
    /\ Post(<<[kind |-> IF turn[t].state = "succeeded" THEN "handoff" ELSE "error",
               what |-> "none", round |-> turn[t].round, gen |-> turn[t].gen,
               task |-> turn[t].task]>>)
    /\ turn' = [turn EXCEPT ![t] = NoTurn]
    /\ prompt' = IF prompt = t THEN 0 ELSE prompt
    /\ UNCHANGED <<runVars, live, link, target, connected, greeted, setting, ran,
                   toWorker, bounds>>

----------------------------------------------------------------------------
(* The Manager hears of the turn.                                          *)

FromWorker(kind) == toManager # <<>> /\ toManager[1].kind = kind

(* assessDagTransportFence                                                 *)
Current(m) == run = "active" /\ m.round = round /\ m.gen = gen /\ node # "COMPLETED"

RowStatus(what) == IF what = "accepted" THEN "delivered" ELSE what
Rank(status) == CASE status = "queued" -> 0 [] status = "delivered" -> 1
                  [] status = "applied" -> 2 [] OTHER -> 3

(* transitionDagActorLiveCommand: never backwards, and never from an end.  *)
Transition(row, status) ==
    IF row.status \in Ended \/ Rank(status) < Rank(row.status) THEN row
    ELSE [row EXCEPT !.status = status]

(* handleDagActorLiveCommandStatus; an unsupported command stays queued.   *)
ReceiveStatus ==
    /\ FromWorker("status")
    /\ LET m == toManager[1]
       IN  live' = IF Current(m) /\ target /\ live[m.task].round = m.round
                      /\ m.what # "unsupported"
                   THEN [live EXCEPT ![m.task] = Transition(@, RowStatus(m.what))]
                   ELSE live
    /\ toManager' = Tail(toManager)
    /\ UNCHANGED <<runVars, link, target, connected, greeted, setting, workerVars,
                   toWorker, bounds>>

(* handoffActiveRun: the command of the round is claimed and acknowledged, *)
(* and with it the live command it was.                                    *)
Accepted(m) == /\ Current(m)
               /\ node \in {"READY", "RUNNING"}
               /\ round > 1 => m.task # NoCommand

ReceiveHandoff ==
    /\ FromWorker("handoff")
    /\ LET m == toManager[1]
       IN  \/ /\ Accepted(m)
              /\ node' = "COMPLETED"
              /\ IF m.task \in Commands
                 THEN /\ link' = [link EXCEPT ![m.task] = "acknowledged"]
                      /\ live' = [live EXCEPT ![m.task] = Transition(@, "completed")]
                 ELSE UNCHANGED <<link, live>>
           \/ ~Accepted(m) /\ UNCHANGED <<node, link, live>>
    /\ toManager' = Tail(toManager)
    /\ UNCHANGED <<run, round, gen, task, target, connected, greeted, setting, workerVars,
                   toWorker, bounds>>

(* node_error, when no correction is left: the node fails, or is handed    *)
(* off by the Manager.  The command of the round stays as it is.           *)
ReceiveError ==
    /\ FromWorker("error")
    /\ node' \in IF Accepted(toManager[1]) THEN {"FAILED", "COMPLETED"} ELSE {node}
    /\ toManager' = Tail(toManager)
    /\ UNCHANGED <<run, round, gen, task, live, link, target, connected, greeted, setting,
                   workerVars, toWorker, bounds>>

----------------------------------------------------------------------------
(* Connections and restarts.                                               *)

(* cleanup of the socket: the tracker forgets the dispatches to its Worker. *)
Disconnect ==
    /\ connected
    /\ disconnects < MaxDisconnects
    /\ disconnects' = disconnects + 1
    /\ connected' = FALSE
    /\ target' = FALSE
    /\ toWorker' = <<>> /\ toManager' = <<>>
    /\ UNCHANGED <<runVars, live, link, greeted, setting, workerVars, resends, restarts>>

Reconnect ==
    /\ ~connected /\ greeted
    /\ connected' = TRUE
    /\ UNCHANGED <<runVars, live, link, target, greeted, setting, workerVars, toWorker,
                   toManager, bounds>>

(* A Manager starts again: the node of a turn that is gone is dispatched   *)
(* again if a command is outstanding for it and fails otherwise            *)
(* (_applyOrphanedNodeDemotion).  The Manager may have stopped between the *)
(* beginning of a boundary and the new round.                              *)
Restart ==
    /\ restarts < MaxRestarts
    /\ restarts' = restarts + 1
    /\ node' = IF run = "active" /\ node = "RUNNING"
               THEN (IF \E c \in Commands : live[c].status \in Outstanding
                     THEN "READY" ELSE "FAILED")
               ELSE node
    /\ run' \in {run} \cup (IF run = "active" /\ node \in {"COMPLETED", "FAILED"}
                               /\ round < MaxRounds
                            THEN {"waiting"} ELSE {})
    /\ target' = FALSE /\ connected' = FALSE /\ greeted' = FALSE
    /\ toWorker' = <<>> /\ toManager' = <<>>
    /\ UNCHANGED <<round, gen, task, live, link, setting, workerVars, resends,
                   disconnects>>

(* onFirstWorkerRegistered: fallbacks are consumed, nodes are dispatched,  *)
(* and what is still queued is sent in order.                              *)
Recover(r, c, links) ==
    LET again == {b \in Commands : Sendable(b, live, links)}
    IN  /\ node' = "RUNNING"
        /\ target' = TRUE
        /\ live' = [b \in Commands |-> IF b \in again THEN [live[b] EXCEPT !.round = r]
                                       ELSE live[b]]
        /\ \E queue \in InOrder(again) :
              toWorker' = <<PromptMessage(r, gen, c)>>
                          \o [i \in DOMAIN queue |-> SteerMessage(queue[i], r, gen)]

FirstWorkerRegisters ==
    /\ ~connected /\ ~greeted
    /\ connected' = TRUE /\ greeted' = TRUE
    /\ \/ /\ run = "waiting"
          /\ ConsumeOrWait(First(live))
          /\ IF run' = "active" THEN Recover(round', task', link')
             ELSE UNCHANGED <<live, target, toWorker>>
       \/ /\ run = "active" /\ node = "READY"
          /\ Recover(round, task, link)
          /\ UNCHANGED <<run, round, gen, task, link>>
       \/ /\ run = "ended" \/ (run = "active" /\ node # "READY")
          /\ UNCHANGED <<runVars, live, link, target, toWorker>>
    /\ UNCHANGED <<setting, workerVars, toManager, bounds>>

----------------------------------------------------------------------------
TurnStep(t) == \/ ReceivePrompt(t) \/ CloseTurn(t) \/ FinishTurn(t)
               \/ \E c \in Commands : Steer(t, c) \/ Applied(t, c)

Receive == \/ ReceiveCommand \/ ReceiveInterrupt
           \/ ReceiveStatus \/ ReceiveHandoff \/ ReceiveError

Proceed == Dispatch \/ ReachBoundary \/ CompleteRun

Connect == Reconnect \/ FirstWorkerRegisters

Next == \/ \E c \in Commands : SendLiveCommand(c) \/ Resend(c)
        \/ \E t \in Turns : TurnStep(t)
        \/ Receive \/ Proceed \/ Connect
        \/ Resume \/ ResumeOthers \/ EndRun \/ Retry \/ Stop
        \/ Disconnect \/ Restart

(* Messages arrive, turns end, the run goes on to its next boundary and a  *)
(* Worker connects again.  Nobody has to command, resume or intervene.     *)
Fairness == /\ WF_vars(Receive) /\ WF_vars(Proceed) /\ WF_vars(Connect)
            /\ \A t \in Turns : WF_vars(TurnStep(t))

Spec == Init /\ [][Next]_vars /\ Fairness

----------------------------------------------------------------------------
(* Properties.                                                             *)

Kinds == {"prompt", "steer", "interrupt", "status", "handoff", "error"}

TypeOK ==
    /\ run \in {"active", "waiting", "ended"} /\ round \in 1 .. MaxRounds
    /\ node \in {"READY", "RUNNING", "COMPLETED", "FAILED"}
    /\ gen \in 1 .. MaxGenerations /\ task \in Tasks
    /\ live \in [Commands -> [status : {"none"} \cup Outstanding \cup Ended,
                              round : 0 .. MaxRounds]]
    /\ link \in [Commands -> {"none", "pending", "acknowledged", "cancelled"}]
    /\ {target, connected, greeted, steerable} \subseteq BOOLEAN
    /\ targeting \in Targetings
    /\ \A t \in Turns :
        turn[t].state \in {"none", "open", "interrupted", "succeeded", "failed"}
    /\ prompt \in 0 .. MaxTurns
    /\ \A i \in DOMAIN toWorker : toWorker[i].kind \in Kinds
    /\ \A i \in DOMAIN toManager : toManager[i].kind \in Kinds
    /\ ~connected => toWorker = <<>> /\ toManager = <<>>
    /\ \A i \in DOMAIN ran : ran[i] \in Commands

Lossless == restarts + disconnects = 0

(* A live command is recorded as completed only if an actor has carried it *)
(* out, in a turn it was steered into or as the command of a round, even   *)
(* when statuses were lost and turns overlap (close, handoffActiveRun).    *)
CompletedWasCarriedOut ==
    \A c \in Commands : live[c].status = "completed" => \E i \in DOMAIN ran : ran[i] = c

(* As long as no message is lost, no live command is carried out twice:    *)
(* not by the turn it was steered into and by the round it fell back to,   *)
(* nor when its request is sent again (trySendDagActorLiveCommand,         *)
(* consumeDagActorLiveCommandFallbacksAtBoundary).                         *)
CarriedOutOnce ==
    Lossless => \A i, j \in DOMAIN ran : ran[i] = ran[j] => i = j

(* The command of a round that its node ended without acknowledging.       *)
Abandoned(c) == /\ link[c] = "pending"
                /\ ~ (task = c /\ node \in {"READY", "RUNNING"})

(* The boundary keeps a queued command that its await node does not target *)
(* until somebody resumes the run.                                         *)
Held(c) == run = "waiting" /\ ~Targeted /\ live[c].status = "queued"

(* As long as no message is lost and no turn has failed on a command, each *)
(* live command ends: in its turn, at a later boundary that targets the    *)
(* actor, or with the run; or it is held where nobody has to go on.        *)
CommandsEnd ==
    \A c \in Commands :
        live[c].status \in Outstanding ~>
            \/ live[c].status \notin Outstanding
            \/ Held(c)
            \/ ~Lossless
            \/ \E b \in Commands : Abandoned(b)

(* runtime/active-runs.ts, of a fallback that could not be consumed: "A    *)
(* later waiting-run recovery pass can retry the same sequence".  Once a   *)
(* turn failed on the command no pass can, and later commands wait behind  *)
(* it (createDagActorCommand refuses its id in another round).             *)
RecoveryRetries ==
    [][run = "waiting" /\ Targeted /\ ~greeted /\ greeted' /\ First(live) # NoCommand
         /\ live[First(live)].status = "queued"
       => task' = First(live) /\ run' = "active"]_vars

(* docs/architecture/dag-live-steering.md: "Each actor owns a monotonic    *)
(* command sequence, so reconnects and retries cannot reorder user         *)
(* intent."  A command that had to fall back is overtaken by the next one  *)
(* that finds the actor at work (trySendDagActorLiveCommand).              *)
IntentOrder == \A i, j \in DOMAIN ran : i < j => ran[i] <= ran[j]

(* docs/architecture/dag-live-steering.md: "Cold recovery receives [...]   *)
(* unapplied commands in sequence order."  A command that was delivered    *)
(* and not applied is given to no turn after a restart                     *)
(* (recoverDagActorLiveCommands).                                          *)
RecoveryResends ==
    [][\A c \in Commands :
        /\ ~greeted /\ greeted' /\ node' = "RUNNING" /\ steerable
        /\ live[c].status \in {"queued", "delivered"}
        => \E i \in DOMAIN toWorker' : toWorker'[i].task = c]_vars
============================================================================
