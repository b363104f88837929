-------------------------- MODULE WorkerLifecycle --------------------------
(***************************************************************************)
(* The life of the provisioned Workers of one actor: the dispatch adapter  *)
(* creates their containers and leases the actor to them, the WebSocket    *)
(* registry says which are connected, the lease reaper renews, expires and *)
(* reclaims, cleanup removes containers, and the Manager may restart.      *)
(*                                                                         *)
(* The Manager is single-threaded: a handler runs to its first await, so   *)
(* one action is one such stretch.  The awaits are a container being       *)
(* provisioned (provisioning), one being removed (jobs), and the reaper    *)
(* between two items of its lists, where it may be waiting for a Worker of *)
(* another actor.  Rows and lease survive a restart, the rest does not.    *)
(*                                                                         *)
(* One run with one actor, on one node of the graph; the other nodes show  *)
(* only as the choice of whether the run goes on when this node ends.      *)
(* Every Worker is provisioned with a fresh id and one container.          *)
(***************************************************************************)
EXTENDS LeaseRows, FiniteSets

CONSTANTS
    MissingIsRemoved, \* does the Node report success for a container already gone
    MaxSockets,     \* bound on the connections one Worker process makes
    MaxClock,       \* bound on time
    MaxRounds,      \* bound on the rounds of the run
    MaxCrashes,     \* bound on Manager restarts
    MaxCleanupFailures \* bound on failed removals of one container

Workers == Targets

ASSUME BoundsAssumption ==
    /\ MissingIsRemoved \in BOOLEAN
    /\ {MaxSockets, MaxClock, MaxCrashes, MaxCleanupFailures} \subseteq Nat
    /\ MaxRounds \in Nat \ {0}

VARIABLES
    clock,
    run,            \* status of the run
    node,           \* state of the actor's node
    round,
    lease,          \* the actor's row of dag_actor_runtimes
    row,            \* Worker -> status and generation of its durable row
    registered,     \* history: Workers that ever had a durable row
    box,            \* Worker -> its container on the Node
    sockets,        \* Worker -> connections the Manager has not seen close
    made,           \* Worker -> number of connections made so far
    registry,       \* Worker -> the connection registry.ts holds, 0 if none
    tracker,        \* dispatch-tracker: the Worker the node was sent to, "provisioning",
                    \* or "none" when its last dispatch failed or was forgotten
    provisioning,   \* the Worker being provisioned, or NoTarget
    jobs,           \* Workers whose removal is in flight (inflightWorkers)
    failures,       \* Worker -> failed removals so far
    reaper,         \* progress and snapshots of the running reap
    crashes

runVars    == <<run, node, round>>
socketVars == <<sockets, made, registry>>
adapterVars == <<tracker, provisioning>>
vars == <<clock, runVars, lease, row, registered, box, socketVars, adapterVars,
          jobs, failures, reaper, crashes>>

Open == {"active", "releasing", "failed"}

IdleReaper == [pc |-> "idle", now |-> 0, todo |-> {}, wait |-> NoTarget,
               listed |-> NoLease]

Init ==
    /\ clock = 0
    /\ run = "active" /\ node = "READY" /\ round = 1
    /\ lease = NoLease
    /\ row = [w \in Workers |-> [status |-> "absent", gen |-> 0]]
    /\ registered = {}
    /\ box = [w \in Workers |-> "none"]
    /\ sockets = [w \in Workers |-> {}]
    /\ made = [w \in Workers |-> 0]
    /\ registry = [w \in Workers |-> 0]
    /\ tracker = "none"
    /\ provisioning = NoTarget
    /\ jobs = {}
    /\ failures = [w \in Workers |-> 0]
    /\ reaper = IdleReaper
    /\ crashes = 0

Tick ==
    /\ clock < MaxClock
    /\ clock' = clock + 1
    /\ UNCHANGED <<runVars, lease, row, registered, box, socketVars, adapterVars,
                   jobs, failures, reaper, crashes>>

----------------------------------------------------------------------------
(* Starting removals and ending runs, as parts of the handlers below.      *)

(* deprovisionProvisionedWorker up to its await, for the Workers of S: one *)
(* whose removal is in flight is left alone.  rows are the durable rows    *)
(* the handler has written so far.                                         *)
StartableOnce(rows, S) ==      \* mutant: a failed removal is not retried
    {w \in S \ jobs : rows[w].status \in {"active", "releasing"}}

Startable(rows, S) == {w \in S \ jobs : rows[w].status \in Open}

StartCleanup(rows, S) ==
    /\ row' = [w \in Workers |-> IF w \in Startable(rows, S)
                                 THEN [rows[w] EXCEPT !.status = "releasing"]
                                 ELSE rows[w]]
    /\ jobs' = jobs \cup Startable(rows, S)

(* _persistTerminalRun retires the lease, deprovisionProvisionedForRun     *)
(* starts the removal of every Worker the run still has.                   *)
ReleasedAtEnd(l) ==            \* mutant: releases the lease instead
    IF l.state = "leased" THEN Released(l, clock) ELSE Ensured(l, clock)

Terminal(l) ==
    LET current == Ensured(l, clock)
    IN  IF current.state = "retired" THEN current ELSE Retired(current, clock)

EndRun(l, rows) ==
    /\ run' = "done"
    /\ lease' = Terminal(l)
    /\ StartCleanup(rows, Workers)
    /\ UNCHANGED round

(* failActiveRun: the node fails, and the run with it unless other nodes   *)
(* can go on.  A run that is not active is left alone.                     *)
FailRun(l, rows, S) ==
    IF run = "active"
    THEN /\ node' = "FAILED"
         /\ \/ EndRun(l, rows)
            \/ lease' = l /\ StartCleanup(rows, S) /\ UNCHANGED <<run, round>>
    ELSE lease' = l /\ StartCleanup(rows, S) /\ UNCHANGED runVars

Owned(w) == Holds(lease, row[w].gen, w)

----------------------------------------------------------------------------
(* The rest of the run.                                                    *)

(* A response on any open connection of the holder passes the lease fence, *)
(* which renews an expired lease of an active run; neither the registry    *)
(* nor the dispatch tracker is consulted.                                  *)
Respond(w) ==
    /\ run = "active" /\ node = "RUNNING"
    /\ Owned(w) /\ sockets[w] # {}
    /\ node' = "COMPLETED"
    /\ lease' = IF Expired(lease, clock) THEN Acquired(lease, w, clock) ELSE lease
    /\ UNCHANGED <<clock, run, round, row, registered, box, socketVars,
                   adapterVars, jobs, failures, reaper, crashes>>

(* _startAwaitCommand: the run waits for the next command and the lease    *)
(* is renewed so that the Worker stays warm.                               *)
AwaitCommand ==
    /\ run = "active" /\ node \in {"COMPLETED", "FAILED"}
    /\ run' = "waiting"
    /\ lease' = IF lease.state = "leased" THEN Acquired(lease, lease.target, clock)
                                          ELSE Ensured(lease, clock)
    /\ UNCHANGED <<clock, node, round, row, registered, box, socketVars,
                   adapterVars, jobs, failures, reaper, crashes>>

(* resumeWaitingActiveRun opens the next round and makes the node ready.   *)
Resume ==
    /\ run = "waiting" /\ round < MaxRounds
    /\ run' = "active" /\ node' = "READY" /\ round' = round + 1
    /\ UNCHANGED <<clock, lease, row, registered, box, socketVars, adapterVars,
                   jobs, failures, reaper, crashes>>

(* The run completes, is cancelled, is aborted or expires while waiting.   *)
Finish ==
    /\ run \in {"active", "waiting"}
    /\ EndRun(lease, row)
    /\ UNCHANGED <<clock, node, registered, box, socketVars, adapterVars,
                   failures, reaper, crashes>>

----------------------------------------------------------------------------
(* WsDispatchAdapter: a READY node goes to the Worker it was last sent to, *)
(* if that Worker is connected and durably owns the lease, and else to a   *)
(* Worker provisioned for it.                                              *)

Hot(w) == tracker = w /\ registry[w] # 0 /\ Owned(w) /\ row[w].status = "active"

Dispatchable == run = "active" /\ node = "READY" /\ provisioning = NoTarget
                               /\ tracker # "provisioning"

DispatchHot(w) ==
    /\ Dispatchable /\ Hot(w)
    /\ lease' = Acquired(lease, w, clock)
    /\ node' = "RUNNING"
    /\ UNCHANGED <<clock, run, round, row, registered, box, socketVars,
                   adapterVars, jobs, failures, reaper, crashes>>

(* socket.send throws: the lease just acquired is given back, the failed   *)
(* dispatch is retried by a later Dispatch.                                *)
DispatchSendFails(w) ==
    /\ Dispatchable /\ Hot(w)
    /\ lease' = Released(Acquired(lease, w, clock), clock)
    /\ tracker' = "none"
    /\ UNCHANGED <<clock, runVars, row, registered, box, socketVars,
                   provisioning, jobs, failures, reaper, crashes>>

Unused(w) == box[w] = "none" /\ provisioning # w /\ row[w].status = "absent"

StartProvisioning(w) ==
    /\ Dispatchable /\ \A h \in Workers : ~Hot(h)
    /\ Unused(w)
    /\ tracker' = "provisioning"
    /\ provisioning' = w
    /\ UNCHANGED <<clock, runVars, lease, row, registered, box, socketVars,
                   jobs, failures, reaper, crashes>>

(* The Node creates the container while the Manager waits for the answer.  *)
ContainerStarts(w) ==
    /\ provisioning = w /\ box[w] = "none"
    /\ box' = [box EXCEPT ![w] = "up"]
    /\ UNCHANGED <<clock, runVars, lease, row, registered, socketVars,
                   adapterVars, jobs, failures, reaper, crashes>>

(* _onProvisioningFailure: one retry with a new Worker id, or the node     *)
(* fails.  The provisioner removes what it created, which may fail too.    *)
ProvisioningFails(w) ==
    /\ provisioning = w
    /\ box' \in {[box EXCEPT ![w] = "gone"]} \cup
                (IF box[w] = "up" THEN {box} ELSE {})
    /\ \/ /\ run = "active"
          /\ \E v \in Workers : v # w /\ Unused(v) /\ provisioning' = v
          /\ tracker' = "provisioning"
          /\ UNCHANGED <<runVars, lease, row, jobs>>
       \/ /\ provisioning' = NoTarget
          /\ tracker' = "none"
          /\ FailRun(lease, row, {})
    /\ UNCHANGED <<clock, registered, socketVars, failures, reaper, crashes>>

(* provisionWorkerContainer answers once the Worker has registered.        *)
(* _onProvisioningSuccess when the node can no longer be dispatched: the   *)
(* container, never registered, is removed on a best-effort basis.         *)
ProvisionedTooLate(w) ==
    /\ provisioning = w /\ made[w] > 0
    /\ ~(run = "active" /\ node = "READY")
    /\ box' \in {box, [box EXCEPT ![w] = "gone"]}
    /\ provisioning' = NoTarget
    /\ tracker' = "none"
    /\ FailRun(lease, row, {})
    /\ UNCHANGED <<clock, registered, socketVars, failures, reaper, crashes>>

(* _onProvisioningSuccess otherwise: acquire, register, and then dispatch  *)
(* if the Worker is connected, else give everything back.                  *)
Bound(w)    == Acquired(lease, w, clock)
BoundRow(w) == [row EXCEPT ![w] = [status |-> "active", gen |-> Bound(w).gen]]

CanBind(w) ==
    /\ provisioning = w /\ made[w] > 0
    /\ run = "active" /\ node = "READY"
    /\ AcquireAllowed(lease, w, clock)

ProvisionedAndSent(w) ==
    /\ CanBind(w) /\ registry[w] # 0
    /\ lease' = Bound(w)
    /\ row' = BoundRow(w)
    /\ registered' = registered \cup {w}
    /\ node' = "RUNNING"
    /\ tracker' = w
    /\ provisioning' = NoTarget
    /\ UNCHANGED <<clock, run, round, box, socketVars, jobs, failures, reaper,
                   crashes>>

(* No longer connected, or the send throws: the removal starts, the lease  *)
(* goes back and the node fails.  Only the first clears the tracker.       *)
ProvisionedNotSent(w) ==
    /\ CanBind(w)
    /\ registered' = registered \cup {w}
    /\ tracker' \in {"none"} \cup (IF registry[w] # 0 THEN {tracker} ELSE {})
    /\ provisioning' = NoTarget
    /\ FailRun(Released(Bound(w), clock), BoundRow(w), {w})
    /\ UNCHANGED <<clock, box, socketVars, failures, reaper, crashes>>

(* Connected without the required capabilities: the dispatch is deferred   *)
(* and the node stays READY.                                               *)
ProvisionedUnfit(w) ==
    /\ CanBind(w) /\ registry[w] # 0
    /\ registered' = registered \cup {w}
    /\ tracker' = "none"
    /\ provisioning' = NoTarget
    /\ lease' = Released(Bound(w), clock)
    /\ StartCleanup(BoundRow(w), {w})
    /\ UNCHANGED <<clock, runVars, box, socketVars, failures, reaper, crashes>>

(* recordProvisionedNodeDispatchAttempt finds max_dispatches reached and   *)
(* aborts the run; the tracker is left as it was.                          *)
ProvisionedOverLimit(w) ==
    /\ CanBind(w) /\ registry[w] # 0
    /\ registered' = registered \cup {w}
    /\ provisioning' = NoTarget
    /\ node' = "FAILED"
    /\ EndRun(Bound(w), BoundRow(w))
    /\ UNCHANGED <<clock, box, socketVars, tracker, failures, reaper, crashes>>

----------------------------------------------------------------------------
(* worker/websocket.ts.  A Worker reconnects when its side of a connection *)
(* broke, which the Manager may notice only later.                         *)

Connect(w) ==
    /\ box[w] = "up" /\ made[w] < MaxSockets
    /\ made' = [made EXCEPT ![w] = @ + 1]
    /\ sockets' = [sockets EXCEPT ![w] = @ \cup {made[w] + 1}]
    /\ registry' = [registry EXCEPT ![w] = made[w] + 1]
    /\ UNCHANGED <<clock, runVars, lease, row, registered, box, adapterVars,
                   jobs, failures, reaper, crashes>>

(* cleanup() on close or error of connection s: it forgets the Worker's    *)
(* dispatches and its registry entry, whichever connection that holds.     *)
Unregister(w, s) == [registry EXCEPT ![w] = 0]

Close(w, s) ==
    /\ s \in sockets[w]
    /\ sockets' = [sockets EXCEPT ![w] = @ \ {s}]
    /\ registry' = Unregister(w, s)
    /\ tracker' = IF tracker = w THEN "none" ELSE tracker
    /\ UNCHANGED <<clock, runVars, lease, row, registered, box, made,
                   provisioning, jobs, failures, reaper, crashes>>

----------------------------------------------------------------------------
(* deprovisionProvisionedWorker after its await.                           *)

CleanupDone(w) ==
    /\ w \in jobs
    /\ box[w] = "up" \/ MissingIsRemoved
    /\ box' = [box EXCEPT ![w] = "gone"]
    /\ row' = [row EXCEPT ![w].status = IF @ = "releasing" THEN "released" ELSE @]
    /\ jobs' = jobs \ {w}
    /\ UNCHANGED <<clock, runVars, lease, registered, socketVars, adapterVars,
                   failures, reaper, crashes>>

(* The removal fails, or its confirmation is lost.                         *)
CleanupFails(w) ==
    /\ w \in jobs
    /\ \/ /\ failures[w] < MaxCleanupFailures
          /\ failures' = [failures EXCEPT ![w] = @ + 1]
       \/ /\ box[w] = "gone" /\ ~MissingIsRemoved
          /\ UNCHANGED failures
    /\ box' \in {box, [box EXCEPT ![w] = "gone"]}
    /\ row' = [row EXCEPT ![w].status = IF @ = "releasing" THEN "failed" ELSE @]
    /\ jobs' = jobs \ {w}
    /\ UNCHANGED <<clock, runVars, lease, registered, socketVars, adapterVars,
                   reaper, crashes>>
----------------------------------------------------------------------------
(* reapDagActorLeases.  `now` is read once and used to the end.            *)

(* A lease of an active run is renewed once half its time is spent; then   *)
(* the Workers still to be cleaned up or watched are listed.               *)
ReapStart ==
    /\ reaper.pc = "idle"
    /\ lease' = IF run = "active" /\ lease.state = "leased"
                     /\ lease.deadline - clock <= IdleTTL \div 2
                 THEN Acquired(lease, lease.target, clock) ELSE lease
    /\ reaper' = [IdleReaper EXCEPT
                    !.pc = "workers", !.now = clock,
                    !.todo = {<<w, row[w].status>> :
                                 w \in {v \in Workers : row[v].status \in Open}}]
    /\ UNCHANGED <<clock, runVars, row, registered, box, socketVars, adapterVars,
                   jobs, failures, crashes>>

(* The reaper goes on when the removal it awaits has settled.              *)
ReaperAt(pc) == reaper.pc = pc /\ reaper.wait \notin jobs

Disconnected(w) ==
    /\ Owned(w)
    /\ run \in {"active", "waiting"}
    /\ lease.deadline > reaper.now
    /\ registry[w] = 0

Done(w, status) == [reaper EXCEPT !.todo = @ \ {<<w, status>>}, !.wait = NoTarget]

(* A listed active Worker still owns the lease but is not connected: its   *)
(* row fails and the lease is released, in two transactions of which the   *)
(* second is refused when the lease was written after the reap began.      *)
NeverReported == FALSE         \* mutant: the callback is not wired

ActiveNodeDisconnected == run = "active" /\ node = "RUNNING"

FailedRow(w) == [row EXCEPT ![w].status = "failed"]

ReapDisconnected(w) ==
    /\ ReaperAt("workers") /\ <<w, "active">> \in reaper.todo
    /\ Disconnected(w) /\ row[w].status = "active"
    /\ ReleaseAllowed(lease, row[w].gen, w, reaper.now)
    /\ IF ActiveNodeDisconnected
       THEN FailRun(Released(lease, reaper.now), FailedRow(w), {})
       ELSE /\ lease' = Released(lease, reaper.now)
            /\ row' = FailedRow(w)
            /\ UNCHANGED <<runVars, jobs>>
    /\ reaper' = Done(w, "active")
    /\ UNCHANGED <<clock, registered, box, socketVars, adapterVars, failures,
                   crashes>>

ReapDisconnectedRefused(w) ==
    /\ ReaperAt("workers") /\ <<w, "active">> \in reaper.todo
    /\ Disconnected(w) /\ row[w].status = "active"
    /\ ~ReleaseAllowed(lease, row[w].gen, w, reaper.now)
    /\ row' = FailedRow(w)
    /\ reaper' = Done(w, "active")
    /\ UNCHANGED <<clock, runVars, lease, registered, box, socketVars,
                   adapterVars, jobs, failures, crashes>>

(* Still owned and connected, or its row changed since it was listed.      *)
ReapSkip(w) ==
    /\ ReaperAt("workers") /\ <<w, "active">> \in reaper.todo
    /\ Owned(w)
    /\ ~(Disconnected(w) /\ row[w].status = "active")
    /\ reaper' = Done(w, "active")
    /\ UNCHANGED <<clock, runVars, lease, row, registered, box, socketVars,
                   adapterVars, jobs, failures, crashes>>

(* A Worker the lease no longer belongs to is removed, and so is one that  *)
(* was listed as releasing or failed, without a look at the lease.         *)
ReclaimableIfGone(w, status) == \* mutant: looks at the connection, not the lease
    status # "active" \/ registry[w] = 0

Reclaimable(w, status) == status # "active" \/ ~Owned(w)

ReapReclaim(w, status) ==
    /\ ReaperAt("workers") /\ <<w, status>> \in reaper.todo
    /\ Reclaimable(w, status)
    /\ StartCleanup(row, {w})
    /\ reaper' = [Done(w, status) EXCEPT
                    !.wait = IF w \in Startable(row, {w}) THEN w ELSE NoTarget]
    /\ UNCHANGED <<clock, runVars, lease, registered, box, socketVars,
                   adapterVars, failures, crashes>>

(* listExpiredDagActorLeases; the leases of other actors may come first.   *)
ReapList ==
    /\ ReaperAt("workers") /\ reaper.todo = {}
    /\ reaper' = [reaper EXCEPT
                    !.pc = "expired", !.wait = NoTarget,
                    !.listed = IF lease.state = "leased" /\ Expired(lease, reaper.now)
                               THEN lease ELSE NoLease]
    /\ UNCHANGED <<clock, runVars, lease, row, registered, box, socketVars,
                   adapterVars, jobs, failures, crashes>>

(* The listed lease is released unless the run is active, by compare and   *)
(* set on the version it was listed with, and its Worker is removed.       *)
ReleasableByToken ==           \* mutant: no expected_version
    /\ reaper.listed # NoLease
    /\ run # "active"
    /\ ReleaseAllowed(lease, reaper.listed.gen, reaper.listed.target, reaper.now)

Releasable ==
    /\ reaper.listed # NoLease
    /\ run # "active"
    /\ lease.version = reaper.listed.version
    /\ ReleaseAllowed(lease, reaper.listed.gen, reaper.listed.target, reaper.now)

ReapExpired ==
    /\ ReaperAt("expired")
    /\ IF Releasable
       THEN LET S == {w \in Workers : row[w].gen = reaper.listed.gen}
            IN  /\ lease' = Released(lease, reaper.now)
                /\ StartCleanup(row, S)
                /\ \E wait \in IF Startable(row, S) = {} THEN {NoTarget}
                                                         ELSE Startable(row, S) :
                      reaper' = [reaper EXCEPT !.pc = "runtimes", !.wait = wait,
                                               !.listed = NoLease]
       ELSE /\ reaper' = [reaper EXCEPT !.pc = "runtimes", !.wait = NoTarget,
                                        !.listed = NoLease]
            /\ UNCHANGED <<lease, row, jobs>>
    /\ UNCHANGED <<clock, runVars, registered, box, socketVars, adapterVars,
                   failures, crashes>>

(* Runtimes of ended runs are deleted once their retention has passed and  *)
(* every Worker row is released; the cascade deletes those rows.           *)
NothingRunning ==              \* mutant: removals under way do not count
    \A w \in Workers : row[w].status # "active"

NothingPending == \A w \in Workers : row[w].status \in {"absent", "released"}

ReapRuntimes ==
    /\ ReaperAt("runtimes")
    /\ IF run = "done" /\ DeleteAllowed(lease, reaper.now) /\ NothingPending
       THEN /\ lease' = Deleted(lease)
            /\ row' = [w \in Workers |-> [status |-> "absent", gen |-> 0]]
       ELSE UNCHANGED <<lease, row>>
    /\ reaper' = IdleReaper
    /\ UNCHANGED <<clock, runVars, registered, box, socketVars, adapterVars,
                   jobs, failures, crashes>>

----------------------------------------------------------------------------
(* The Manager stops and starts again.  Removals and creations it had sent *)
(* to the Node may take effect all the same.  Recovery fails a node that   *)
(* was running, and the run with it unless other nodes can go on, or makes *)
(* it ready again when a live command for it is outstanding.               *)

Lost == (jobs \cup {provisioning}) \ {NoTarget}

Restart(l, rows) ==
    /\ crashes < MaxCrashes
    /\ crashes' = crashes + 1
    /\ \E done \in SUBSET Lost :
          box' = [w \in Workers |->
                    IF w \notin done THEN box[w]
                    ELSE IF w \in jobs THEN "gone" ELSE "up"]
    /\ sockets' = [w \in Workers |-> {}]
    /\ registry' = [w \in Workers |-> 0]
    /\ tracker' = "none"
    /\ provisioning' = NoTarget
    /\ reaper' = IdleReaper
    /\ IF run = "active" /\ node = "RUNNING"
       THEN \/ /\ node' = "FAILED" /\ run' = "done"
               /\ lease' = Terminal(l)
               /\ jobs' = {w \in Workers : rows[w].status \in Open}
               /\ row' = [w \in Workers |-> IF w \in jobs'
                            THEN [rows[w] EXCEPT !.status = "releasing"]
                            ELSE rows[w]]
            \/ /\ node' \in {"FAILED", "READY"}
               /\ lease' = l /\ row' = rows /\ jobs' = {} /\ UNCHANGED run
       ELSE lease' = l /\ row' = rows /\ jobs' = {} /\ UNCHANGED <<run, node>>
    /\ UNCHANGED <<clock, round, registered, made, failures>>

Crash == Restart(lease, row)

(* Stops between the transactions of one handler: after the lease of a     *)
(* provisioned Worker is acquired and before its container is registered,  *)
(* and after a disconnected Worker's row fails and before its release.     *)
CrashBeforeRegister(w) == CanBind(w) /\ Restart(Bound(w), row)

CrashBeforeRelease(w) ==
    /\ ReaperAt("workers") /\ <<w, "active">> \in reaper.todo
    /\ Disconnected(w) /\ row[w].status = "active"
    /\ Restart(lease, FailedRow(w))

----------------------------------------------------------------------------
Reap ==
    \/ ReapStart \/ ReapList \/ ReapExpired \/ ReapRuntimes
    \/ \E w \in Workers :
          \/ ReapDisconnected(w) \/ ReapDisconnectedRefused(w) \/ ReapSkip(w)
          \/ \E status \in Open : ReapReclaim(w, status)

Next ==
    \/ Tick
    \/ AwaitCommand \/ Resume \/ Finish
    \/ Reap
    \/ Crash
    \/ \E w \in Workers :
          \/ Respond(w)
          \/ DispatchHot(w) \/ DispatchSendFails(w) \/ StartProvisioning(w)
          \/ ContainerStarts(w) \/ ProvisioningFails(w) \/ ProvisionedTooLate(w)
          \/ ProvisionedAndSent(w) \/ ProvisionedNotSent(w)
          \/ ProvisionedUnfit(w) \/ ProvisionedOverLimit(w)
          \/ Connect(w)
          \/ \E s \in 1..MaxSockets : Close(w, s)
          \/ CleanupDone(w) \/ CleanupFails(w)
          \/ CrashBeforeRegister(w) \/ CrashBeforeRelease(w)

Spec == Init /\ [][Next]_vars

(* The reaper's timer keeps firing and a reap that awaits nothing goes on; *)
(* a Node that is asked to remove a container answers.                     *)
FairSpec ==
    /\ Spec
    /\ WF_vars(Reap)
    /\ \A w \in Workers : WF_vars(CleanupDone(w))

----------------------------------------------------------------------------
(* Every variable has its type.                                            *)
TypeOK ==
    /\ clock \in 0..MaxClock /\ round \in 1..MaxRounds /\ crashes \in 0..MaxCrashes
    /\ run \in {"active", "waiting", "done"}
    /\ node \in {"READY", "RUNNING", "COMPLETED", "FAILED"}
    /\ lease \in LeaseRow /\ Checks(lease)
    /\ row \in [Workers -> [status : WorkerStates, gen : Nat]]
    /\ registered \subseteq Workers /\ jobs \subseteq Workers
    /\ box \in [Workers -> {"none", "up", "gone"}]
    /\ sockets \in [Workers -> SUBSET (1..MaxSockets)]
    /\ made \in [Workers -> 0..MaxSockets]
    /\ registry \in [Workers -> 0..MaxSockets]
    /\ tracker \in {"none", "provisioning"} \cup Workers
    /\ provisioning \in Workers \cup {NoTarget}
    /\ failures \in [Workers -> 0..MaxCleanupFailures]
    /\ reaper \in [pc : {"idle", "workers", "expired", "runtimes"}, now : Nat,
                   todo : SUBSET (Workers \X Open),
                   wait : Workers \cup {NoTarget}, listed : LeaseRow]

(* A node that is running in an active run is covered by a lease: no reap, *)
(* however stale its lists, leaves a running node that no Worker may       *)
(* answer for, because its responses would then be dropped by the fence.   *)
RunningIsLeased ==
    run = "active" /\ node = "RUNNING" => lease.state = "leased"

(* No lease outlives its run, even when provisioning ends after it.        *)
EndedRunHoldsNothing ==
    run = "done" => lease.state \in {"retired", "deleted"}

(* When the durable record of an actor is deleted, no container that was   *)
(* ever registered for it is left running without a row to find it by.     *)
DeletedStrandsNothing ==
    lease.state = "deleted" => \A w \in registered : box[w] = "gone"

(* A reap never takes the lease from a holder that renewed it after the    *)
(* reap began: when the expiry step releases, it releases a lease that was *)
(* expired at the reap's own time.                                         *)
RenewedLeaseSurvivesReap ==
    [][ReapExpired /\ lease.state = "leased" /\ lease.deadline > reaper.now
          => lease' = lease]_vars

(* The removal of a Worker in good standing never begins while it holds    *)
(* the lease: whoever moves its row from active to releasing has seen to   *)
(* it that the lease is no longer its own.                                 *)
NoActiveOwnerRemoved ==
    [][\A w \in Workers :
          row[w].status = "active" /\ row'[w].status = "releasing"
             => ~Holds(lease', row[w].gen, w)]_vars

(* Every Worker that no longer owns its actor's lease is removed in the    *)
(* end, over failed removals, lost confirmations and Manager restarts.     *)
UnownedIsReclaimed ==
    \A w \in Workers :
        (row[w].status \in Open /\ ~Owned(w)) ~> row[w].status \notin Open

(* The comment on the reaper's second phase: it reclaims "any physical     *)
(* Worker that is no longer owned by the actor's current physical lease    *)
(* generation".                                                            *)
ReclaimsOnlyUnowned ==
    [][\A w \in Workers, status \in Open :
          ReapReclaim(w, status) /\ w \in jobs' \ jobs => ~Owned(w)]_vars

(* The test "does not release a waiting actor while its provisioned Worker *)
(* remains connected": the newest connection of the Worker is open.        *)
Connected(w) == made[w] > 0 /\ made[w] \in sockets[w]

ConnectedKeepsLease ==
    [][\A w \in Workers :
          ReapDisconnected(w) /\ run = "waiting" => ~Connected(w)]_vars

(* docs/multi-round-dags.md: the actor of a new round "stays `READY`" until *)
(* "registration of a compatible Worker triggers a retry".  So a READY node *)
(* is never taken for one being provisioned when nothing is provisioned.   *)
ReadyIsDispatchable ==
    run = "active" /\ node = "READY" /\ provisioning = NoTarget
        => tracker # "provisioning"
============================================================================
