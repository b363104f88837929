---------------------------- MODULE RunAdmission ----------------------------
(***************************************************************************)
(* Who may start a round of one workflow: the interval and event triggers  *)
(* of runtime/dag-triggers.ts, the requests of ChangeOrchestrator, and the *)
(* reservation of persistence/dag-run-admission.ts that bounds how many    *)
(* runs of the workflow are active at once.                                *)
(*                                                                         *)
(* A handler of the Manager is synchronous but commits several             *)
(* transactions: claim the delivery, reserve, create the run, release the  *)
(* reservation, dispatch, settle the delivery.  Every commit is a step,    *)
(* handler says which one is next, and a crash may come between any two:   *)
(* the rows stay, the handler is gone.  Nothing else of the Manager runs   *)
(* while a handler is under way.                                           *)
(*                                                                         *)
(* A generated run id is new.  The model keeps finitely many identities:   *)
(* an ended run that no reservation refers to lends its own to a new run.  *)
(* Left out: what a run does while it is active, the prompt, and more than *)
(* one trigger of each type.                                               *)
(***************************************************************************)
EXTENDS Integers, FiniteSets

CONSTANTS
    Runs,            \* identities of runs
    Explicit,        \* the run ids a caller chooses, and may retry
    EventKeys,       \* idempotency keys of events
    MaxConcurrency,  \* max_concurrency of the policy
    Skip,            \* overlap is "skip"
    Every,           \* every_ms of the interval trigger
    Ttl,             \* the 300 s after which a reservation is an orphan
    LiveCommands,    \* users send live commands to active runs
    MaxNow,          \* bound: the time the model ends
    MaxWaiting,      \* bound: runs waiting for a command
    MaxFaults        \* bound: restarts of the Manager and failed releases

ASSUME PolicyAssumption == /\ MaxConcurrency \in Nat \ {0}
                           /\ Skip \in BOOLEAN
                           /\ IsFiniteSet(Runs) /\ Explicit \subseteq Runs
ASSUME TimesAssumption == {Every, Ttl, MaxNow, MaxWaiting, MaxFaults} \subseteq Nat

VARIABLES
    now,
    enabled,     \* the workflow's triggers are enabled
    nextFire,    \* next_fire_at of the interval trigger
    deliveries,  \* rows of dag_trigger_deliveries, by fire key
    runs,        \* status of every row of dag_runs
    admissions,  \* rows of dag_run_admissions
    handler,     \* the handler under way
    queued,      \* runs with a queued live command
    recovering,  \* restarted, and no Worker has registered since
    faults,
    leftAt,      \* history: when a reservation was last left behind
    started      \* history: fires that created a run

rows == <<enabled, nextFire, deliveries, runs, admissions, queued>>
vars == <<now, rows, handler, recovering, faults, leftAt, started>>

Times    == 0 .. (MaxNow + Every)
FireKeys == EventKeys \cup Times
Statuses == {"none", "active", "waiting", "ended"}

Idle     == [step |-> "idle", kind |-> "none", key |-> 0, run |-> "none",
             reserved |-> FALSE, ok |-> FALSE]
Fired    == handler.kind \in {"interval", "event"}
ActiveRuns  == {r \in Runs : runs[r] = "active"}
WaitingRuns == {r \in Runs : runs[r] = "waiting"}

(* A reservation's id is the run's, or 'resume:' and the run's.            *)
Reservation(h) == [run |-> h.run, resume |-> h.kind = "resume"]

Referred == {a.run : a \in admissions}
Fresh == {r \in Runs \ (Explicit \cup Referred) : runs[r] \in {"none", "ended"}}
NewRun == CHOOSE r \in Fresh : TRUE

Init == /\ now = 0
        /\ enabled = TRUE
        /\ nextFire = Every
        /\ deliveries = [k \in FireKeys |-> "none"]
        /\ runs = [r \in Runs |-> "none"]
        /\ admissions = {}
        /\ handler = Idle
        /\ queued = {}
        /\ recovering = FALSE
        /\ faults = 0
        /\ leftAt = -Ttl - 1
        /\ started = [k \in FireKeys |-> 0]

-----------------------------------------------------------------------------

CountFault == faults < MaxFaults /\ faults' = faults + 1

Begin(kind, key, r, step) ==
    handler' = [step |-> step, kind |-> kind, key |-> key, run |-> r,
                reserved |-> FALSE, ok |-> FALSE]

(* Fault: a claim that was not settled may be claimed again. *)
UnsettledIsClaimable(k) == deliveries[k] \in {"none", "claimed"}

Claimable(k) == deliveries[k] = "none"

(* claimTriggerDelivery: INSERT OR IGNORE.                                 *)
Claim(kind, k) == /\ Claimable(k)
                  /\ deliveries' = [deliveries EXCEPT ![k] = "claimed"]
                  /\ Fresh # {}
                  /\ Begin(kind, k, NewRun, "admit")
                  /\ UNCHANGED nextFire

(* Fault: the duplicate branch leaves the trigger as it is. *)
IgnoreDuplicate == FALSE /\ UNCHANGED <<deliveries, handler, nextFire>>

(* Fault: the trigger is postponed twice. *)
DeferTwice == /\ ~Claimable(nextFire)
              /\ nextFire' = now + Every + Every
              /\ UNCHANGED <<deliveries, handler>>

(* The duplicate branch of dispatch postpones an interval trigger.         *)
DeferDuplicate == /\ ~Claimable(nextFire)
                  /\ nextFire' = now + Every
                  /\ UNCHANGED <<deliveries, handler>>

Due == enabled /\ nextFire <= now

(* One due trigger of the scheduler's tick.                                *)
IntervalDue ==
    /\ handler = Idle
    /\ Due
    /\ \/ Claim("interval", nextFire)
       \/ DeferDuplicate
    /\ UNCHANGED <<now, enabled, runs, admissions, queued, recovering, faults,
                   leftAt, started>>

(* fireDagEventTrigger; a duplicate changes nothing.                       *)
FireEvent(k) ==
    /\ handler = Idle
    /\ enabled
    /\ Claim("event", k)
    /\ UNCHANGED <<now, enabled, runs, admissions, queued, recovering, faults,
                   leftAt, started>>

(* createRun for a caller: with a chosen id, which an existing run answers *)
(* without admission, or with a generated one.  As a bound, identities are *)
(* left for the triggers.                                                  *)
RequestRun(r) ==
    /\ handler = Idle
    /\ \/ r \in Explicit /\ runs[r] = "none"
       \/ Cardinality(Fresh) > 1 /\ r = NewRun
    /\ Begin("manual", 0, r, "admit")
    /\ UNCHANGED <<now, rows, recovering, faults, leftAt, started>>

(* resumeRun of a waiting run.                                             *)
RequestResume(r) ==
    /\ handler = Idle
    /\ runs[r] = "waiting"
    /\ Begin("resume", 0, r, "admit")
    /\ UNCHANGED <<now, rows, recovering, faults, leftAt, started>>

-----------------------------------------------------------------------------
(* reserveWorkflowRun.                                                     *)

Orphan(a) == \/ a.at < now - Ttl
             \/ ~a.resume /\ runs[a.run] # "none"
             \/ a.resume /\ runs[a.run] # "waiting"

Kept  == {a \in admissions : ~Orphan(a)}
Count == Cardinality(ActiveRuns) + Cardinality(Kept)

Refused == \/ Skip /\ Count > 0
           \/ Count >= MaxConcurrency

(* The primary key of dag_run_admissions: the orphan of a crashed attempt  *)
(* with the same id makes the insert throw, and the pruning is undone.     *)
Taken(h) == \E a \in Kept : [run |-> a.run, resume |-> a.resume] = Reservation(h)

(* A refusal or a failure throws: dispatch settles the delivery as failed. *)
Failed == IF Fired THEN [handler EXCEPT !.step = "settle", !.ok = FALSE] ELSE Idle

(* Fault: resuming a run needs no reservation. *)
ResumeUnlimited(h) == ~enabled \/ h.kind = "resume"

(* The policy is derived from the enabled triggers; without one there is   *)
(* no limit.                                                               *)
Unlimited(h) == ~enabled

(* The third alternative is an exception: the key is taken, or the store   *)
(* fails, which it may at any time.                                        *)
Admit ==
    /\ handler.step = "admit"
    /\ \/ /\ Unlimited(handler)
          /\ handler' = [handler EXCEPT !.step = "create"]
          /\ UNCHANGED admissions
       \/ /\ ~Unlimited(handler) /\ Refused
          /\ admissions' = Kept
          /\ handler' = Failed
       \/ /\ handler' = Failed
          /\ UNCHANGED admissions
       \/ /\ ~Unlimited(handler) /\ ~Refused /\ ~Taken(handler)
          /\ admissions' = Kept \cup {[run |-> handler.run, at |-> now,
                                       resume |-> handler.kind = "resume"]}
          /\ handler' = [handler EXCEPT !.step = "create", !.reserved = TRUE]
    /\ UNCHANGED <<now, enabled, nextFire, deliveries, runs, queued, recovering,
                   faults, leftAt, started>>

(* createActiveRun, or resumeWaitingActiveRun: one transaction, which may  *)
(* throw.                                                                  *)
Create ==
    /\ handler.step = "create"
    /\ \E ok \in BOOLEAN :
          /\ handler' = [handler EXCEPT !.step = "release", !.ok = ok]
          /\ runs' = [runs EXCEPT ![handler.run] = IF ok THEN "active" ELSE @]
          /\ started' = IF ok /\ Fired THEN [started EXCEPT ![handler.key] = @ + 1]
                        ELSE started
    /\ UNCHANGED <<now, enabled, nextFire, deliveries, admissions, queued,
                   recovering, faults, leftAt>>

(* Fault: a failed creation keeps its reservation. *)
ReleasedOnSuccess(h) == IF h.reserved /\ h.ok
               THEN {a \in admissions : [run |-> a.run, resume |-> a.resume] # Reservation(h)}
               ELSE admissions

Released(h) == IF h.reserved
               THEN {a \in admissions : [run |-> a.run, resume |-> a.resume] # Reservation(h)}
               ELSE admissions

(* The handler's reservation will count if it stays: that of a run created *)
(* by it is superseded by the run's row, that of a resumption counts again *)
(* as soon as the run waits.                                               *)
Leaves(h) == /\ h.reserved
             /\ h.step \in {"create", "release"}
             /\ h.step = "release" /\ h.ok => h.kind = "resume"

LeaveReservation == leftAt' = IF Leaves(handler) THEN now ELSE leftAt

(* The finally block around the creation.  It may throw itself: createRun  *)
(* catches that exception, resumeRun lets it out to its caller.            *)
Release ==
    /\ handler.step = "release"
    /\ \/ /\ admissions' = Released(handler)
          /\ handler' = IF handler.ok THEN [handler EXCEPT !.step = "dispatch"] ELSE Failed
          /\ UNCHANGED <<faults, leftAt>>
       \/ /\ handler.reserved
          /\ handler' = IF handler.ok /\ handler.kind # "resume"
                        THEN [handler EXCEPT !.step = "dispatch"] ELSE Failed
          /\ LeaveReservation
          /\ CountFault
          /\ UNCHANGED admissions
    /\ UNCHANGED <<now, enabled, nextFire, deliveries, runs, queued, recovering,
                   started>>

(* invokeRun: the dispatch pass of the new round; a store error makes it   *)
(* throw.                                                                  *)
Dispatch ==
    /\ handler.step = "dispatch"
    /\ \E ok \in BOOLEAN :
          handler' = IF Fired THEN [handler EXCEPT !.step = "settle", !.ok = ok] ELSE Idle
    /\ UNCHANGED <<now, rows, recovering, faults, leftAt, started>>

(* completeTriggerDelivery settles the row and reschedules at once; when   *)
(* it throws, the fire is released like one that failed, and the deferral  *)
(* follows.  An exception of the release is the caller's of an event; that *)
(* of an interval is caught by nothing and ends the process: a Crash, as   *)
(* one of the deferral is.                                                 *)
Settle ==
    /\ handler.step = "settle"
    /\ \/ /\ handler.ok
          /\ deliveries' = [deliveries EXCEPT ![handler.key] = "dispatched"]
          /\ nextFire' = IF handler.kind = "interval" THEN now + Every ELSE nextFire
          /\ handler' = Idle
       \/ /\ handler.ok
          /\ handler' = [handler EXCEPT !.ok = FALSE]
          /\ UNCHANGED <<deliveries, nextFire>>
       \/ /\ ~handler.ok
          /\ deliveries' = [deliveries EXCEPT ![handler.key] = "failed"]
          /\ handler' = IF handler.kind = "interval"
                        THEN [handler EXCEPT !.step = "defer"] ELSE Idle
          /\ UNCHANGED nextFire
       \/ /\ ~handler.ok /\ handler.kind = "event"
          /\ handler' = Idle
          /\ UNCHANGED <<deliveries, nextFire>>
    /\ UNCHANGED <<now, enabled, runs, admissions, queued, recovering, faults,
                   leftAt, started>>

Defer ==
    /\ handler.step = "defer"
    /\ nextFire' = now + Every
    /\ handler' = Idle
    /\ UNCHANGED <<now, enabled, deliveries, runs, admissions, queued, recovering,
                   faults, leftAt, started>>

-----------------------------------------------------------------------------
(* The runs.                                                               *)

SendLiveCommand(r) ==
    /\ LiveCommands
    /\ handler = Idle
    /\ runs[r] = "active"
    /\ queued' = queued \cup {r}
    /\ UNCHANGED <<now, enabled, nextFire, deliveries, runs, admissions, handler,
                   recovering, faults, leftAt, started>>

(* The run reaches an await_command_gateway.  A queued live command opens  *)
(* the next round in the same handler, without a reservation.              *)
ReachBoundary(r) ==
    /\ handler = Idle
    /\ runs[r] = "active"
    /\ Cardinality(WaitingRuns) < MaxWaiting
    /\ runs' = [runs EXCEPT ![r] = "waiting"]
    /\ IF r \in queued THEN Begin("boundary", 0, r, "fallback") ELSE UNCHANGED handler
    /\ UNCHANGED <<now, enabled, nextFire, deliveries, admissions, queued,
                   recovering, faults, leftAt, started>>

ConsumeFallback ==
    /\ handler.step = "fallback"
    /\ runs' = [runs EXCEPT ![handler.run] = "active"]
    /\ queued' = queued \ {handler.run}
    /\ handler' = Idle
    /\ UNCHANGED <<now, enabled, nextFire, deliveries, admissions, recovering,
                   faults, leftAt, started>>

RunEnds(r) ==
    /\ handler = Idle
    /\ runs[r] \in {"active", "waiting"}
    /\ runs' = [runs EXCEPT ![r] = IF r \in Explicit \cup Referred THEN "ended" ELSE "none"]
    /\ queued' = queued \ {r}
    /\ UNCHANGED <<now, enabled, nextFire, deliveries, admissions, handler,
                   recovering, faults, leftAt, started>>

(* onFirstWorkerRegistered: the waiting runs with a queued live command    *)
(* are resumed, again without a reservation.                               *)
FirstWorkerRegisters ==
    /\ recovering
    /\ handler = Idle
    /\ recovering' = FALSE
    /\ runs' = [r \in Runs |-> IF r \in queued /\ runs[r] = "waiting"
                               THEN "active" ELSE runs[r]]
    /\ queued' = queued \ WaitingRuns
    /\ UNCHANGED <<now, enabled, nextFire, deliveries, admissions, handler,
                   faults, leftAt, started>>

-----------------------------------------------------------------------------
(* The workflow, the Manager and time.                                     *)

(* syncDagTriggers: a trigger that is disabled or enabled again keeps its  *)
(* next_fire_at.                                                           *)
SaveWorkflow ==
    /\ handler = Idle
    /\ enabled' = ~enabled
    /\ UNCHANGED <<now, nextFire, deliveries, runs, admissions, handler, queued, recovering,
                   faults, leftAt, started>>

Crash ==
    /\ CountFault
    /\ LeaveReservation
    /\ handler' = Idle
    /\ recovering' = TRUE
    /\ UNCHANGED <<now, rows, started>>

Elapse ==
    /\ now < MaxNow
    /\ handler = Idle
    /\ now' = now + 1
    /\ UNCHANGED <<rows, handler, recovering, faults, leftAt, started>>

HandlerStep == Admit \/ Create \/ Release \/ Dispatch \/ Settle \/ Defer \/ ConsumeFallback

Next == \/ IntervalDue
        \/ \E k \in EventKeys : FireEvent(k)
        \/ \E r \in Runs : \/ RequestRun(r)
                           \/ RequestResume(r)
                           \/ SendLiveCommand(r)
                           \/ ReachBoundary(r)
                           \/ RunEnds(r)
        \/ HandlerStep
        \/ FirstWorkerRegisters
        \/ SaveWorkflow
        \/ Crash
        \/ Elapse

(* A handler that is under way runs on.  The scheduler is a timer: however *)
(* many requests arrive, the event loop comes back to the timers between   *)
(* two of them, so a trigger that is due again and again has its turn.     *)
Fairness == SF_vars(IntervalDue) /\ WF_vars(HandlerStep)

Spec == Init /\ [][Next]_vars /\ Fairness
-----------------------------------------------------------------------------
(* Properties.                                                             *)

Handlers == [step : {"idle", "admit", "create", "release", "dispatch", "settle",
                     "defer", "fallback"},
             kind : {"none", "interval", "event", "manual", "resume", "boundary"},
             key : FireKeys, run : Runs \cup {"none"}, reserved : BOOLEAN, ok : BOOLEAN]

TypeOK ==
    /\ now \in 0 .. MaxNow
    /\ enabled \in BOOLEAN
    /\ nextFire \in Times
    /\ deliveries \in [FireKeys -> {"none", "claimed", "dispatched", "failed"}]
    /\ runs \in [Runs -> Statuses]
    /\ admissions \subseteq [run : Runs, at : 0 .. MaxNow, resume : BOOLEAN]
    /\ queued \subseteq Runs
    /\ handler \in Handlers
    /\ recovering \in BOOLEAN
    /\ faults \in 0 .. MaxFaults

Full(active) == Cardinality(active) >= MaxConcurrency \/ (Skip /\ active # {})

(* No step starts a round of a workflow whose policy is full, whatever     *)
(* crashed attempts left behind.  Two resumptions are exempt, those that   *)
(* reserve nothing: a live command at the boundary, where the run takes up *)
(* the place it has just left, and its recovery after a restart, which     *)
(* LiveFallbackIsAdmitted is about (reserveWorkflowRun).                   *)
AdmittedWithinPolicy ==
    [][\/ ActiveRuns' \subseteq ActiveRuns
       \/ ~enabled
       \/ ~Full(ActiveRuns)
       \/ handler.step = "fallback"
       \/ recovering /\ ~recovering']_vars

(* One fire starts at most one run: a retried event, a tick that finds the *)
(* fire of a crashed handler, or one whose dispatch failed after the run   *)
(* was created, does not start a second one (claimTriggerDelivery).        *)
OneRunPerFire == \A k \in FireKeys : started[k] <= 1

(* A run is refused only when as many are active as the policy allows, or  *)
(* when a reservation was left behind no longer ago than the time-out: by  *)
(* a crash, or by a release that threw after a failed creation or after a  *)
(* resumption.  No failed creation, refused fire or finished resumption    *)
(* keeps a place otherwise, nor does the reservation of a created run that *)
(* was not released (the finally blocks of createRun and resumeRun).       *)
RefusedOnlyWhenFull ==
    handler.step = "admit" /\ ~Unlimited(handler) /\ (Refused \/ Taken(handler)) =>
        Full(ActiveRuns) \/ now <= leftAt + Ttl

(* An interval trigger that is due fires or is postponed, again and again, *)
(* whatever crashed, was refused or threw: neither a delivery row left     *)
(* 'claimed' nor one that failed stops the schedule (dispatch).            *)
IntervalFiresAgain == Due ~> (nextFire > now \/ ~enabled)

(* docs/multi-round-dags.md: resuming a waiting run "must reacquire        *)
(* workflow admission before changing the waiting round".  The resumption  *)
(* of a queued live command does not (consumeRecovered...).                *)
LiveFallbackIsAdmitted ==
    [][\/ ActiveRuns' \subseteq ActiveRuns
       \/ ~enabled
       \/ ~Full(ActiveRuns)
       \/ handler.step = "fallback"]_vars
=============================================================================
