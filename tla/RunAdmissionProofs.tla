------------------------- MODULE RunAdmissionProofs -------------------------
(***************************************************************************)
(* Proofs about RunAdmission, for any policy, any number of runs, events   *)
(* and restarts.  What makes admission work over several transactions is   *)
(* that the handler runs alone: between the reservation and the creation   *)
(* only a crash may come, and a crash ends the handler.                    *)
(***************************************************************************)
EXTENDS RunAdmission, FiniteSetTheorems, TLAPS

InCreation == handler.step \in {"admit", "create"}

HandlerHasRun == handler.step \in {"admit", "create", "fallback"} => handler.run \in Runs

(* A fire that has its run, or is about to, has its delivery claimed.      *)
FiresClaimed ==
    /\ started \in [FireKeys -> 0 .. 1]
    /\ \A k \in FireKeys : started[k] = 1 => deliveries[k] # "none"
    /\ Fired /\ InCreation =>
          started[handler.key] = 0 /\ deliveries[handler.key] # "none"

(* Nothing becomes active between the reservation and the creation.        *)
RoomToCreate == handler.step = "create" /\ enabled => ~Full(ActiveRuns)

(* A reservation is superseded by the row of the run it was made for, or   *)
(* was left behind, or is the handler's own.                               *)
Superseded(a) == ~a.resume /\ runs[a.run] # "none"
Left(a) == a.at <= leftAt
Own(a)  == /\ handler.step \in {"create", "release"}
           /\ handler.reserved
           /\ [run |-> a.run, resume |-> a.resume] = Reservation(handler)

ReservationsHaveOwners ==
    /\ leftAt \in Int
    /\ \A a \in admissions : a.at <= now
    /\ \A a \in admissions : Superseded(a) \/ Left(a) \/ Own(a)
    /\ handler.step = "admit" => ~handler.reserved
    /\ handler.step = "release" /\ handler.ok => runs[handler.run] # "none"
    /\ IsFiniteSet(admissions)

Typed == TypeOK /\ HandlerHasRun

IInv == Typed /\ FiresClaimed /\ RoomToCreate /\ ReservationsHaveOwners

LEMMA TimesInt == Times \subseteq Nat /\ 0 \in Times /\ 0 \in FireKeys
BY TimesAssumption DEF Times, FireKeys

LEMMA IdleIsHandler == Idle \in Handlers
BY TimesInt DEF Idle, Handlers

LEMMA InitInv == Init => IInv
<1> SUFFICES ASSUME Init PROVE IInv
  OBVIOUS
<1> USE TimesAssumption, TimesInt DEF Init
<1>1. Typed
  <2>1. nextFire \in Times
    BY DEF Times
  <2>2. now \in 0 .. MaxNow /\ faults \in 0 .. MaxFaults
    OBVIOUS
  <2>3. /\ deliveries \in [FireKeys -> {"none", "claimed", "dispatched", "failed"}]
        /\ runs \in [Runs -> Statuses]
    BY DEF Statuses
  <2>4. TypeOK
    BY <2>1, <2>2, <2>3, IdleIsHandler DEF TypeOK
  <2> QED BY <2>4 DEF Typed, HandlerHasRun, Idle
<1>2. FiresClaimed
  BY DEF FiresClaimed, InCreation, Idle
<1>3. RoomToCreate
  BY DEF RoomToCreate, Idle
<1>4. ReservationsHaveOwners
  BY FS_EmptySet DEF ReservationsHaveOwners, Idle
<1> QED BY <1>1, <1>2, <1>3, <1>4 DEF IInv

LEMMA NewRunIsRun == Fresh # {} => NewRun \in Runs
BY DEF NewRun, Fresh

LEMMA KeptKeeps == Kept \subseteq admissions
BY DEF Kept

LEMMA ReleasedKeeps == Released(handler) \subseteq admissions
BY DEF Released

LEMMA ClaimTyped ==
    ASSUME Typed, NEW k \in FireKeys, NEW kind \in {"interval", "event"}, Claim(kind, k)
    PROVE  /\ deliveries' = [deliveries EXCEPT ![k] = "claimed"]
           /\ deliveries[k] = "none"
           /\ handler' \in Handlers
           /\ handler'.kind = kind /\ handler'.key = k /\ handler'.run \in Runs
           /\ handler'.step = "admit" /\ handler'.reserved = FALSE
           /\ nextFire' = nextFire
BY NewRunIsRun DEF Claim, Claimable, Begin, Handlers

LEMMA AdmitTyped ==
    ASSUME Typed, Admit
    PROVE  /\ handler' \in Handlers
           /\ handler'.step \in {"create", "settle", "idle"}
           /\ handler'.step = "create" =>
                 handler'.run = handler.run /\ handler'.kind = handler.kind
                 /\ handler'.key = handler.key
           /\ admissions' \subseteq [run : Runs, at : 0 .. MaxNow, resume : BOOLEAN]
<1> USE DEF Typed, TypeOK
<1>1. Failed \in Handlers /\ Failed.step \in {"settle", "idle"}
  BY IdleIsHandler DEF Failed, Idle, Handlers
<1>2. [handler EXCEPT !.step = "create"] \in Handlers
  BY DEF Handlers
<1>3. [handler EXCEPT !.step = "create", !.reserved = TRUE] \in Handlers
  BY DEF Handlers
<1>4. handler.run \in Runs
  BY DEF Admit, HandlerHasRun
<1>5. [run |-> handler.run, at |-> now, resume |-> handler.kind = "resume"]
        \in [run : Runs, at : 0 .. MaxNow, resume : BOOLEAN]
  BY <1>4
<1>6. handler' \in Handlers /\ handler'.step \in {"create", "settle", "idle"}
  BY <1>1, <1>2, <1>3 DEF Admit, Handlers
<1>7. handler'.step = "create" => handler'.run = handler.run /\ handler'.kind = handler.kind
                                  /\ handler'.key = handler.key
  BY <1>1 DEF Admit, Handlers
<1>8. admissions' \subseteq [run : Runs, at : 0 .. MaxNow, resume : BOOLEAN]
  BY <1>5, KeptKeeps DEF Admit
<1> QED BY <1>6, <1>7, <1>8

LEMMA TypeStep == Typed /\ [Next]_vars => Typed'
<1> SUFFICES ASSUME Typed, [Next]_vars PROVE Typed'
  OBVIOUS
<1> USE TimesInt, TimesAssumption DEF Typed, TypeOK, HandlerHasRun, rows
<1>1. CASE UNCHANGED vars
  BY <1>1 DEF vars
<1>2. now + Every \in Times /\ nextFire \in FireKeys
  BY DEF Times, FireKeys
<1>3. CASE IntervalDue
  <2>1. CASE Claim("interval", nextFire)
    BY <1>2, <1>3, <2>1, ClaimTyped DEF IntervalDue
  <2>2. CASE DeferDuplicate
    BY <1>2, <1>3, <2>2 DEF IntervalDue, DeferDuplicate
  <2> QED BY <1>3, <2>1, <2>2 DEF IntervalDue
<1>4. ASSUME NEW k \in EventKeys, FireEvent(k) PROVE Typed'
  BY <1>4, ClaimTyped DEF FireEvent, FireKeys
<1>5. ASSUME NEW r \in Runs, RequestRun(r) PROVE Typed'
  BY <1>5 DEF RequestRun, Begin, Handlers
<1>6. ASSUME NEW r \in Runs, RequestResume(r) PROVE Typed'
  BY <1>6 DEF RequestResume, Begin, Handlers
<1>7. ASSUME NEW r \in Runs, SendLiveCommand(r) PROVE Typed'
  BY <1>7 DEF SendLiveCommand
<1>8. ASSUME NEW r \in Runs, ReachBoundary(r) PROVE Typed'
  <2>1. runs' \in [Runs -> Statuses]
    <3>1. "waiting" \in Statuses
      BY DEF Statuses
    <3> QED BY <1>8, <3>1 DEF ReachBoundary
  <2>2. handler' \in Handlers /\ (handler' = handler \/ handler'.run \in Runs)
    <3>1. CASE r \in queued
      <4>1. Begin("boundary", 0, r, "fallback")
        BY <1>8, <3>1 DEF ReachBoundary
      <4> QED BY <4>1 DEF Begin, Handlers
    <3>2. CASE r \notin queued
      BY <1>8, <3>2 DEF ReachBoundary
    <3> QED BY <3>1, <3>2
  <2>3. UNCHANGED <<now, enabled, nextFire, deliveries, admissions, queued, recovering,
                    faults>>
    BY <1>8 DEF ReachBoundary
  <2> QED BY <2>1, <2>2, <2>3
<1>9. ASSUME NEW r \in Runs, RunEnds(r) PROVE Typed'
  BY <1>9 DEF RunEnds, Statuses
<1>10. CASE Admit
  BY <1>10, AdmitTyped DEF Admit
<1>11. CASE Create
  <2>1. runs' \in [Runs -> Statuses] /\ handler' \in Handlers /\ handler'.step = "release"
    BY <1>11 DEF Create, Statuses, Handlers
  <2> QED BY <1>11, <2>1 DEF Create
<1>12. CASE Release
  <2>1. handler' \in Handlers /\ handler'.step \in {"dispatch", "settle", "idle"}
    BY <1>12, IdleIsHandler DEF Release, Failed, Handlers, Idle
  <2>2. faults' \in 0 .. MaxFaults
    BY <1>12 DEF Release, CountFault
  <2> QED BY <1>12, <2>1, <2>2, ReleasedKeeps DEF Release
<1>13. CASE Dispatch
  <2>1. handler' \in Handlers /\ handler'.step \in {"settle", "idle"}
    BY <1>13, IdleIsHandler DEF Dispatch, Handlers, Idle
  <2> QED BY <1>13, <2>1 DEF Dispatch
<1>14. CASE Settle
  <2>1. handler' \in Handlers /\ handler'.step \in {"settle", "defer", "idle"}
    BY <1>14, IdleIsHandler DEF Settle, Handlers, Idle
  <2> QED BY <1>2, <1>14, <2>1 DEF Settle
<1>15. CASE Defer
  BY <1>2, <1>15, IdleIsHandler DEF Defer, Idle
<1>16. CASE ConsumeFallback
  BY <1>16, IdleIsHandler DEF ConsumeFallback, Idle, Statuses
<1>17. CASE FirstWorkerRegisters
  BY <1>17 DEF FirstWorkerRegisters, Statuses
<1>18. CASE SaveWorkflow
  BY <1>18 DEF SaveWorkflow
<1>19. CASE Crash
  BY <1>19, IdleIsHandler DEF Crash, CountFault, Idle
<1>20. CASE Elapse
  BY <1>20 DEF Elapse
<1> QED
  BY <1>1, <1>3, <1>4, <1>5, <1>6, <1>7, <1>8, <1>9, <1>10, <1>11, <1>12, <1>13, <1>14,
     <1>15, <1>16, <1>17, <1>18, <1>19, <1>20 DEF Next, HandlerStep

LEMMA FiresStep == IInv /\ [Next]_vars => FiresClaimed'
<1> SUFFICES ASSUME IInv, [Next]_vars PROVE FiresClaimed'
  OBVIOUS
<1> USE DEF IInv, FiresClaimed, Fired, InCreation
<1>1. ASSUME UNCHANGED <<deliveries, started>>,
             handler' = handler \/ ~(Fired' /\ InCreation')
      PROVE  FiresClaimed'
  BY <1>1
<1>2. CASE UNCHANGED vars
  BY <1>1, <1>2 DEF vars, rows
<1>3. nextFire \in FireKeys
  BY DEF Typed, TypeOK, FireKeys
<1>4. ASSUME NEW k \in FireKeys, NEW kind \in {"interval", "event"}, Claim(kind, k),
             UNCHANGED started
      PROVE  FiresClaimed'
  <2>1. started[k] = 0
    <3>1. deliveries[k] = "none"
      BY <1>4 DEF Claim, Claimable
    <3>2. started[k] \in {0, 1}
      OBVIOUS
    <3> QED BY <3>1, <3>2
  <2>2. deliveries' = [deliveries EXCEPT ![k] = "claimed"] /\ handler'.key = k
    BY <1>4, ClaimTyped
  <2>3. \A m \in FireKeys : deliveries[m] # "none" => deliveries'[m] # "none"
    BY <2>2 DEF Typed, TypeOK
  <2>4. deliveries'[k] # "none"
    BY <2>2 DEF Typed, TypeOK
  <2> QED BY <1>4, <2>1, <2>2, <2>3, <2>4
<1>5. CASE IntervalDue
  <2>1. CASE Claim("interval", nextFire)
    BY <1>3, <1>4, <1>5, <2>1 DEF IntervalDue
  <2>2. CASE DeferDuplicate
    BY <1>1, <1>5, <2>2 DEF IntervalDue, DeferDuplicate
  <2> QED BY <1>5, <2>1, <2>2 DEF IntervalDue
<1>6. ASSUME NEW k \in EventKeys, FireEvent(k) PROVE FiresClaimed'
  BY <1>4, <1>6 DEF FireEvent, FireKeys
<1>7. ASSUME NEW r \in Runs, RequestRun(r) PROVE FiresClaimed'
  BY <1>1, <1>7 DEF RequestRun, Begin, rows
<1>8. ASSUME NEW r \in Runs, RequestResume(r) PROVE FiresClaimed'
  BY <1>1, <1>8 DEF RequestResume, Begin, rows
<1>9. ASSUME NEW r \in Runs, SendLiveCommand(r) PROVE FiresClaimed'
  BY <1>1, <1>9 DEF SendLiveCommand
<1>10. ASSUME NEW r \in Runs, ReachBoundary(r) PROVE FiresClaimed'
  <2>1. handler' = handler \/ Begin("boundary", 0, r, "fallback")
    BY <1>10 DEF ReachBoundary
  <2>2. UNCHANGED <<deliveries, started>>
    BY <1>10 DEF ReachBoundary
  <2> QED BY <1>1, <2>1, <2>2 DEF Begin
<1>11. ASSUME NEW r \in Runs, RunEnds(r) PROVE FiresClaimed'
  BY <1>1, <1>11 DEF RunEnds
<1>12. CASE Admit
  <2>1. CASE handler'.step = "create"
    BY <1>12, <2>1, AdmitTyped DEF Admit
  <2>2. CASE handler'.step # "create"
    BY <1>1, <1>12, <2>2, AdmitTyped DEF Admit
  <2> QED BY <2>1, <2>2
<1>13. CASE Create
  <2>1. handler'.step = "release" /\ deliveries' = deliveries
    BY <1>13 DEF Create, Typed, TypeOK, Handlers
  <2>2. CASE started' = started
    BY <1>1, <2>1, <2>2
  <2>3. CASE Fired /\ started' = [started EXCEPT ![handler.key] = @ + 1]
    <3>1. handler.key \in FireKeys
      BY DEF Typed, TypeOK, Handlers
    <3>2. started[handler.key] = 0 /\ deliveries[handler.key] # "none"
      BY <1>13, <2>3 DEF Create
    <3> QED BY <2>1, <2>3, <3>1, <3>2
  <2> QED BY <1>13, <2>2, <2>3 DEF Create
<1>14. CASE Release
  <2>1. handler'.step \notin {"admit", "create"}
    <3>1. Failed.step \notin {"admit", "create"}
      BY <1>14 DEF Release, Failed, Idle, Typed, TypeOK, Handlers
    <3> QED BY <1>14, <3>1 DEF Release, Typed, TypeOK, Handlers
  <2> QED BY <1>1, <1>14, <2>1 DEF Release
<1>15. CASE Dispatch
  <2>1. handler'.step \notin {"admit", "create"}
    BY <1>15 DEF Dispatch, Idle, Typed, TypeOK, Handlers
  <2> QED BY <1>1, <1>15, <2>1 DEF Dispatch, rows
<1>16. CASE Settle
  <2>1. handler'.step \notin {"admit", "create"}
    BY <1>16 DEF Settle, Idle, Typed, TypeOK, Handlers
  <2>2. \A k \in FireKeys : deliveries[k] # "none" => deliveries'[k] # "none"
    BY <1>16 DEF Settle, Typed, TypeOK
  <2>3. started' = started
    BY <1>16 DEF Settle
  <2> QED BY <2>1, <2>2, <2>3
<1>17. CASE Defer
  BY <1>1, <1>17 DEF Defer, Idle
<1>18. CASE ConsumeFallback
  BY <1>1, <1>18 DEF ConsumeFallback, Idle
<1>19. CASE FirstWorkerRegisters
  BY <1>1, <1>19 DEF FirstWorkerRegisters
<1>20. CASE SaveWorkflow
  BY <1>1, <1>20 DEF SaveWorkflow
<1>21. CASE Crash
  BY <1>1, <1>21 DEF Crash, Idle, rows
<1>22. CASE Elapse
  BY <1>1, <1>22 DEF Elapse, rows
<1> QED
  BY <1>2, <1>5, <1>6, <1>7, <1>8, <1>9, <1>10, <1>11, <1>12, <1>13, <1>14, <1>15,
     <1>16, <1>17, <1>18, <1>19, <1>20, <1>21, <1>22 DEF Next, HandlerStep

(* A policy that does not refuse has room: reservations only add to the    *)
(* active runs that are counted.                                           *)
LEMMA NotRefusedHasRoom ==
    ASSUME Typed, IsFiniteSet(admissions), ~Refused
    PROVE  ~Full(ActiveRuns)
<1>1. IsFiniteSet(ActiveRuns) /\ IsFiniteSet(Kept)
  BY PolicyAssumption, KeptKeeps, FS_Subset DEF ActiveRuns
<1>2. Cardinality(ActiveRuns) \in Nat /\ Cardinality(Kept) \in Nat
  BY <1>1, FS_CardinalityType
<1>3. ActiveRuns # {} => Cardinality(ActiveRuns) > 0
  BY <1>1, <1>2, FS_EmptySet
<1> QED BY <1>2, <1>3, PolicyAssumption DEF Refused, Count, Full

(* A policy that refuses without a reservation is full.                    *)
LEMMA RefusedIsFull ==
    ASSUME Typed, Kept = {}, Refused
    PROVE  Full(ActiveRuns)
<1>1. IsFiniteSet(ActiveRuns)
  BY PolicyAssumption, FS_Subset DEF ActiveRuns
<1>2. Cardinality(ActiveRuns) \in Nat /\ Cardinality(Kept) = 0
  BY <1>1, FS_CardinalityType, FS_EmptySet
<1>3. Cardinality(ActiveRuns) > 0 => ActiveRuns # {}
  BY FS_EmptySet
<1> QED BY <1>2, <1>3, PolicyAssumption DEF Refused, Count, Full

LEMMA RoomStep == IInv /\ [Next]_vars => RoomToCreate'
<1> SUFFICES ASSUME IInv, [Next]_vars, ~UNCHANGED vars, handler'.step = "create"
             PROVE  enabled' => ~Full(ActiveRuns)'
  BY DEF IInv, RoomToCreate, Full, ActiveRuns, vars, rows
<1>1. CASE Admit
  <2>1. enabled' = enabled /\ ActiveRuns' = ActiveRuns
    BY <1>1 DEF Admit, ActiveRuns
  <2>2. Unlimited(handler) \/ ~Refused
    <3>1. Failed.step # "create"
      BY <1>1 DEF Failed, Idle, Admit, IInv, Typed, TypeOK, Handlers
    <3> QED BY <1>1, <3>1 DEF Admit
  <2>3. IsFiniteSet(admissions)
    BY DEF IInv, ReservationsHaveOwners
  <2>4. Full(ActiveRuns)' <=> Full(ActiveRuns)
    BY <2>1 DEF Full
  <2> QED BY <2>1, <2>2, <2>3, <2>4, NotRefusedHasRoom DEF Unlimited, IInv
<1>2. ~Admit => FALSE
  <2> SUFFICES ASSUME ~Admit PROVE FALSE
    OBVIOUS
  <2> USE DEF IInv, Typed, TypeOK, Handlers, Idle
  <2>1. ~IntervalDue
    BY DEF IntervalDue, Claim, Begin, DeferDuplicate
  <2>2. \A k \in EventKeys : ~FireEvent(k)
    BY DEF FireEvent, Claim, Begin
  <2>3. \A r \in Runs : ~RequestRun(r) /\ ~RequestResume(r)
    BY DEF RequestRun, RequestResume, Begin
  <2>4. ASSUME NEW r \in Runs, ReachBoundary(r) PROVE FALSE
    <3>1. handler' = Idle \/ Begin("boundary", 0, r, "fallback")
      BY <2>4 DEF ReachBoundary
    <3> QED BY <3>1 DEF Begin
  <2>5. \A r \in Runs : ~SendLiveCommand(r) /\ ~RunEnds(r)
    BY DEF SendLiveCommand, RunEnds
  <2>6. ~Create
    BY DEF Create
  <2>7. ~Release /\ ~Settle
    <3>1. Failed.step # "create"
      BY DEF Failed
    <3>2. ~Settle
      BY DEF Settle
    <3> QED BY <3>1, <3>2 DEF Release
  <2>8. ~Dispatch
    <3>1. ASSUME Dispatch PROVE handler'.step \in {"settle", "idle"}
      BY <3>1 DEF Dispatch, Fired
    <3> QED BY <3>1
  <2>9. ~Defer /\ ~ConsumeFallback
    BY DEF Defer, ConsumeFallback
  <2>10. ~FirstWorkerRegisters /\ ~SaveWorkflow /\ ~Crash /\ ~Elapse
    BY DEF FirstWorkerRegisters, SaveWorkflow, Crash, Elapse
  <2> QED BY <2>1, <2>2, <2>3, <2>4, <2>5, <2>6, <2>7, <2>8, <2>9, <2>10
     DEF Next, HandlerStep
<1> QED BY <1>1, <1>2

(* A run that a reservation refers to keeps its row.                       *)
LEMMA SupersededStays ==
    ASSUME Typed, [Next]_vars, NEW a \in admissions, Superseded(a)
    PROVE  Superseded(a)'
<1> USE DEF Superseded
<1>1. a.run \in Runs /\ runs \in [Runs -> Statuses]
  BY DEF Typed, TypeOK
<1>2. CASE runs' = runs
  BY <1>2
<1>3. ASSUME NEW r \in Runs, ReachBoundary(r) PROVE runs'[a.run] # "none"
  <2>1. runs' = [runs EXCEPT ![r] = "waiting"]
    BY <1>3 DEF ReachBoundary
  <2> QED BY <1>1, <2>1
<1>4. ASSUME NEW r \in Runs, RunEnds(r) PROVE runs'[a.run] # "none"
  <2>1. runs' = [runs EXCEPT ![r] = IF r \in Explicit \cup Referred THEN "ended" ELSE "none"]
    BY <1>4 DEF RunEnds
  <2>2. a.run \in Referred
    BY DEF Referred
  <2> QED BY <1>1, <2>1, <2>2
<1>5. CASE Create
  BY <1>1, <1>5 DEF Create
<1>6. CASE ConsumeFallback
  BY <1>1, <1>6 DEF ConsumeFallback
<1>7. CASE FirstWorkerRegisters
  BY <1>1, <1>7 DEF FirstWorkerRegisters
<1> QED
  BY <1>2, <1>3, <1>4, <1>5, <1>6, <1>7
     DEF Next, HandlerStep, vars, rows, IntervalDue, FireEvent, RequestRun, RequestResume,
         SendLiveCommand, Admit, Release, Dispatch, Settle, Defer, SaveWorkflow, Crash, Elapse

(* A reservation the handler walks away from is one that time drops, or    *)
(* its run has a row.                                                      *)
LEMMA LeavingKeeps ==
    ASSUME Typed, ReservationsHaveOwners, LeaveReservation
    PROVE  /\ leftAt' \in Int
           /\ \A a \in admissions : Superseded(a) \/ a.at <= leftAt'
<1> USE DEF ReservationsHaveOwners
<1>1. now \in Int /\ leftAt' \in {leftAt, now}
  BY DEF Typed, TypeOK, LeaveReservation
<1>2. ASSUME NEW a \in admissions PROVE Superseded(a) \/ a.at <= leftAt'
  <2>1. CASE Superseded(a)
    BY <2>1
  <2>2. CASE leftAt' = now
    BY <2>2
  <2>3. CASE leftAt' # now /\ Left(a)
    BY <1>1, <2>3 DEF Left
  <2>4. CASE leftAt' # now /\ Own(a)
    <3>1. ~Leaves(handler)
      BY <2>4 DEF LeaveReservation
    <3>2. handler.step = "release" /\ handler.ok /\ handler.kind # "resume"
      BY <2>4, <3>1 DEF Leaves, Own
    <3>3. a.run = handler.run /\ a.resume = FALSE
      BY <2>4, <3>2 DEF Own, Reservation
    <3> QED BY <3>2, <3>3 DEF Superseded
  <2> QED BY <2>1, <2>2, <2>3, <2>4
<1> QED BY <1>1, <1>2

LEMMA OwnersStep == IInv /\ [Next]_vars => ReservationsHaveOwners'
<1> SUFFICES ASSUME IInv, [Next]_vars PROVE ReservationsHaveOwners'
  OBVIOUS
<1> USE DEF IInv, ReservationsHaveOwners, Left, Own
<1>s. \A a \in admissions : Superseded(a) => Superseded(a)'
  BY SupersededStays
<1>1. ASSUME UNCHANGED <<admissions, leftAt, now>>,
             handler.step \notin {"create", "release"}, handler'.step # "release",
             handler'.step = "admit" => ~handler'.reserved
      PROVE  ReservationsHaveOwners'
  BY <1>1, <1>s
<1>2. CASE UNCHANGED vars
  BY <1>2 DEF vars, rows, Reservation, Superseded
<1>3. CASE IntervalDue
  <2>1. handler'.step # "release" /\ (handler'.step = "admit" => ~handler'.reserved)
    BY <1>3 DEF IntervalDue, Claim, Begin, DeferDuplicate, Idle
  <2>2. UNCHANGED <<admissions, leftAt, now>> /\ handler.step = "idle"
    BY <1>3 DEF IntervalDue, Idle
  <2> QED BY <1>1, <2>1, <2>2
<1>4. ASSUME NEW k \in EventKeys, FireEvent(k) PROVE ReservationsHaveOwners'
  BY <1>1, <1>4 DEF FireEvent, Claim, Begin, Idle
<1>5. ASSUME NEW r \in Runs, RequestRun(r) PROVE ReservationsHaveOwners'
  BY <1>1, <1>5 DEF RequestRun, Begin, Idle, rows
<1>6. ASSUME NEW r \in Runs, RequestResume(r) PROVE ReservationsHaveOwners'
  BY <1>1, <1>6 DEF RequestResume, Begin, Idle, rows
<1>7. ASSUME NEW r \in Runs, SendLiveCommand(r) PROVE ReservationsHaveOwners'
  BY <1>1, <1>7 DEF SendLiveCommand, Idle
<1>8. ASSUME NEW r \in Runs, ReachBoundary(r) PROVE ReservationsHaveOwners'
  <2>1. handler' = handler \/ Begin("boundary", 0, r, "fallback")
    BY <1>8 DEF ReachBoundary
  <2>2. UNCHANGED <<admissions, leftAt, now>> /\ handler.step = "idle"
    BY <1>8 DEF ReachBoundary, Idle
  <2> QED BY <1>1, <2>1, <2>2 DEF Begin
<1>9. ASSUME NEW r \in Runs, RunEnds(r) PROVE ReservationsHaveOwners'
  BY <1>1, <1>9 DEF RunEnds, Idle
<1>10. CASE Admit
  <2>1. UNCHANGED <<leftAt, now>> /\ handler.step = "admit"
    BY <1>10 DEF Admit
  <2>2. handler'.step \notin {"admit", "release"}
    BY <1>10, AdmitTyped
  <2>3. CASE admissions' \subseteq admissions
    <3>1. IsFiniteSet(admissions')
      BY <2>3, FS_Subset
    <3> QED BY <1>s, <2>1, <2>2, <2>3, <3>1
  <2>4. CASE /\ admissions' = Kept \cup {[run |-> handler.run, at |-> now,
                                          resume |-> handler.kind = "resume"]}
             /\ handler' = [handler EXCEPT !.step = "create", !.reserved = TRUE]
    <3>1. IsFiniteSet(Kept)
      BY KeptKeeps, FS_Subset
    <3>2. IsFiniteSet(admissions')
      BY <2>4, <3>1, FS_AddElement
    <3>3. /\ handler'.step = "create" /\ handler'.reserved
          /\ Reservation(handler') = Reservation(handler)
      BY <2>4 DEF Typed, TypeOK, Handlers, Reservation
    <3>4. \A a \in admissions' \ admissions :
             a.at = now /\ [run |-> a.run, resume |-> a.resume] = Reservation(handler)
      <4>1. PICK new : /\ new = [run |-> handler.run, at |-> now,
                                  resume |-> handler.kind = "resume"]
                        /\ admissions' = Kept \cup {new}
        BY <2>4
      <4>2. new.at = now /\ [run |-> new.run, resume |-> new.resume] = Reservation(handler)
        BY <4>1 DEF Reservation
      <4>3. \A a \in admissions' \ admissions : a = new
        BY <4>1, KeptKeeps
      <4> QED BY <4>2, <4>3
    <3>5. now \in Int
      BY DEF Typed, TypeOK
    <3>6. \A a \in admissions' : a.at <= now
      BY <3>4, <3>5
    <3>7. \A a \in admissions' \ admissions : Own(a)'
      BY <3>3, <3>4
    <3> QED BY <1>s, <2>1, <3>2, <3>3, <3>6, <3>7
  <2> QED BY <1>10, <2>3, <2>4, KeptKeeps DEF Admit
<1>11. CASE Create
  <2>1. /\ handler'.step = "release" /\ handler'.reserved = handler.reserved
        /\ Reservation(handler') = Reservation(handler)
    BY <1>11 DEF Create, Typed, TypeOK, Handlers, Reservation
  <2>2. handler'.ok => runs'[handler'.run] # "none"
    <3>1. handler.run \in Runs
      BY <1>11 DEF Create, Typed, HandlerHasRun
    <3> QED BY <1>11, <3>1 DEF Create, Typed, TypeOK, Handlers
  <2>3. UNCHANGED <<admissions, leftAt, now>> /\ handler.step = "create"
    BY <1>11 DEF Create
  <2> QED BY <1>s, <2>1, <2>2, <2>3
<1>12. CASE Release
  <2>1. handler'.step \notin {"admit", "create", "release"}
    <3>1. Failed.step \notin {"admit", "create", "release"}
      BY <1>12 DEF Failed, Idle, Release, Typed, TypeOK, Handlers
    <3> QED BY <1>12, <3>1 DEF Release, Typed, TypeOK, Handlers
  <2>2. now' = now /\ runs' = runs
    BY <1>12 DEF Release
  <2>3. CASE admissions' = Released(handler) /\ UNCHANGED leftAt
    <3>1. \A a \in admissions' : a \in admissions /\ ~Own(a)
      BY <2>3, ReleasedKeeps DEF Released
    <3>2. IsFiniteSet(admissions')
      BY <2>3, ReleasedKeeps, FS_Subset
    <3> QED BY <1>s, <2>1, <2>2, <2>3, <3>1, <3>2
  <2>4. CASE LeaveReservation /\ UNCHANGED admissions
    BY <1>s, <2>1, <2>2, <2>4, LeavingKeeps
  <2> QED BY <1>12, <2>3, <2>4 DEF Release
<1>13. CASE Dispatch
  <2>1. handler'.step \in {"settle", "idle"}
    BY <1>13 DEF Dispatch, Idle, Fired, Typed, TypeOK, Handlers
  <2> QED BY <1>1, <1>13, <2>1 DEF Dispatch, rows
<1>14. CASE Settle
  <2>1. handler'.step \in {"settle", "defer", "idle"}
    BY <1>14 DEF Settle, Idle, Typed, TypeOK, Handlers
  <2> QED BY <1>1, <1>14, <2>1 DEF Settle
<1>15. CASE Defer
  BY <1>1, <1>15 DEF Defer, Idle
<1>16. CASE ConsumeFallback
  BY <1>1, <1>16 DEF ConsumeFallback, Idle
<1>17. CASE FirstWorkerRegisters
  BY <1>1, <1>17 DEF FirstWorkerRegisters, Idle
<1>18. CASE SaveWorkflow
  BY <1>1, <1>18 DEF SaveWorkflow, Idle
<1>19. CASE Crash
  BY <1>s, <1>19, LeavingKeeps DEF Crash, Idle, rows
<1>20. CASE Elapse
  <2>1. \A a \in admissions : a.at <= now + 1
    <3>1. now \in Int /\ \A a \in admissions : a.at \in Int
      BY DEF Typed, TypeOK
    <3> QED BY <3>1
  <2> QED BY <1>s, <1>20, <2>1 DEF Elapse, Idle, rows
<1> QED
  BY <1>2, <1>3, <1>4, <1>5, <1>6, <1>7, <1>8, <1>9, <1>10, <1>11, <1>12, <1>13, <1>14,
     <1>15, <1>16, <1>17, <1>18, <1>19, <1>20 DEF Next, HandlerStep

LEMMA Inductive == Spec => []IInv
<1>1. Init => IInv
  BY InitInv
<1>2. IInv /\ [Next]_vars => IInv'
  BY TypeStep, FiresStep, RoomStep, OwnersStep DEF IInv
<1> QED BY <1>1, <1>2, PTL DEF Spec

(* The variables keep their types under any requests and restarts.         *)
THEOREM TypeCorrect == Spec => []TypeOK
<1>1. IInv => TypeOK
  BY DEF IInv, Typed
<1> QED BY <1>1, Inductive, PTL

(* One fire, one run, however often it is retried and wherever the Manager *)
(* stopped: the claim is committed before the run, and is never taken back.*)
THEOREM FiresStartOneRun == Spec => []OneRunPerFire
<1>1. IInv => OneRunPerFire
  BY DEF IInv, FiresClaimed, OneRunPerFire
<1> QED BY <1>1, Inductive, PTL

LEMMA AdmissionStep ==
    ASSUME IInv, [Next]_vars, ~(ActiveRuns' \subseteq ActiveRuns), enabled,
           Full(ActiveRuns)
    PROVE  handler.step = "fallback" \/ (recovering /\ ~recovering')
<1> USE DEF ActiveRuns
<1>1. runs' # runs
  OBVIOUS
<1>2. ASSUME NEW r \in Runs, RunEnds(r) PROVE FALSE
  BY <1>2 DEF RunEnds, IInv, Typed, TypeOK
<1>3. ASSUME NEW r \in Runs, ReachBoundary(r) PROVE FALSE
  <2>1. runs' = [runs EXCEPT ![r] = "waiting"]
    BY <1>3 DEF ReachBoundary
  <2> QED BY <2>1 DEF IInv, Typed, TypeOK
<1>4. ~Create
  BY DEF Create, IInv, RoomToCreate
<1>5. CASE ConsumeFallback
  BY <1>5 DEF ConsumeFallback
<1>6. CASE FirstWorkerRegisters
  BY <1>6 DEF FirstWorkerRegisters
<1> QED
  BY <1>1, <1>2, <1>3, <1>4, <1>5, <1>6
     DEF Next, HandlerStep, vars, rows, IntervalDue, FireEvent, RequestRun, RequestResume,
         SendLiveCommand, Admit, Release, Dispatch, Settle, Defer, SaveWorkflow, Crash, Elapse

(* No admitted run exceeds the policy, for every max_concurrency and both  *)
(* overlap policies: what was counted at the reservation still holds when  *)
(* the run becomes active.                                                 *)
THEOREM PolicyHolds == Spec => AdmittedWithinPolicy
<1>1. IInv /\ [Next]_vars =>
        [\/ ActiveRuns' \subseteq ActiveRuns
         \/ ~enabled
         \/ ~Full(ActiveRuns)
         \/ handler.step = "fallback"
         \/ recovering /\ ~recovering']_vars
  BY AdmissionStep
<1> QED BY <1>1, Inductive, PTL DEF Spec, AdmittedWithinPolicy

(* A refusal is justified: every reservation that is counted is the        *)
(* handler's own or was left behind, by a crash or a release that threw,   *)
(* and the time-out drops the latter.                                      *)
THEOREM RefusalsAreJustified == Spec => []RefusedOnlyWhenFull
<1>1. ASSUME IInv, handler.step = "admit", Refused \/ Taken(handler)
      PROVE  Full(ActiveRuns) \/ now <= leftAt + Ttl
  <2>1. CASE Kept = {}
    BY <1>1, <2>1, RefusedIsFull DEF Taken, IInv
  <2>2. ASSUME NEW a \in Kept PROVE now <= leftAt + Ttl
    <3>1. a \in admissions /\ ~(a.at < now - Ttl) /\ ~Superseded(a)
      BY DEF Kept, Orphan, Superseded
    <3>2. a.at <= leftAt
      BY <1>1, <3>1 DEF IInv, ReservationsHaveOwners, Left, Own
    <3>3. a.at \in Int /\ now \in Int /\ leftAt \in Int /\ Ttl \in Int
      BY <1>1, <3>1, TimesAssumption DEF IInv, Typed, TypeOK, ReservationsHaveOwners
    <3> QED BY <3>1, <3>2, <3>3
  <2> QED BY <2>1, <2>2
<1>2. IInv => RefusedOnlyWhenFull
  BY <1>1 DEF RefusedOnlyWhenFull
<1> QED BY <1>2, Inductive, PTL
=============================================================================
