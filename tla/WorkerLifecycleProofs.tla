----------------------- MODULE WorkerLifecycleProofs -----------------------
(***************************************************************************)
(* Proofs about WorkerLifecycle, for every set of Workers, every time-to-  *)
(* live and every bound.  The invariant comes in three parts, which follow *)
(* the lease, the rows of the Workers, and what the reaper remembers.      *)
(***************************************************************************)
EXTENDS WorkerLifecycle, LeaseRowsProofs

RowTable == [Workers -> [status : WorkerStates, gen : Nat]]
Runs     == {"active", "waiting", "done"}
Nodes    == {"READY", "RUNNING", "COMPLETED", "FAILED"}
Reapers  == [pc : {"idle", "workers", "expired", "runtimes"}, now : Nat,
             todo : SUBSET (Workers \X Open),
             wait : Workers \cup {NoTarget}, listed : LeaseRow]

(* A row as the table admits it, written no later than now.                *)
GoodBy(l, now) ==
    /\ GoodRow(l)
    /\ l.updated <= now
    /\ l.state = "none" => l.gen = 0 /\ l.version = 0

(* The lease a run of this status can have.                                *)
Fits(l, status) == l.state \in {"retired", "deleted"} <=> status = "done"

(* The lease was left alone or has a greater version than before, so that  *)
(* a snapshot of an equal version is of the same lease.                    *)
Overwrites(new, old) == new = old \/ new.version > old.version

LeaseInv ==
    /\ clock \in Nat
    /\ run \in Runs /\ node \in Nodes
    /\ GoodBy(lease, clock)
    /\ Fits(lease, run)
    /\ RunningIsLeased

ReaperTyped == reaper \in Reapers /\ reaper.now <= clock

(* What a step may do to the lease.                                        *)
LeaseMoves == Overwrites(lease', lease) \/ lease' = Deleted(lease)

----------------------------------------------------------------------------
(* The operations of LeaseRows, as this module calls them.                 *)

LEMMA AcquiredNow ==
    ASSUME NEW now \in Nat, NEW l, GoodBy(l, now), NEW w \in Workers
    PROVE  /\ GoodBy(Acquired(l, w, now), now)
           /\ Acquired(l, w, now).state = "leased"
           /\ Acquired(l, w, now).gen \in Nat
           /\ Acquired(l, w, now).version > l.version
<1> DEFINE new == Acquired(l, w, now)
<1>1. /\ GoodRow(l) /\ w \in Targets /\ (l.state # "none" => now >= l.updated)
      /\ l.state = "none" => l.gen = 0 /\ l.version = 0
      /\ l.updated \in Nat /\ l.version \in Nat
  BY DEF GoodBy, GoodRow, LeaseRow, Workers
<1>2. /\ GoodRow(new) /\ new.state = "leased" /\ new.updated = now
      /\ new.version = Ensured(l, now).version + 1
  BY <1>1, AcquiredRow
<1>3. Ensured(l, now).version >= l.version /\ Ensured(l, now).version \in Nat
  BY <1>1 DEF Ensured, Created
<1>4. new.gen \in Nat
  BY <1>2 DEF GoodRow, LeaseRow
<1> HIDE DEF new
<1> QED BY <1>1, <1>2, <1>3, <1>4 DEF GoodBy, new

LEMMA FreedNow ==
    ASSUME NEW now \in Nat, NEW l, GoodRow(l), NEW later \in Nat, now <= later,
           NEW state \in {"dormant", "retired"}
    PROVE  /\ GoodBy(Freed(l, state, now), later)
           /\ Freed(l, state, now).state = state
           /\ Freed(l, state, now).version > l.version
<1> DEFINE new == Freed(l, state, now)
<1>1. l.version \in Nat
  BY DEF GoodRow, LeaseRow
<1>2. /\ GoodRow(new) /\ new.state = state /\ new.updated = now
      /\ new.version = l.version + 1
  BY FreedRow
<1> HIDE DEF new
<1> QED BY <1>1, <1>2 DEF GoodBy, new

LEMMA EnsuredNow ==
    ASSUME NEW now \in Nat, NEW l, GoodBy(l, now)
    PROVE  /\ GoodBy(Ensured(l, now), now)
           /\ Overwrites(Ensured(l, now), l)
           /\ l.state # "none" => Ensured(l, now) = l
           /\ l.state = "none" => Ensured(l, now).state = "dormant"
<1>1. CASE l.state = "none"
  <2> DEFINE new == Created(FALSE, now)
  <2>1. Ensured(l, now) = new /\ l.version = 0
    BY <1>1 DEF Ensured, GoodBy
  <2>2. /\ GoodRow(new) /\ new.state = "dormant" /\ new.updated = now
        /\ new.version = 1
    BY CreatedRow
  <2> HIDE DEF new
  <2> QED BY <1>1, <2>1, <2>2 DEF GoodBy, Overwrites
<1>2. CASE l.state # "none"
  BY <1>2 DEF Ensured, Overwrites
<1> QED BY <1>1, <1>2

LEMMA TerminalNow ==
    ASSUME clock \in Nat, NEW l, GoodBy(l, clock)
    PROVE  /\ GoodBy(Terminal(l), clock)
           /\ Terminal(l).state = "retired"
           /\ Overwrites(Terminal(l), l)
<1> DEFINE current == Ensured(l, clock)
<1>1. GoodBy(current, clock) /\ Overwrites(current, l)
  BY EnsuredNow
<1>2. current.version \in Nat /\ l.version \in Nat /\ GoodRow(current)
  BY <1>1 DEF GoodBy, GoodRow, LeaseRow
<1>3. Terminal(l) = IF current.state = "retired" THEN current
                                                 ELSE Freed(current, "retired", clock)
  BY DEF Terminal, Retired
<1> HIDE DEF current
<1>4. CASE current.state = "retired"
  BY <1>1, <1>3, <1>4
<1>5. CASE current.state # "retired"
  <2>1. /\ GoodBy(Terminal(l), clock) /\ Terminal(l).state = "retired"
        /\ Terminal(l).version > current.version
    BY <1>2, <1>3, <1>5, FreedNow
  <2>2. Terminal(l).version \in Nat
    BY <2>1 DEF GoodBy, GoodRow, LeaseRow
  <2> QED BY <1>1, <1>2, <2>1, <2>2 DEF Overwrites
<1> QED BY <1>4, <1>5

(* A row is seldom written twice in a step; versions grow all the same.    *)
LEMMA OverwritesTwice ==
    ASSUME NEW a, NEW b, NEW c, GoodRow(a), GoodRow(b), GoodRow(c),
           Overwrites(c, b), Overwrites(b, a)
    PROVE  Overwrites(c, a)
BY DEF Overwrites, GoodRow, LeaseRow

----------------------------------------------------------------------------
(* The lease and the run.                                                  *)

LEMMA EndRunLease ==
    ASSUME clock \in Nat, NEW l, GoodBy(l, clock), NEW rows, EndRun(l, rows)
    PROVE  /\ run' = "done" /\ lease'.state = "retired"
           /\ GoodBy(lease', clock) /\ Overwrites(lease', l)
BY TerminalNow DEF EndRun

LEMMA FailRunLease ==
    ASSUME clock \in Nat, run \in Runs, node \in Nodes, NEW l, NEW rows, NEW S,
           GoodBy(l, clock), Fits(l, run), FailRun(l, rows, S)
    PROVE  /\ run' \in Runs /\ node' \in Nodes
           /\ GoodBy(lease', clock) /\ Fits(lease', run') /\ Overwrites(lease', l)
           /\ run = "active" => node' = "FAILED"
           /\ run # "active" => lease' = l /\ run' = run /\ node' = node
<1>1. CASE run = "active" /\ EndRun(l, rows)
  BY <1>1, EndRunLease DEF FailRun, Runs, Nodes, Fits
<1>2. CASE ~(run = "active" /\ EndRun(l, rows))
  BY <1>2 DEF FailRun, Overwrites, runVars, Nodes
<1> QED BY <1>1, <1>2

LEMMA SameLease ==
    ASSUME LeaseInv, clock' \in Nat, clock' >= clock, UNCHANGED <<run, node, lease>>
    PROVE  LeaseInv' /\ LeaseMoves
<1>1. lease.updated \in Nat
  BY DEF LeaseInv, GoodBy, GoodRow, LeaseRow
<1>2. GoodBy(lease', clock')
  BY <1>1 DEF LeaseInv, GoodBy
<1> QED BY <1>2 DEF LeaseInv, Fits, RunningIsLeased, LeaseMoves, Overwrites

(* A step of a run that is not done, which leaves the lease with a holder  *)
(* or without.                                                             *)
LEMMA OpenLease ==
    ASSUME LeaseInv, clock' = clock, run # "done", run' \in Runs \ {"done"},
           node' \in Nodes, GoodBy(lease', clock), Overwrites(lease', lease),
           lease'.state \in {"none", "dormant", "leased"},
           run' = "active" /\ node' = "RUNNING" => lease'.state = "leased"
    PROVE  LeaseInv' /\ LeaseMoves
BY DEF LeaseInv, Fits, RunningIsLeased, LeaseMoves

LEMMA RespondLease ==
    ASSUME LeaseInv, NEW w \in Workers, Respond(w)
    PROVE  LeaseInv' /\ LeaseMoves
<1>1. /\ clock' = clock /\ run' = run /\ run = "active" /\ node' = "COMPLETED"
      /\ lease.state = "leased" /\ clock \in Nat /\ GoodBy(lease, clock)
      /\ lease' = Acquired(lease, w, clock) \/ lease' = lease
  BY DEF Respond, LeaseInv, Owned, Holds
<1>2. /\ GoodBy(lease', clock) /\ lease'.state = "leased"
      /\ Overwrites(lease', lease)
  BY <1>1, AcquiredNow DEF Overwrites
<1> QED BY <1>1, <1>2, OpenLease DEF Runs, Nodes

LEMMA DispatchHotLease ==
    ASSUME LeaseInv, NEW w \in Workers, DispatchHot(w) \/ DispatchSendFails(w)
    PROVE  LeaseInv' /\ LeaseMoves
<1> DEFINE acquired == Acquired(lease, w, clock)
<1>1. /\ clock' = clock /\ run' = run /\ run = "active" /\ node = "READY"
      /\ clock \in Nat /\ GoodBy(lease, clock)
  BY DEF DispatchHot, DispatchSendFails, Dispatchable, LeaseInv, runVars
<1>2. /\ GoodBy(acquired, clock) /\ acquired.state = "leased"
      /\ Overwrites(acquired, lease)
  BY <1>1, AcquiredNow DEF Overwrites
<1>3. CASE DispatchHot(w)
  <2>1. lease' = acquired /\ node' = "RUNNING"
    BY <1>3 DEF DispatchHot
  <2> HIDE DEF acquired
  <2> QED BY <1>1, <1>2, <2>1, OpenLease DEF Runs, Nodes
<1>4. CASE DispatchSendFails(w)
  <2>1. lease' = Freed(acquired, "dormant", clock) /\ node' = node
    BY <1>4 DEF DispatchSendFails, runVars, Released
  <2> HIDE DEF acquired
  <2>2. /\ GoodBy(lease', clock) /\ lease'.state = "dormant"
        /\ Overwrites(lease', acquired)
    BY <1>1, <1>2, <2>1, FreedNow DEF GoodBy, Overwrites
  <2>3. Overwrites(lease', lease)
    BY <1>1, <1>2, <2>2, OverwritesTwice DEF GoodBy
  <2> QED BY <1>1, <2>1, <2>2, <2>3, OpenLease DEF Runs, Nodes
<1> QED BY <1>3, <1>4

LEMMA AwaitLease ==
    ASSUME LeaseInv, AwaitCommand
    PROVE  LeaseInv' /\ LeaseMoves
<1>1. /\ clock' = clock /\ run = "active" /\ run' = "waiting" /\ node' = node
      /\ clock \in Nat /\ GoodBy(lease, clock) /\ node \in Nodes
      /\ lease.state \in {"none", "dormant", "leased"}
  BY DEF AwaitCommand, LeaseInv, Fits, GoodBy, GoodRow, LeaseRow, LeaseStates
<1>2. CASE lease.state = "leased"
  <2>1. lease.target \in Workers /\ lease' = Acquired(lease, lease.target, clock)
    BY <1>1, <1>2 DEF AwaitCommand, GoodBy, GoodRow, Checks, Workers
  <2>2. /\ GoodBy(lease', clock) /\ lease'.state = "leased"
        /\ Overwrites(lease', lease)
    BY <1>1, <2>1, AcquiredNow DEF Overwrites
  <2> QED BY <1>1, <2>2, OpenLease DEF Runs
<1>3. CASE lease.state # "leased"
  <2>1. lease' = Ensured(lease, clock)
    BY <1>3 DEF AwaitCommand
  <2>2. /\ GoodBy(lease', clock) /\ lease'.state = "dormant"
        /\ Overwrites(lease', lease)
    BY <1>1, <1>3, <2>1, EnsuredNow
  <2> QED BY <1>1, <2>2, OpenLease DEF Runs
<1> QED BY <1>2, <1>3

LEMMA ResumeLease ==
    ASSUME LeaseInv, Resume
    PROVE  LeaseInv' /\ LeaseMoves
BY DEF Resume, LeaseInv, Fits, RunningIsLeased, LeaseMoves, Overwrites, Runs, Nodes

LEMMA EndedLease ==
    ASSUME LeaseInv, clock' = clock, node' \in Nodes, run' = "done",
           lease'.state = "retired", GoodBy(lease', clock), Overwrites(lease', lease)
    PROVE  LeaseInv' /\ LeaseMoves
BY DEF LeaseInv, Fits, RunningIsLeased, LeaseMoves, Runs

LEMMA FinishLease ==
    ASSUME LeaseInv, Finish
    PROVE  LeaseInv' /\ LeaseMoves
<1>1. /\ clock' = clock /\ node' = node /\ EndRun(lease, row)
      /\ clock \in Nat /\ GoodBy(lease, clock) /\ node \in Nodes
  BY DEF Finish, LeaseInv
<1> QED BY <1>1, EndRunLease, EndedLease

(* A handler that may fail the run, from a lease it may have written.      *)
LEMMA FailedLease ==
    ASSUME LeaseInv, clock' = clock, NEW l, NEW rows, NEW S,
           GoodBy(l, clock), Fits(l, run), Overwrites(l, lease),
           FailRun(l, rows, S)
    PROVE  LeaseInv' /\ LeaseMoves
<1>1. clock \in Nat /\ run \in Runs /\ node \in Nodes /\ GoodBy(lease, clock)
  BY DEF LeaseInv
<1>2. /\ run' \in Runs /\ node' \in Nodes
      /\ GoodBy(lease', clock) /\ Fits(lease', run') /\ Overwrites(lease', l)
      /\ run = "active" => node' = "FAILED"
      /\ run # "active" => lease' = l /\ run' = run /\ node' = node
  BY <1>1, FailRunLease
<1>3. Overwrites(lease', lease)
  BY <1>1, <1>2, OverwritesTwice DEF GoodBy
<1>4. RunningIsLeased'
  BY <1>2 DEF LeaseInv, RunningIsLeased
<1> QED BY <1>1, <1>2, <1>3, <1>4 DEF LeaseInv, LeaseMoves

LEMMA ProvisioningFailsLease ==
    ASSUME LeaseInv, NEW w \in Workers,
           ProvisioningFails(w) \/ ProvisionedTooLate(w)
    PROVE  LeaseInv' /\ LeaseMoves
<1>1. CASE UNCHANGED <<run, node, lease>>
  <2>1. clock' \in Nat /\ clock' >= clock
    BY DEF LeaseInv, ProvisioningFails, ProvisionedTooLate
  <2> QED BY <1>1, <2>1, SameLease
<1>2. CASE FailRun(lease, row, {})
  <2>1. /\ clock' = clock /\ GoodBy(lease, clock) /\ Fits(lease, run)
        /\ Overwrites(lease, lease)
    BY DEF LeaseInv, ProvisioningFails, ProvisionedTooLate, Overwrites
  <2> QED BY <1>2, <2>1, FailedLease
<1> QED BY <1>1, <1>2 DEF ProvisioningFails, ProvisionedTooLate, runVars

LEMMA BoundLease ==
    ASSUME LeaseInv, NEW w \in Workers, CanBind(w)
    PROVE  /\ run = "active" /\ node = "READY"
           /\ GoodBy(Bound(w), clock) /\ Bound(w).state = "leased"
           /\ Bound(w).gen \in Nat /\ Overwrites(Bound(w), lease)
<1>1. clock \in Nat /\ GoodBy(lease, clock) /\ run = "active" /\ node = "READY"
  BY DEF LeaseInv, CanBind
<1> QED BY <1>1, AcquiredNow DEF Bound, Overwrites

LEMMA GivenBackLease ==
    ASSUME LeaseInv, NEW w \in Workers, CanBind(w)
    PROVE  /\ GoodBy(Released(Bound(w), clock), clock)
           /\ Released(Bound(w), clock).state = "dormant"
           /\ Overwrites(Released(Bound(w), clock), lease)
<1> DEFINE given == Released(Bound(w), clock)
<1>1. clock \in Nat /\ GoodBy(lease, clock)
  BY DEF LeaseInv
<1>2. GoodRow(Bound(w)) /\ Overwrites(Bound(w), lease)
  BY BoundLease DEF GoodBy
<1>3. /\ GoodBy(given, clock) /\ given.state = "dormant"
      /\ Overwrites(given, Bound(w))
  BY <1>1, <1>2, FreedNow DEF Released, Overwrites
<1> HIDE DEF given
<1>4. Overwrites(given, lease)
  BY <1>1, <1>2, <1>3, OverwritesTwice DEF GoodBy
<1> QED BY <1>3, <1>4 DEF given

LEMMA ProvisionedLease ==
    ASSUME LeaseInv, NEW w \in Workers,
           \/ ProvisionedAndSent(w) \/ ProvisionedNotSent(w)
           \/ ProvisionedUnfit(w) \/ ProvisionedOverLimit(w)
    PROVE  LeaseInv' /\ LeaseMoves
<1>1. CanBind(w) /\ clock' = clock
  BY DEF ProvisionedAndSent, ProvisionedNotSent, ProvisionedUnfit,
         ProvisionedOverLimit
<1>2. /\ run = "active" /\ node = "READY"
      /\ GoodBy(Bound(w), clock) /\ Bound(w).state = "leased"
      /\ Overwrites(Bound(w), lease)
  BY <1>1, BoundLease
<1>3. LET given == Released(Bound(w), clock)
      IN  /\ GoodBy(given, clock) /\ given.state = "dormant"
          /\ Overwrites(given, lease)
  BY <1>1, GivenBackLease
<1>4. CASE ProvisionedAndSent(w)
  BY <1>1, <1>2, <1>4, OpenLease DEF ProvisionedAndSent, Runs, Nodes
<1>5. CASE ProvisionedNotSent(w)
  <2>1. FailRun(Released(Bound(w), clock), BoundRow(w), {w})
    BY <1>5 DEF ProvisionedNotSent
  <2>2. Fits(Released(Bound(w), clock), run)
    BY <1>2, <1>3 DEF Fits
  <2> QED BY <1>1, <1>2, <1>3, <2>1, <2>2, FailedLease
<1>6. CASE ProvisionedUnfit(w)
  <2>1. run' = run /\ node' = node /\ lease' = Released(Bound(w), clock)
    BY <1>6 DEF ProvisionedUnfit, runVars
  <2> QED BY <1>1, <1>2, <1>3, <2>1, OpenLease DEF Runs, Nodes
<1>7. CASE ProvisionedOverLimit(w)
  <2>1. EndRun(Bound(w), BoundRow(w)) /\ node' = "FAILED"
    BY <1>7 DEF ProvisionedOverLimit
  <2>2. clock \in Nat /\ GoodRow(lease) /\ GoodRow(Bound(w))
    BY <1>2 DEF LeaseInv, GoodBy
  <2>3. /\ run' = "done" /\ lease'.state = "retired" /\ GoodBy(lease', clock)
        /\ Overwrites(lease', Bound(w))
    BY <1>2, <2>1, <2>2, EndRunLease
  <2>4. Overwrites(lease', lease)
    BY <1>2, <2>2, <2>3, OverwritesTwice DEF GoodBy
  <2> QED BY <1>1, <2>1, <2>3, <2>4, EndedLease DEF Nodes
<1> QED BY <1>4, <1>5, <1>6, <1>7

LEMMA ReapStartLease ==
    ASSUME LeaseInv, ReapStart
    PROVE  LeaseInv' /\ LeaseMoves
<1>1. /\ clock \in Nat /\ clock' = clock /\ run' = run /\ node' = node
      /\ run \in Runs /\ node \in Nodes /\ GoodBy(lease, clock)
  BY DEF ReapStart, LeaseInv, runVars
<1>2. CASE lease' = lease
  BY <1>1, <1>2, SameLease
<1>3. CASE lease' # lease
  <2>1. /\ run = "active" /\ lease.state = "leased"
        /\ lease' = Acquired(lease, lease.target, clock)
    BY <1>3 DEF ReapStart
  <2>2. lease.target \in Workers
    BY <1>1, <2>1 DEF GoodBy, GoodRow, Checks, Workers
  <2>3. /\ GoodBy(lease', clock) /\ lease'.state = "leased"
        /\ Overwrites(lease', lease)
    BY <1>1, <2>1, <2>2, AcquiredNow DEF Overwrites
  <2> QED BY <1>1, <2>1, <2>3, OpenLease DEF Runs
<1> QED BY <1>2, <1>3

(* A release by the reaper, at its own time.                               *)
LEMMA ReaperReleases ==
    ASSUME LeaseInv, ReaperTyped,
           lease.state = "leased"
    PROVE  /\ GoodBy(Released(lease, reaper.now), clock)
           /\ Released(lease, reaper.now).state = "dormant"
           /\ Overwrites(Released(lease, reaper.now), lease)
           /\ run # "done"
<1>1. /\ reaper.now \in Nat /\ clock \in Nat /\ reaper.now <= clock
      /\ GoodRow(lease)
  BY DEF LeaseInv, ReaperTyped, Reapers, GoodBy
<1>2. run # "done"
  BY DEF LeaseInv, Fits
<1> QED BY <1>1, <1>2, FreedNow DEF Released, Overwrites

LEMMA ReapDisconnectedLease ==
    ASSUME LeaseInv, ReaperTyped, NEW w \in Workers, ReapDisconnected(w)
    PROVE  LeaseInv' /\ LeaseMoves
<1>1. /\ clock' = clock /\ lease.state = "leased"
      /\ run \in Runs /\ node \in Nodes
  BY DEF ReapDisconnected, ReleaseAllowed, Holds, LeaseInv
<1>2. LET given == Released(lease, reaper.now)
      IN  /\ GoodBy(given, clock) /\ given.state = "dormant"
          /\ Overwrites(given, lease) /\ run # "done"
  BY <1>1, ReaperReleases
<1>3. CASE ActiveNodeDisconnected
  <2>1. run = "active" /\ FailRun(Released(lease, reaper.now), FailedRow(w), {})
    BY <1>3 DEF ReapDisconnected, ActiveNodeDisconnected
  <2>2. Fits(Released(lease, reaper.now), run)
    BY <1>2 DEF Fits
  <2> QED BY <1>1, <1>2, <2>1, <2>2, FailedLease
<1>4. CASE ~ActiveNodeDisconnected
  <2>1. /\ lease' = Released(lease, reaper.now) /\ run' = run /\ node' = node
        /\ ~(run = "active" /\ node = "RUNNING")
    BY <1>4 DEF ReapDisconnected, ActiveNodeDisconnected, runVars
  <2> QED BY <1>1, <1>2, <2>1, OpenLease DEF Runs
<1> QED BY <1>3, <1>4

LEMMA ReapExpiredLease ==
    ASSUME LeaseInv, ReaperTyped, ReapExpired
    PROVE  LeaseInv' /\ LeaseMoves
<1>1. /\ clock' = clock /\ run' = run /\ node' = node
      /\ clock \in Nat /\ run \in Runs /\ node \in Nodes
  BY DEF ReapExpired, LeaseInv, runVars
<1>2. CASE Releasable
  <2>1. /\ lease.state = "leased" /\ run # "active"
        /\ lease' = Released(lease, reaper.now)
    BY <1>2 DEF ReapExpired, Releasable, ReleaseAllowed, Holds
  <2>2. /\ GoodBy(lease', clock) /\ lease'.state = "dormant"
        /\ Overwrites(lease', lease) /\ run # "done"
    BY <2>1, ReaperReleases
  <2> QED BY <1>1, <2>1, <2>2, OpenLease DEF Runs
<1>3. CASE ~Releasable
  <2>1. lease' = lease
    BY <1>3 DEF ReapExpired
  <2> QED BY <1>1, <2>1, SameLease
<1> QED BY <1>2, <1>3

LEMMA ReapRuntimesLease ==
    ASSUME LeaseInv, ReapRuntimes
    PROVE  LeaseInv' /\ LeaseMoves
<1>1. /\ clock' = clock /\ run' = run /\ node' = node
      /\ clock \in Nat /\ run \in Runs /\ node \in Nodes /\ GoodBy(lease, clock)
  BY DEF ReapRuntimes, LeaseInv, runVars
<1>2. CASE lease' = lease
  BY <1>1, <1>2, SameLease
<1>3. CASE lease' # lease
  <2>1. lease' = Deleted(lease) /\ run = "done"
    BY <1>3 DEF ReapRuntimes
  <2>2. /\ GoodRow(lease') /\ lease'.state = "deleted"
        /\ lease'.updated = lease.updated
    BY <1>1, <2>1, DeletedRow DEF GoodBy, GoodRow, LeaseRow, Deleted
  <2>3. GoodBy(lease', clock)
    BY <1>1, <2>2 DEF GoodBy
  <2> QED BY <1>1, <2>1, <2>2, <2>3
          DEF LeaseInv, Fits, RunningIsLeased, LeaseMoves
<1> QED BY <1>2, <1>3

LEMMA RestartLease ==
    ASSUME LeaseInv, NEW l, NEW rows, Restart(l, rows),
           GoodBy(l, clock), Fits(l, run), Overwrites(l, lease),
           run = "active" /\ node = "RUNNING" => l.state = "leased"
    PROVE  LeaseInv' /\ LeaseMoves
<1>1. /\ clock' = clock /\ clock \in Nat /\ GoodRow(lease) /\ GoodRow(l)
      /\ run \in Runs /\ node \in Nodes
  BY DEF Restart, LeaseInv, GoodBy
<1>2. CASE run = "active" /\ node = "RUNNING" /\ node' = "FAILED" /\ run' = "done"
           /\ lease' = Terminal(l)
  <2>1. /\ GoodBy(lease', clock) /\ lease'.state = "retired"
        /\ Overwrites(lease', l)
    BY <1>1, <1>2, TerminalNow
  <2>2. Overwrites(lease', lease)
    BY <1>1, <2>1, OverwritesTwice DEF GoodBy
  <2> QED BY <1>1, <1>2, <2>1, <2>2, EndedLease DEF Nodes
<1>3. CASE run' = run /\ lease' = l /\ node' \in {"FAILED", "READY"}
  BY <1>1, <1>3 DEF LeaseInv, LeaseMoves, RunningIsLeased, Nodes
<1>4. CASE run' = run /\ lease' = l /\ node' = node
  BY <1>1, <1>4 DEF LeaseInv, LeaseMoves, RunningIsLeased
<1> QED BY <1>2, <1>3, <1>4 DEF Restart

LEMMA CrashLease ==
    ASSUME LeaseInv,
           \/ Crash
           \/ \E w \in Workers : CrashBeforeRegister(w) \/ CrashBeforeRelease(w)
    PROVE  LeaseInv' /\ LeaseMoves
<1>1. /\ GoodBy(lease, clock) /\ Fits(lease, run) /\ Overwrites(lease, lease)
      /\ run = "active" /\ node = "RUNNING" => lease.state = "leased"
  BY DEF LeaseInv, Overwrites, RunningIsLeased
<1>2. CASE Crash
  BY <1>1, <1>2, RestartLease DEF Crash
<1>3. ASSUME NEW w \in Workers, CrashBeforeRegister(w) PROVE LeaseInv' /\ LeaseMoves
  <2>1. /\ run = "active" /\ GoodBy(Bound(w), clock) /\ Bound(w).state = "leased"
        /\ Overwrites(Bound(w), lease)
    BY <1>3, BoundLease DEF CrashBeforeRegister
  <2>2. Fits(Bound(w), run)
    BY <2>1 DEF Fits
  <2> QED BY <1>3, <2>1, <2>2, RestartLease DEF CrashBeforeRegister
<1>4. ASSUME NEW w \in Workers, CrashBeforeRelease(w) PROVE LeaseInv' /\ LeaseMoves
  BY <1>1, <1>4, RestartLease DEF CrashBeforeRelease
<1> QED BY <1>2, <1>3, <1>4

(* The steps that touch neither the lease nor the run.                     *)
Elsewhere ==
    \/ Tick \/ ReapList
    \/ \E w \in Workers :
          \/ StartProvisioning(w) \/ ContainerStarts(w) \/ Connect(w)
          \/ \E s \in 1..MaxSockets : Close(w, s)
          \/ CleanupDone(w) \/ CleanupFails(w)
          \/ ReapDisconnectedRefused(w) \/ ReapSkip(w)
          \/ \E status \in Open : ReapReclaim(w, status)

LEMMA ElsewhereLease ==
    ASSUME LeaseInv, Elsewhere
    PROVE  LeaseInv' /\ LeaseMoves
<1>1. clock \in Nat
  BY DEF LeaseInv
<1>2. CASE Tick
  <2>1. clock' \in Nat /\ clock' >= clock /\ UNCHANGED <<run, node, lease>>
    BY <1>1, <1>2 DEF Tick, runVars
  <2> QED BY <2>1, SameLease
<1>3. CASE ~Tick
  <2>1. clock' = clock /\ UNCHANGED <<run, node, lease>>
    BY <1>3 DEF Elsewhere, ReapList, StartProvisioning, ContainerStarts, Connect,
       Close, CleanupDone, CleanupFails, ReapDisconnectedRefused, ReapSkip,
       ReapReclaim, runVars
  <2>2. clock' \in Nat /\ clock' >= clock
    BY <1>1, <2>1
  <2> QED BY <2>1, <2>2, SameLease
<1> QED BY <1>2, <1>3

LEMMA LeaseStep ==
    ASSUME LeaseInv, ReaperTyped, Next
    PROVE  LeaseInv' /\ LeaseMoves
<1>1. CASE Elsewhere
  BY <1>1, ElsewhereLease
<1>2. CASE AwaitCommand \/ Resume \/ Finish
  BY <1>2, AwaitLease, ResumeLease, FinishLease
<1>3. CASE ReapStart \/ ReapExpired \/ ReapRuntimes
           \/ \E w \in Workers : ReapDisconnected(w)
  BY <1>3, ReapStartLease, ReapExpiredLease, ReapRuntimesLease, ReapDisconnectedLease
<1>4. CASE \/ Crash
           \/ \E w \in Workers : CrashBeforeRegister(w) \/ CrashBeforeRelease(w)
  BY <1>4, CrashLease
<1>5. CASE \E w \in Workers :
              Respond(w) \/ DispatchHot(w) \/ DispatchSendFails(w)
  BY <1>5, RespondLease, DispatchHotLease
<1>6. CASE \E w \in Workers :
              ProvisioningFails(w) \/ ProvisionedTooLate(w)
  BY <1>6, ProvisioningFailsLease
<1>7. CASE \E w \in Workers :
              \/ ProvisionedAndSent(w) \/ ProvisionedNotSent(w)
              \/ ProvisionedUnfit(w) \/ ProvisionedOverLimit(w)
  BY <1>7, ProvisionedLease
<1> QED BY <1>1, <1>2, <1>3, <1>4, <1>5, <1>6, <1>7 DEF Next, Reap, Elsewhere

----------------------------------------------------------------------------
(* The rows of the Workers and their containers.                           *)

RowsTyped ==
    /\ row \in RowTable
    /\ registered \subseteq Workers /\ jobs \subseteq Workers
    /\ provisioning \in Workers \cup {NoTarget}
    /\ box \in [Workers -> {"none", "up", "gone"}]

(* A Worker being provisioned has not been registered yet.                 *)
ProvisionedIsNew ==
    \A w \in Workers :
        provisioning = w => row[w].status = "absent" /\ w \notin registered

(* A registered Worker is released only when its container is gone.        *)
ReleasedIsGone ==
    \A w \in registered :
        row[w].status \in {"absent", "released"} => box[w] = "gone"

DeletedHasNoRows ==
    lease.state = "deleted" => \A w \in Workers : row[w].status = "absent"

(* What the reaper has listed still has a row, and one that was not active *)
(* has not become active again.                                            *)
ListedStays ==
    \A w \in Workers, status \in Open :
        <<w, status>> \in reaper.todo
            => /\ row[w].status # "absent"
               /\ status # "active" => row[w].status # "active"

RowsInv == RowsTyped /\ ProvisionedIsNew /\ ReleasedIsGone /\ DeletedHasNoRows
           /\ ListedStays

(* The inner part of NoActiveOwnerRemoved.                                 *)
OwnersStay ==
    \A w \in Workers :
        row[w].status = "active" /\ row'[w].status = "releasing"
           => ~Holds(lease', row[w].gen, w)

(* Most steps register nobody, revive no row and lose no container that    *)
(* is gone.                                                                *)
Quiet ==
    /\ row' \in RowTable /\ jobs' \subseteq Workers
    /\ box' \in [Workers -> {"none", "up", "gone"}]
    /\ registered' = registered
    /\ provisioning' \in {provisioning, NoTarget}
    /\ reaper'.todo \subseteq reaper.todo
    /\ lease'.state = "deleted" => lease.state = "deleted"
    /\ \A w \in Workers :
          /\ row'[w].status = "absent" <=> row[w].status = "absent"
          /\ row'[w].status = "active" => row[w].status = "active"
          /\ row'[w].status = "released"
                => row[w].status = "released" \/ box'[w] = "gone"
          /\ w \in registered /\ box[w] = "gone" => box'[w] = "gone"

LEMMA QuietInv == RowsInv /\ Quiet => RowsInv'
<1> SUFFICES ASSUME RowsInv, Quiet PROVE RowsInv'
  OBVIOUS
<1>1. RowsTyped' /\ registered' = registered /\ registered \subseteq Workers
  BY DEF RowsInv, RowsTyped, Quiet
<1>2. ProvisionedIsNew'
  BY TargetsAssumption DEF RowsInv, ProvisionedIsNew, Quiet, Workers
<1>3. ReleasedIsGone'
  BY <1>1 DEF RowsInv, ReleasedIsGone, Quiet
<1>4. DeletedHasNoRows' /\ ListedStays'
  BY DEF RowsInv, DeletedHasNoRows, ListedStays, Quiet
<1> QED BY <1>1, <1>2, <1>3, <1>4 DEF RowsInv

(* What StartCleanup makes of the rows.                                    *)
Cleaned(rows, S) ==
    /\ row' \in RowTable /\ jobs' \subseteq Workers
    /\ \A w \in Workers :
          /\ row'[w].gen = rows[w].gen
          /\ \/ row'[w].status = rows[w].status
             \/ w \in S /\ rows[w].status \in Open /\ row'[w].status = "releasing"

LEMMA CleanupCleans ==
    ASSUME NEW rows \in RowTable, NEW S, S \subseteq Workers, jobs \subseteq Workers,
           StartCleanup(rows, S)
    PROVE  Cleaned(rows, S)
<1>1. Startable(rows, S) \subseteq Workers
  BY DEF Startable
<1>2. \A w \in Workers :
         row'[w] = IF w \in Startable(rows, S)
                   THEN [rows[w] EXCEPT !.status = "releasing"] ELSE rows[w]
  BY DEF StartCleanup
<1>3. ASSUME NEW w \in Workers
      PROVE  /\ row'[w] \in [status : WorkerStates, gen : Nat]
             /\ row'[w].gen = rows[w].gen
             /\ row'[w].status = IF w \in Startable(rows, S) THEN "releasing"
                                                             ELSE rows[w].status
  <2>1. rows[w] \in [status : WorkerStates, gen : Nat] /\ "releasing" \in WorkerStates
    BY DEF RowTable, WorkerStates
  <2> QED BY <1>2, <2>1
<1>4. row' \in RowTable
  BY <1>3 DEF StartCleanup, RowTable
<1> QED BY <1>1, <1>3, <1>4 DEF Cleaned, StartCleanup, Startable

LEMMA EndRunCleans ==
    ASSUME clock \in Nat, NEW l, GoodBy(l, clock), NEW rows \in RowTable,
           jobs \subseteq Workers, EndRun(l, rows)
    PROVE  Cleaned(rows, Workers) /\ lease'.state = "retired"
<1>1. StartCleanup(rows, Workers)
  BY DEF EndRun
<1> QED BY <1>1, CleanupCleans, EndRunLease

LEMMA FailRunCleans ==
    ASSUME clock \in Nat, NEW l, GoodBy(l, clock), NEW rows \in RowTable,
           NEW S, S \subseteq Workers, jobs \subseteq Workers, FailRun(l, rows, S)
    PROVE  \/ Cleaned(rows, S) /\ lease' = l
           \/ Cleaned(rows, Workers) /\ lease'.state = "retired"
<1>1. CASE EndRun(l, rows)
  BY <1>1, EndRunCleans
<1>2. CASE ~EndRun(l, rows)
  <2>1. StartCleanup(rows, S) /\ lease' = l
    BY <1>2 DEF FailRun
  <2> QED BY <2>1, CleanupCleans
<1> QED BY <1>1, <1>2

(* A step that only starts removals, or does not touch the rows at all.    *)
LEMMA CleanedInv ==
    ASSUME RowsInv, NEW S, Cleaned(row, S),
           box' \in [Workers -> {"none", "up", "gone"}],
           \A w \in Workers : box[w] = "gone" => box'[w] = "gone",
           registered' = registered, provisioning' \in {provisioning, NoTarget},
           reaper'.todo \subseteq reaper.todo,
           lease'.state = "deleted" => lease.state = "deleted"
    PROVE  RowsInv'
<1>1. Quiet
  BY DEF RowsInv, RowsTyped, Quiet, Cleaned, Open
<1> QED BY <1>1, QuietInv

LEMMA SameRows ==
    ASSUME RowsInv, UNCHANGED <<row, registered, jobs, box>>,
           provisioning' \in {provisioning, NoTarget},
           reaper'.todo \subseteq reaper.todo,
           lease'.state = "deleted" => lease.state = "deleted"
    PROVE  RowsInv' /\ OwnersStay
<1>1. Quiet
  BY DEF RowsInv, RowsTyped, Quiet
<1>2. OwnersStay
  BY DEF OwnersStay
<1> QED BY <1>1, <1>2, QuietInv

LEMMA NotDeleted ==
    ASSUME LeaseInv', run' # "done"
    PROVE  lease'.state # "deleted"
BY DEF LeaseInv, Fits

LEMMA DoneForgets ==
    ASSUME ReaperTyped, NEW w, NEW status, NEW wait
    PROVE  /\ Done(w, status).todo \subseteq reaper.todo
           /\ [Done(w, status) EXCEPT !.wait = wait].todo \subseteq reaper.todo
BY DEF ReaperTyped, Reapers, Done

LEMMA UntouchedRows ==
    ASSUME LeaseInv, LeaseInv', ReaperTyped, RowsInv,
           \/ Tick \/ AwaitCommand \/ Resume \/ ReapList
           \/ \E w \in Workers :
                 \/ Respond(w) \/ DispatchHot(w) \/ DispatchSendFails(w)
                 \/ Connect(w) \/ ReapSkip(w)
                 \/ \E s \in 1..MaxSockets : Close(w, s)
    PROVE  RowsInv' /\ OwnersStay
<1>1. CASE Tick \/ Resume \/ AwaitCommand \/ \E w \in Workers : Respond(w)
  <2>1. /\ UNCHANGED <<row, registered, jobs, box, provisioning, reaper>>
        /\ lease' = lease \/ run' # "done"
    BY <1>1 DEF Tick, Resume, AwaitCommand, Respond, adapterVars
  <2> QED BY <2>1, SameRows, NotDeleted
<1>2. CASE \E w \in Workers : DispatchHot(w) \/ DispatchSendFails(w)
  <2>1. /\ UNCHANGED <<row, registered, jobs, box, provisioning, reaper>>
        /\ run' # "done"
    BY <1>2 DEF DispatchHot, DispatchSendFails, Dispatchable, adapterVars, runVars
  <2> QED BY <2>1, SameRows, NotDeleted
<1>3. CASE \E w \in Workers : Connect(w) \/ \E s \in 1..MaxSockets : Close(w, s)
  <2>1. UNCHANGED <<row, registered, jobs, box, provisioning, reaper, lease>>
    BY <1>3 DEF Connect, Close, adapterVars
  <2> QED BY <2>1, SameRows
<1>4. CASE ReapList \/ \E w \in Workers : ReapSkip(w)
  <2>1. UNCHANGED <<row, registered, jobs, box, provisioning, lease>>
    BY <1>4 DEF ReapList, ReapSkip, adapterVars
  <2>2. reaper'.todo \subseteq reaper.todo
    <3>1. CASE ReapList
      BY <3>1 DEF ReapList, ReaperTyped, Reapers
    <3>2. ASSUME NEW w \in Workers, ReapSkip(w)
          PROVE  reaper'.todo \subseteq reaper.todo
      BY <3>2, DoneForgets DEF ReapSkip
    <3> QED BY <1>4, <3>1, <3>2
  <2> QED BY <2>1, <2>2, SameRows
<1> QED BY <1>1, <1>2, <1>3, <1>4

LEMMA ReapStartRows ==
    ASSUME LeaseInv, LeaseInv', RowsInv, ReapStart
    PROVE  RowsInv' /\ OwnersStay
<1>1. /\ UNCHANGED <<row, registered, jobs, box, provisioning>>
      /\ run = "done" => lease' = lease
      /\ run' = run
  BY DEF ReapStart, adapterVars, runVars
<1>2. reaper'.todo = {<<w, row[w].status>> :
                         w \in {v \in Workers : row[v].status \in Open}}
  BY DEF ReapStart, IdleReaper
<1>3. ListedStays'
  BY <1>1, <1>2 DEF ListedStays, Open
<1>4. lease'.state = "deleted" => lease.state = "deleted"
  BY <1>1, NotDeleted
<1> QED BY <1>1, <1>3, <1>4 DEF RowsInv, RowsTyped, ProvisionedIsNew, ReleasedIsGone,
           DeletedHasNoRows, OwnersStay

LEMMA StartProvisioningRows ==
    ASSUME LeaseInv, RowsInv, NEW w \in Workers, StartProvisioning(w)
    PROVE  RowsInv' /\ OwnersStay
<1>1. /\ UNCHANGED <<row, registered, jobs, box, reaper, lease>>
      /\ provisioning' = w /\ Unused(w)
  BY DEF StartProvisioning, runVars
<1>2. row[w].status = "absent" /\ w \notin registered
  BY <1>1 DEF Unused, RowsInv, ReleasedIsGone
<1> QED BY <1>1, <1>2 DEF RowsInv, RowsTyped, ProvisionedIsNew, ReleasedIsGone,
           DeletedHasNoRows, ListedStays, OwnersStay

LEMMA ContainerStartsRows ==
    ASSUME LeaseInv, RowsInv, NEW w \in Workers, ContainerStarts(w)
    PROVE  RowsInv' /\ OwnersStay
<1>1. /\ UNCHANGED <<row, registered, jobs, provisioning, reaper, lease>>
      /\ box[w] = "none" /\ box' = [box EXCEPT ![w] = "up"]
  BY DEF ContainerStarts, adapterVars
<1>2. /\ box' \in [Workers -> {"none", "up", "gone"}]
      /\ \A v \in Workers : box[v] = "gone" => box'[v] = "gone"
  BY <1>1 DEF RowsInv, RowsTyped
<1>3. Quiet /\ OwnersStay
  BY <1>1, <1>2 DEF RowsInv, RowsTyped, Quiet, OwnersStay
<1> QED BY <1>3, QuietInv

LEMMA FinishRows ==
    ASSUME LeaseInv, RowsInv, Finish
    PROVE  RowsInv' /\ OwnersStay
<1>1. /\ UNCHANGED <<registered, box, provisioning, reaper>>
      /\ EndRun(lease, row)
  BY DEF Finish, adapterVars
<1>2. Cleaned(row, Workers) /\ lease'.state = "retired"
  BY <1>1, EndRunCleans DEF LeaseInv, RowsInv, RowsTyped
<1>3. RowsInv'
  BY <1>1, <1>2, CleanedInv DEF RowsInv, RowsTyped
<1> QED BY <1>2, <1>3 DEF OwnersStay, Holds

(* ProvisioningFails and ProvisionedTooLate: the container goes or stays.  *)
LEMMA ContainerMayGo ==
    ASSUME RowsInv, NEW w \in Workers, box' \in {box, [box EXCEPT ![w] = "gone"]}
    PROVE  /\ box' \in [Workers -> {"none", "up", "gone"}]
           /\ \A v \in Workers : box[v] = "gone" => box'[v] = "gone"
BY DEF RowsInv, RowsTyped

LEMMA ProvisioningFailsRows ==
    ASSUME LeaseInv, RowsInv, NEW w \in Workers,
           ProvisioningFails(w) \/ ProvisionedTooLate(w)
    PROVE  RowsInv' /\ OwnersStay
<1>1. /\ registered' = registered /\ reaper' = reaper
      /\ box' \in {box, [box EXCEPT ![w] = "gone"]}
  BY DEF ProvisioningFails, ProvisionedTooLate
<1>2. /\ box' \in [Workers -> {"none", "up", "gone"}]
      /\ \A v \in Workers : box[v] = "gone" => box'[v] = "gone"
  BY <1>1, ContainerMayGo
<1>3. CASE provisioning' = NoTarget /\ FailRun(lease, row, {})
  <2>1. \/ Cleaned(row, {}) /\ lease' = lease
        \/ Cleaned(row, Workers) /\ lease'.state = "retired"
    BY <1>3, FailRunCleans DEF LeaseInv, RowsInv, RowsTyped
  <2>2. lease'.state = "deleted" => lease.state = "deleted"
    BY <2>1
  <2>3. RowsInv'
    BY <1>1, <1>2, <1>3, <2>1, <2>2, CleanedInv
  <2>4. OwnersStay
    BY <2>1 DEF OwnersStay, Cleaned, Holds
  <2> QED BY <2>3, <2>4
<1>4. CASE \E v \in Workers : /\ v # w /\ Unused(v) /\ provisioning' = v
                              /\ UNCHANGED <<lease, row, jobs>>
  <2>1. PICK v \in Workers : /\ v # w /\ Unused(v) /\ provisioning' = v
                             /\ UNCHANGED <<lease, row, jobs>>
    BY <1>4
  <2>2. row[v].status = "absent" /\ v \notin registered
    BY <2>1 DEF Unused, RowsInv, ReleasedIsGone
  <2>3. RowsTyped' /\ ProvisionedIsNew' /\ DeletedHasNoRows' /\ ListedStays'
    BY <1>1, <1>2, <2>1, <2>2 DEF RowsInv, RowsTyped, ProvisionedIsNew,
       DeletedHasNoRows, ListedStays
  <2>4. ReleasedIsGone'
    BY <1>1, <1>2, <2>1 DEF RowsInv, RowsTyped, ReleasedIsGone
  <2> QED BY <2>1, <2>3, <2>4 DEF RowsInv, OwnersStay
<1> QED BY <1>3, <1>4 DEF ProvisioningFails, ProvisionedTooLate

(* The Worker that was provisioned gets a row of its own, which may be     *)
(* cleaned up in the same step.                                            *)
LEMMA BoundRows ==
    ASSUME LeaseInv, RowsInv, NEW w \in Workers, CanBind(w)
    PROVE  /\ BoundRow(w) \in RowTable
           /\ BoundRow(w)[w].status = "active"
           /\ \A v \in Workers : v # w => BoundRow(w)[v] = row[v]
           /\ row[w].status = "absent"
           /\ \A status \in Open : <<w, status>> \notin reaper.todo
<1>1. Bound(w).gen \in Nat
  BY BoundLease
<1>2. row[w].status = "absent"
  BY DEF CanBind, RowsInv, ProvisionedIsNew
<1>3. \A status \in Open : <<w, status>> \notin reaper.todo
  BY <1>2 DEF RowsInv, ListedStays
<1> QED BY <1>1, <1>2, <1>3 DEF BoundRow, RowsInv, RowsTyped, RowTable, WorkerStates

LEMMA RegisteredRows ==
    ASSUME LeaseInv, RowsInv, NEW w \in Workers, CanBind(w),
           NEW S, Cleaned(BoundRow(w), S),
           registered' = registered \cup {w}, provisioning' = NoTarget,
           UNCHANGED <<box, reaper>>, lease'.state # "deleted"
    PROVE  RowsInv'
<1>1. /\ BoundRow(w)[w].status = "active"
      /\ \A v \in Workers : v # w => BoundRow(w)[v] = row[v]
      /\ \A status \in Open : <<w, status>> \notin reaper.todo
  BY BoundRows
<1>2. /\ row'[w].status \in {"active", "releasing"}
      /\ \A v \in Workers : v # w =>
            \/ row'[v].status = row[v].status
            \/ row[v].status \in Open /\ row'[v].status = "releasing"
  BY <1>1 DEF Cleaned
<1>3. RowsTyped' /\ ProvisionedIsNew' /\ DeletedHasNoRows'
  BY TargetsAssumption DEF RowsInv, RowsTyped, ProvisionedIsNew, DeletedHasNoRows,
     Cleaned, Workers
<1>4. ReleasedIsGone'
  BY <1>2 DEF RowsInv, RowsTyped, ReleasedIsGone, Open
<1>5. ListedStays'
  BY <1>1, <1>2 DEF RowsInv, ListedStays, Open
<1> QED BY <1>3, <1>4, <1>5 DEF RowsInv

LEMMA ProvisionedRows ==
    ASSUME LeaseInv, LeaseInv', RowsInv, NEW w \in Workers,
           \/ ProvisionedAndSent(w) \/ ProvisionedNotSent(w)
           \/ ProvisionedUnfit(w) \/ ProvisionedOverLimit(w)
    PROVE  RowsInv' /\ OwnersStay
<1> DEFINE given == Released(Bound(w), clock)
<1>1. /\ CanBind(w) /\ registered' = registered \cup {w}
      /\ provisioning' = NoTarget /\ UNCHANGED <<box, reaper>>
  BY DEF ProvisionedAndSent, ProvisionedNotSent, ProvisionedUnfit,
         ProvisionedOverLimit
<1>2. /\ BoundRow(w) \in RowTable /\ BoundRow(w)[w].status = "active"
      /\ \A v \in Workers : v # w => BoundRow(w)[v] = row[v]
      /\ row[w].status = "absent"
  BY <1>1, BoundRows
<1>3. clock \in Nat /\ jobs \subseteq Workers /\ {w} \subseteq Workers
  BY DEF LeaseInv, RowsInv, RowsTyped
<1>4. /\ GoodBy(Bound(w), clock) /\ Bound(w).state = "leased"
      /\ GoodBy(given, clock) /\ given.state = "dormant"
  BY <1>1, BoundLease, GivenBackLease
<1> HIDE DEF given
<1>5. \/ Cleaned(BoundRow(w), {}) /\ row' = BoundRow(w) /\ lease' = Bound(w)
      \/ Cleaned(BoundRow(w), {w}) /\ lease' = given
      \/ Cleaned(BoundRow(w), Workers) /\ lease'.state = "retired"
  <2>1. CASE ProvisionedAndSent(w)
    BY <1>2, <1>3, <2>1 DEF ProvisionedAndSent, Cleaned
  <2>2. CASE ProvisionedNotSent(w)
    BY <1>2, <1>3, <1>4, <2>2, FailRunCleans DEF ProvisionedNotSent, given
  <2>3. CASE ProvisionedUnfit(w)
    BY <1>2, <1>3, <2>3, CleanupCleans DEF ProvisionedUnfit, given
  <2>4. CASE ProvisionedOverLimit(w)
    BY <1>2, <1>3, <1>4, <2>4, EndRunCleans DEF ProvisionedOverLimit
  <2> QED BY <2>1, <2>2, <2>3, <2>4
<1>6. RowsInv'
  BY <1>1, <1>4, <1>5, RegisteredRows
<1>7. OwnersStay
  BY <1>2, <1>4, <1>5 DEF OwnersStay, Cleaned, Holds
<1> QED BY <1>6, <1>7

LEMMA CleanupRows ==
    ASSUME LeaseInv, RowsInv, NEW w \in Workers, CleanupDone(w) \/ CleanupFails(w)
    PROVE  RowsInv' /\ OwnersStay
<1> DEFINE next == row'[w].status
<1>1. /\ UNCHANGED <<registered, lease, provisioning, reaper>>
      /\ jobs' = jobs \ {w} /\ box' \in {box, [box EXCEPT ![w] = "gone"]}
  BY DEF CleanupDone, CleanupFails, adapterVars
<1>2. /\ box' \in [Workers -> {"none", "up", "gone"}]
      /\ \A v \in Workers : box[v] = "gone" => box'[v] = "gone"
  BY <1>1, ContainerMayGo
<1>3. \E status \in {"released", "failed"} :
         row' = [row EXCEPT ![w].status = IF @ = "releasing" THEN status ELSE @]
  BY DEF CleanupDone, CleanupFails
<1>4. /\ row' \in RowTable /\ \A v \in Workers : v # w => row'[v] = row[v]
      /\ \/ next = row[w].status
         \/ row[w].status = "releasing" /\ next \in {"released", "failed"}
  BY <1>3 DEF RowsInv, RowsTyped, RowTable, WorkerStates
<1>5. next = "released" => row[w].status = "released" \/ box'[w] = "gone"
  <2>1. CASE CleanupDone(w)
    BY <2>1 DEF CleanupDone, RowsInv, RowsTyped
  <2>2. CASE CleanupFails(w)
    <3>1. next = IF row[w].status = "releasing" THEN "failed" ELSE row[w].status
      BY <2>2 DEF CleanupFails, RowsInv, RowsTyped, RowTable
    <3> QED BY <3>1
  <2> QED BY <2>1, <2>2
<1>6. Quiet
  BY <1>1, <1>2, <1>4, <1>5 DEF RowsInv, RowsTyped, Quiet
<1>7. OwnersStay
  BY <1>4 DEF OwnersStay
<1> QED BY <1>6, <1>7, QuietInv

LEMMA FailedRows ==
    ASSUME RowsInv, NEW w \in Workers, row[w].status = "active"
    PROVE  /\ FailedRow(w) \in RowTable
           /\ FailedRow(w)[w].status = "failed"
           /\ \A v \in Workers : v # w => FailedRow(w)[v] = row[v]
BY DEF FailedRow, RowsInv, RowsTyped, RowTable, WorkerStates

(* A row that fails, and may be cleaned up in the same step.               *)
LEMMA FailedInv ==
    ASSUME RowsInv, NEW w \in Workers, row[w].status = "active",
           NEW S, Cleaned(FailedRow(w), S),
           \A v \in Workers : \/ box'[v] = box[v]
                              \/ v \in jobs /\ box'[v] = "gone"
                              \/ v = provisioning /\ box'[v] = "up",
           box' \in [Workers -> {"none", "up", "gone"}],
           registered' = registered, provisioning' \in {provisioning, NoTarget},
           reaper'.todo \subseteq reaper.todo,
           lease'.state = "deleted" => lease.state = "deleted"
    PROVE  RowsInv'
<1>1. /\ FailedRow(w)[w].status = "failed"
      /\ \A v \in Workers : v # w => FailedRow(w)[v] = row[v]
  BY FailedRows
<1>2. \A v \in registered : box[v] = "gone" => box'[v] = "gone"
  BY DEF RowsInv, RowsTyped, ProvisionedIsNew
<1>3. Quiet
  BY <1>1, <1>2 DEF RowsInv, RowsTyped, Quiet, Cleaned, Open
<1> QED BY <1>3, QuietInv

LEMMA ReapDisconnectedRows ==
    ASSUME LeaseInv, LeaseInv', ReaperTyped, RowsInv, NEW w \in Workers,
           ReapDisconnected(w) \/ ReapDisconnectedRefused(w)
    PROVE  RowsInv' /\ OwnersStay
<1> DEFINE given == Released(lease, reaper.now)
<1>1. /\ UNCHANGED <<registered, box, provisioning>>
      /\ row[w].status = "active" /\ reaper' = Done(w, "active")
  BY DEF ReapDisconnected, ReapDisconnectedRefused, adapterVars
<1>2. /\ reaper'.todo \subseteq reaper.todo
      /\ box' \in [Workers -> {"none", "up", "gone"}]
  BY <1>1, DoneForgets DEF RowsInv, RowsTyped
<1>3. /\ FailedRow(w) \in RowTable /\ FailedRow(w)[w].status = "failed"
      /\ \A v \in Workers : v # w => FailedRow(w)[v] = row[v]
  BY <1>1, FailedRows
<1>4. /\ clock \in Nat /\ jobs \subseteq Workers /\ {} \subseteq Workers
  BY DEF LeaseInv, RowsInv, RowsTyped
<1>5. \/ Cleaned(FailedRow(w), {}) /\ lease' \in {lease, given}
      \/ Cleaned(FailedRow(w), Workers) /\ lease'.state = "retired"
  <2>1. CASE row' = FailedRow(w) /\ jobs' = jobs /\ lease' \in {lease, given}
    BY <1>3, <1>4, <2>1 DEF Cleaned
  <2>2. CASE lease.state = "leased" /\ FailRun(given, FailedRow(w), {})
    <3>1. GoodBy(given, clock)
      BY <2>2, ReaperReleases
    <3> HIDE DEF given
    <3> QED BY <1>3, <1>4, <2>2, <3>1, FailRunCleans
  <2> QED BY <2>1, <2>2 DEF ReapDisconnected, ReapDisconnectedRefused,
             ReleaseAllowed, Holds
<1>6. lease' = given /\ lease' # lease => lease'.state = "dormant"
  <2>1. CASE lease.state = "leased"
    BY <2>1, ReaperReleases
  <2>2. CASE lease.state # "leased"
    BY <2>2 DEF ReapDisconnected, ReapDisconnectedRefused, ReleaseAllowed, Holds
  <2> QED BY <2>1, <2>2
<1> HIDE DEF given
<1>7. RowsInv'
  BY <1>1, <1>2, <1>5, <1>6, FailedInv
<1>8. OwnersStay
  BY <1>3, <1>5 DEF OwnersStay, Cleaned, Holds
<1> QED BY <1>7, <1>8

LEMMA ReapReclaimRows ==
    ASSUME LeaseInv, ReaperTyped, RowsInv, NEW w \in Workers, NEW status \in Open,
           ReapReclaim(w, status)
    PROVE  RowsInv' /\ OwnersStay
<1>1. /\ UNCHANGED <<registered, box, provisioning, lease>>
      /\ StartCleanup(row, {w}) /\ {w} \subseteq Workers
      /\ <<w, status>> \in reaper.todo /\ Reclaimable(w, status)
  BY DEF ReapReclaim, adapterVars
<1>2. reaper'.todo \subseteq reaper.todo
  BY DoneForgets DEF ReapReclaim
<1>3. Cleaned(row, {w})
  BY <1>1, CleanupCleans DEF RowsInv, RowsTyped
<1>4. RowsInv'
  BY <1>1, <1>2, <1>3, CleanedInv DEF RowsInv, RowsTyped
<1>5. row[w].status = "active" => ~Owned(w)
  BY <1>1 DEF Reclaimable, RowsInv, ListedStays
<1>6. OwnersStay
  BY <1>1, <1>3, <1>5 DEF OwnersStay, Cleaned, Owned
<1> QED BY <1>4, <1>6

LEMMA ReapExpiredRows ==
    ASSUME LeaseInv, ReaperTyped, RowsInv, ReapExpired
    PROVE  RowsInv' /\ OwnersStay
<1>1. /\ UNCHANGED <<registered, box, provisioning>>
      /\ reaper'.todo = reaper.todo
  BY DEF ReapExpired, ReaperTyped, Reapers, adapterVars
<1>2. CASE Releasable
  <2> DEFINE S == {w \in Workers : row[w].gen = reaper.listed.gen}
  <2>1. /\ lease.state = "leased" /\ lease' = Released(lease, reaper.now)
        /\ StartCleanup(row, S) /\ S \subseteq Workers
    BY <1>2 DEF ReapExpired, Releasable, ReleaseAllowed, Holds
  <2>2. lease'.state = "dormant"
    BY <2>1, ReaperReleases
  <2> HIDE DEF S
  <2>3. Cleaned(row, S)
    BY <2>1, CleanupCleans DEF RowsInv, RowsTyped
  <2>4. RowsInv'
    BY <1>1, <2>2, <2>3, CleanedInv DEF RowsInv, RowsTyped
  <2> QED BY <2>2, <2>4 DEF OwnersStay, Holds
<1>3. CASE ~Releasable
  <2>1. UNCHANGED <<lease, row, jobs>>
    BY <1>3 DEF ReapExpired
  <2> QED BY <1>1, <2>1, SameRows
<1> QED BY <1>2, <1>3

LEMMA ReapRuntimesRows ==
    ASSUME LeaseInv, RowsInv, ReapRuntimes
    PROVE  RowsInv' /\ OwnersStay
<1>1. UNCHANGED <<registered, box, provisioning, jobs>> /\ reaper'.todo = {}
  BY DEF ReapRuntimes, adapterVars, IdleReaper
<1>2. CASE UNCHANGED <<lease, row>>
  BY <1>1, <1>2, SameRows
<1>3. CASE ~UNCHANGED <<lease, row>>
  <2>1. /\ NothingPending
        /\ row' = [w \in Workers |-> [status |-> "absent", gen |-> 0]]
    BY <1>3 DEF ReapRuntimes
  <2>2. row' \in RowTable
    BY <2>1 DEF RowTable, WorkerStates
  <2>3. \A w \in Workers : /\ row[w].status \in {"absent", "released"}
                           /\ row'[w].status = "absent"
    BY <2>1 DEF NothingPending
  <2>4. RowsTyped' /\ ProvisionedIsNew' /\ DeletedHasNoRows' /\ ListedStays'
    BY <1>1, <2>2, <2>3 DEF RowsInv, RowsTyped, ProvisionedIsNew, DeletedHasNoRows,
       ListedStays
  <2>5. ReleasedIsGone' /\ OwnersStay
    BY <1>1, <2>3 DEF RowsInv, RowsTyped, ReleasedIsGone, OwnersStay
  <2> QED BY <2>4, <2>5 DEF RowsInv
<1> QED BY <1>2, <1>3

(* After a restart the containers of the removals and creations under way  *)
(* may have gone or come up.                                               *)
LEMMA RestartBoxes ==
    ASSUME RowsInv, NEW l, NEW rows, Restart(l, rows)
    PROVE  /\ box' \in [Workers -> {"none", "up", "gone"}]
           /\ \A w \in Workers : \/ box'[w] = box[w]
                                 \/ w \in jobs /\ box'[w] = "gone"
                                 \/ w = provisioning /\ box'[w] = "up"
<1>1. PICK done \in SUBSET Lost :
         box' = [w \in Workers |->
                   IF w \notin done THEN box[w]
                   ELSE IF w \in jobs THEN "gone" ELSE "up"]
  BY DEF Restart
<1> QED BY <1>1 DEF Lost, RowsInv, RowsTyped

LEMMA RestartCleans ==
    ASSUME LeaseInv, RowsInv, NEW l, GoodBy(l, clock), NEW rows \in RowTable,
           Restart(l, rows)
    PROVE  \/ Cleaned(rows, {}) /\ row' = rows /\ lease' = l
           \/ Cleaned(rows, Workers) /\ lease'.state = "retired"
<1>1. CASE row' = rows /\ jobs' = {} /\ lease' = l
  BY <1>1 DEF Cleaned
<1>2. CASE /\ lease' = Terminal(l)
           /\ jobs' = {w \in Workers : rows[w].status \in Open}
           /\ row' = [w \in Workers |-> IF w \in jobs'
                            THEN [rows[w] EXCEPT !.status = "releasing"]
                            ELSE rows[w]]
  <2>1. lease'.state = "retired"
    BY <1>2, TerminalNow DEF LeaseInv
  <2>2. ASSUME NEW w \in Workers
        PROVE  /\ row'[w] \in [status : WorkerStates, gen : Nat]
               /\ row'[w].gen = rows[w].gen
               /\ row'[w].status = IF rows[w].status \in Open THEN "releasing"
                                                              ELSE rows[w].status
    BY <1>2 DEF RowTable, WorkerStates
  <2>3. row' \in RowTable
    BY <1>2, <2>2 DEF RowTable
  <2> QED BY <1>2, <2>1, <2>2, <2>3 DEF Cleaned
<1> QED BY <1>1, <1>2 DEF Restart

LEMMA CrashRows ==
    ASSUME LeaseInv, ReaperTyped, RowsInv,
           \/ Crash
           \/ \E w \in Workers : CrashBeforeRegister(w) \/ CrashBeforeRelease(w)
    PROVE  RowsInv' /\ OwnersStay
<1>1. ASSUME NEW l, GoodBy(l, clock), Restart(l, row),
             l.state = "deleted" => lease.state = "deleted"
      PROVE  RowsInv' /\ OwnersStay
  <2>1. /\ registered' = registered /\ provisioning' = NoTarget
        /\ reaper'.todo \subseteq reaper.todo
    BY <1>1 DEF Restart, IdleReaper
  <2>2. \/ Cleaned(row, {}) /\ row' = row /\ lease' = l
        \/ Cleaned(row, Workers) /\ lease'.state = "retired"
    BY <1>1, RestartCleans DEF RowsInv, RowsTyped
  <2>3. \A w \in registered : box[w] = "gone" => box'[w] = "gone"
    BY <1>1, RestartBoxes DEF RowsInv, RowsTyped, ProvisionedIsNew
  <2>4. box' \in [Workers -> {"none", "up", "gone"}]
    BY <1>1, RestartBoxes
  <2>5. Quiet
    BY <1>1, <2>1, <2>2, <2>3, <2>4 DEF RowsInv, RowsTyped, Quiet, Cleaned, Open
  <2>6. OwnersStay
    BY <2>2 DEF OwnersStay, Holds
  <2> QED BY <2>5, <2>6, QuietInv
<1>2. CASE Crash
  BY <1>1, <1>2 DEF Crash, LeaseInv
<1>3. ASSUME NEW w \in Workers, CrashBeforeRegister(w) PROVE RowsInv' /\ OwnersStay
  <2>1. GoodBy(Bound(w), clock) /\ Bound(w).state = "leased"
    BY <1>3, BoundLease DEF CrashBeforeRegister
  <2> QED BY <1>1, <1>3, <2>1 DEF CrashBeforeRegister
<1>4. ASSUME NEW w \in Workers, CrashBeforeRelease(w) PROVE RowsInv' /\ OwnersStay
  <2>1. row[w].status = "active" /\ Restart(lease, FailedRow(w))
    BY <1>4 DEF CrashBeforeRelease
  <2>2. /\ registered' = registered /\ provisioning' = NoTarget
        /\ reaper'.todo \subseteq reaper.todo
    BY <2>1 DEF Restart, IdleReaper
  <2>3. /\ FailedRow(w) \in RowTable /\ FailedRow(w)[w].status = "failed"
        /\ \A v \in Workers : v # w => FailedRow(w)[v] = row[v]
    BY <2>1, FailedRows
  <2>4. \/ Cleaned(FailedRow(w), {}) /\ lease' = lease
        \/ Cleaned(FailedRow(w), Workers) /\ lease'.state = "retired"
    BY <2>1, <2>3, RestartCleans DEF LeaseInv
  <2>5. RowsInv'
    BY <2>1, <2>2, <2>4, RestartBoxes, FailedInv
  <2>6. OwnersStay
    BY <2>3, <2>4 DEF OwnersStay, Cleaned, Holds
  <2> QED BY <2>5, <2>6
<1> QED BY <1>2, <1>3, <1>4

LEMMA RowsStep ==
    ASSUME LeaseInv, LeaseInv', ReaperTyped, RowsInv, Next
    PROVE  RowsInv' /\ OwnersStay
<1>1. CASE \/ Tick \/ AwaitCommand \/ Resume \/ ReapList
           \/ \E w \in Workers :
                 \/ Respond(w) \/ DispatchHot(w) \/ DispatchSendFails(w)
                 \/ Connect(w) \/ ReapSkip(w)
                 \/ \E s \in 1..MaxSockets : Close(w, s)
  BY <1>1, UntouchedRows
<1>2. CASE ReapStart \/ ReapExpired \/ ReapRuntimes \/ Finish
  BY <1>2, ReapStartRows, ReapExpiredRows, ReapRuntimesRows, FinishRows
<1>3. CASE \/ Crash
           \/ \E w \in Workers : CrashBeforeRegister(w) \/ CrashBeforeRelease(w)
  BY <1>3, CrashRows
<1>4. CASE \E w \in Workers :
              \/ StartProvisioning(w) \/ ContainerStarts(w)
              \/ ProvisioningFails(w) \/ ProvisionedTooLate(w)
              \/ CleanupDone(w) \/ CleanupFails(w)
  BY <1>4, StartProvisioningRows, ContainerStartsRows, ProvisioningFailsRows,
     CleanupRows
<1>5. CASE \E w \in Workers :
              \/ ProvisionedAndSent(w) \/ ProvisionedNotSent(w)
              \/ ProvisionedUnfit(w) \/ ProvisionedOverLimit(w)
  BY <1>5, ProvisionedRows
<1>6. CASE \E w \in Workers :
              \/ ReapDisconnected(w) \/ ReapDisconnectedRefused(w)
              \/ \E status \in Open : ReapReclaim(w, status)
  BY <1>6, ReapDisconnectedRows, ReapReclaimRows
<1> QED BY <1>1, <1>2, <1>3, <1>4, <1>5, <1>6 DEF Next, Reap

----------------------------------------------------------------------------
(* The reaper and what it remembers of the lease.                          *)

(* The lease that was listed was expired, and until another version is     *)
(* written the lease in the table is that one.                             *)
ListedWasExpired ==
    reaper.listed # NoLease =>
        /\ reaper.listed.deadline <= reaper.now
        /\ reaper.listed.version <= lease.version
        /\ lease.state = "leased" /\ lease.version = reaper.listed.version
              => lease.deadline = reaper.listed.deadline

ReaperMoves ==
    /\ reaper' \in Reapers
    /\ reaper'.now <= clock
    /\ \/ reaper'.listed = NoLease
       \/ reaper'.listed = reaper.listed /\ reaper'.now = reaper.now
       \/ lease' = lease /\ reaper'.listed = lease /\ lease.deadline <= reaper'.now

LEMMA IdleReaperTyped == IdleReaper \in Reapers
BY DEF IdleReaper, Reapers, NoLease, LeaseRow, LeaseStates, NoTime

LEMMA DoneTyped ==
    ASSUME ReaperTyped, NEW w \in Workers, NEW status \in Open,
           NEW wait \in Workers \cup {NoTarget}
    PROVE  LET done == [Done(w, status) EXCEPT !.wait = wait]
           IN  /\ done \in Reapers /\ done.now = reaper.now
               /\ done.listed = reaper.listed
               /\ Done(w, status) \in Reapers /\ Done(w, status).now = reaper.now
               /\ Done(w, status).listed = reaper.listed
BY DEF ReaperTyped, Reapers, Done

LEMMA ReapingMoves ==
    ASSUME LeaseInv, ReaperTyped, RowsInv, Reap
    PROVE  ReaperMoves
<1>1. clock \in Nat /\ reaper \in Reapers /\ reaper.now <= clock
  BY DEF LeaseInv, ReaperTyped
<1>2. CASE ReapStart
  <2>1. IdleReaper \in Reapers /\ IdleReaper.listed = NoLease
    BY IdleReaperTyped DEF IdleReaper
  <2> DEFINE todo == {<<w, row[w].status>> :
                         w \in {v \in Workers : row[v].status \in Open}}
  <2>2. /\ todo \subseteq Workers \X Open
        /\ reaper' = [IdleReaper EXCEPT !.pc = "workers", !.now = clock,
                                        !.todo = todo]
    BY <1>2 DEF ReapStart
  <2> HIDE DEF todo
  <2>3. reaper' \in Reapers
    BY <1>1, <2>1, <2>2 DEF Reapers
  <2>4. reaper'.now = clock /\ reaper'.listed = NoLease
    BY <2>1, <2>2 DEF Reapers
  <2> QED BY <1>1, <2>3, <2>4 DEF ReaperMoves
<1>3. CASE ReapList
  <2>1. /\ reaper'.now = reaper.now /\ lease' = lease
        /\ reaper' \in Reapers
        /\ \/ reaper'.listed = lease /\ lease.deadline <= reaper'.now
           \/ reaper'.listed = NoLease
    <3>1. /\ lease \in LeaseRow /\ NoLease \in LeaseRow
          /\ lease.state = "leased" => lease.deadline \in Nat
          /\ lease.state = "leased" => lease.deadline # NoTime
      BY DEF LeaseInv, GoodBy, GoodRow, Checks, LeaseRow, LeaseStates, NoLease,
             NoTime
    <3> DEFINE listed == IF lease.state = "leased" /\ Expired(lease, reaper.now)
                         THEN lease ELSE NoLease
    <3>2. /\ reaper' = [reaper EXCEPT !.pc = "expired", !.wait = NoTarget,
                                      !.listed = listed]
          /\ lease' = lease
      BY <1>3 DEF ReapList
    <3>3. /\ listed \in LeaseRow
          /\ \/ listed = NoLease
             \/ listed = lease /\ lease.deadline <= reaper.now
      <4>1. reaper.now \in Nat
        BY <1>1 DEF Reapers
      <4> QED BY <3>1, <4>1 DEF Expired
    <3> HIDE DEF listed
    <3> QED BY <1>1, <3>2, <3>3 DEF Reapers
  <2> QED BY <1>1, <2>1 DEF ReaperMoves
<1>4. CASE ReapExpired
  <2>1. \E wait \in Workers \cup {NoTarget} :
           reaper' = [reaper EXCEPT !.pc = "runtimes", !.wait = wait,
                                    !.listed = NoLease]
    BY <1>4 DEF ReapExpired, Startable
  <2>2. NoLease \in LeaseRow
    BY DEF NoLease, LeaseRow, LeaseStates, NoTime
  <2> QED BY <1>1, <2>1, <2>2 DEF Reapers, ReaperMoves
<1>5. CASE ReapRuntimes
  <2>1. reaper' = IdleReaper
    BY <1>5 DEF ReapRuntimes
  <2> QED BY <1>1, <2>1, IdleReaperTyped DEF IdleReaper, ReaperMoves
<1>6. ASSUME NEW w \in Workers,
             ReapDisconnected(w) \/ ReapDisconnectedRefused(w) \/ ReapSkip(w)
      PROVE  ReaperMoves
  <2>1. reaper' = Done(w, "active") /\ "active" \in Open
    BY <1>6 DEF ReapDisconnected, ReapDisconnectedRefused, ReapSkip, Open
  <2> QED BY <1>1, <2>1, DoneTyped DEF ReaperMoves
<1>7. ASSUME NEW w \in Workers, NEW status \in Open, ReapReclaim(w, status)
      PROVE  ReaperMoves
  <2>1. \E wait \in Workers \cup {NoTarget} :
           reaper' = [Done(w, status) EXCEPT !.wait = wait]
    BY <1>7 DEF ReapReclaim
  <2> QED BY <1>1, <2>1, DoneTyped DEF ReaperMoves
<1> QED BY <1>2, <1>3, <1>4, <1>5, <1>6, <1>7 DEF Reap

LEMMA ReaperStep ==
    ASSUME LeaseInv, ReaperTyped, RowsInv, Next
    PROVE  ReaperMoves
<1>1. CASE Reap
  BY <1>1, ReapingMoves
<1>2. CASE reaper' = reaper
  BY <1>2 DEF ReaperTyped, ReaperMoves
<1>3. CASE reaper' = IdleReaper
  <2>1. clock \in Nat
    BY DEF LeaseInv
  <2> QED BY <1>3, <2>1, IdleReaperTyped DEF IdleReaper, ReaperMoves
<1> QED BY <1>1, <1>2, <1>3 DEF Next, Tick, AwaitCommand, Resume, Finish, Crash,
           Restart, Respond, DispatchHot, DispatchSendFails, StartProvisioning,
           ContainerStarts, ProvisioningFails, ProvisionedTooLate,
           ProvisionedAndSent, ProvisionedNotSent, ProvisionedUnfit,
           ProvisionedOverLimit, Connect, Close, CleanupDone, CleanupFails,
           CrashBeforeRegister, CrashBeforeRelease

LEMMA ListedInv ==
    ASSUME LeaseInv, LeaseInv', ReaperTyped, ListedWasExpired,
           LeaseMoves, ReaperMoves
    PROVE  ListedWasExpired'
<1>1. /\ lease \in LeaseRow /\ lease' \in LeaseRow
      /\ reaper.listed \in LeaseRow /\ reaper'.listed \in LeaseRow
  BY DEF LeaseInv, GoodBy, GoodRow, ReaperTyped, Reapers, ReaperMoves
<1>2. /\ lease.version \in Nat /\ lease'.version \in Nat
      /\ reaper.listed.version \in Nat
  BY <1>1 DEF LeaseRow
<1>3. CASE reaper'.listed = NoLease
  BY <1>3 DEF ListedWasExpired
<1>4. CASE lease' = lease /\ reaper'.listed = lease /\ lease.deadline <= reaper'.now
  BY <1>2, <1>4 DEF ListedWasExpired
<1>5. CASE /\ reaper'.listed # NoLease
           /\ reaper'.listed = reaper.listed /\ reaper'.now = reaper.now
  <2>1. CASE lease' = lease
    BY <1>5, <2>1 DEF ListedWasExpired
  <2>2. CASE lease'.version > lease.version
    BY <1>2, <1>5, <2>2 DEF ListedWasExpired
  <2>3. CASE lease' = Deleted(lease)
    <3>1. lease'.state = "deleted" /\ lease'.version = lease.version
      BY <1>1, <2>3 DEF Deleted, LeaseRow
    <3> QED BY <1>5, <3>1 DEF ListedWasExpired
  <2> QED BY <2>1, <2>2, <2>3 DEF LeaseMoves, Overwrites
<1> QED BY <1>3, <1>4, <1>5 DEF ReaperMoves

----------------------------------------------------------------------------
(* The other variables only have types.                                    *)

OthersTyped ==
    /\ clock \in 0..MaxClock /\ round \in 1..MaxRounds /\ crashes \in 0..MaxCrashes
    /\ sockets \in [Workers -> SUBSET (1..MaxSockets)]
    /\ made \in [Workers -> 0..MaxSockets]
    /\ registry \in [Workers -> 0..MaxSockets]
    /\ tracker \in {"none", "provisioning"} \cup Workers
    /\ failures \in [Workers -> 0..MaxCleanupFailures]

LEMMA CountsTyped ==
    ASSUME OthersTyped, Next
    PROVE  /\ clock' \in 0..MaxClock /\ round' \in 1..MaxRounds
           /\ crashes' \in 0..MaxCrashes
           /\ failures' \in [Workers -> 0..MaxCleanupFailures]
           /\ clock' >= clock
<1>1. /\ clock \in 0..MaxClock /\ round \in 1..MaxRounds
      /\ crashes \in 0..MaxCrashes
      /\ failures \in [Workers -> 0..MaxCleanupFailures]
      /\ MaxClock \in Nat /\ MaxRounds \in Nat /\ MaxCrashes \in Nat
      /\ MaxCleanupFailures \in Nat
  BY BoundsAssumption DEF OthersTyped
<1>2. CASE Tick
  BY <1>1, <1>2 DEF Tick, runVars
<1>3. CASE Resume
  BY <1>1, <1>3 DEF Resume
<1>4. ASSUME NEW w \in Workers, CleanupFails(w)
      PROVE  /\ UNCHANGED <<clock, round, crashes>>
             /\ failures' \in [Workers -> 0..MaxCleanupFailures]
  BY <1>1, <1>4 DEF CleanupFails, runVars
<1>5. ASSUME NEW l, NEW rows, Restart(l, rows)
      PROVE  UNCHANGED <<clock, round, failures>> /\ crashes' \in 0..MaxCrashes
  BY <1>1, <1>5 DEF Restart
<1>6. CASE UNCHANGED <<clock, round, crashes, failures>>
  BY <1>1, <1>6
<1>7. ASSUME NEW l, NEW rows, NEW S, FailRun(l, rows, S) PROVE UNCHANGED round
  BY <1>7 DEF FailRun, EndRun, runVars
<1>8. CASE Reap
  BY <1>6, <1>7, <1>8 DEF Reap, ReapStart, ReapList, ReapExpired, ReapRuntimes,
     ReapDisconnected, ReapDisconnectedRefused, ReapSkip, ReapReclaim, runVars
<1>9. ASSUME NEW w \in Workers,
             \/ Respond(w)
             \/ DispatchHot(w) \/ DispatchSendFails(w) \/ StartProvisioning(w)
             \/ ContainerStarts(w) \/ ProvisioningFails(w) \/ ProvisionedTooLate(w)
      PROVE  UNCHANGED <<clock, round, crashes, failures>>
  BY <1>7, <1>9 DEF Respond, DispatchHot, DispatchSendFails, StartProvisioning,
     ContainerStarts, ProvisioningFails, ProvisionedTooLate, runVars
<1>10. ASSUME NEW w \in Workers,
             \/ ProvisionedAndSent(w) \/ ProvisionedNotSent(w)
             \/ ProvisionedUnfit(w) \/ ProvisionedOverLimit(w)
             \/ Connect(w) \/ \E s \in 1..MaxSockets : Close(w, s)
             \/ CleanupDone(w)
      PROVE  UNCHANGED <<clock, round, crashes, failures>>
  BY <1>7, <1>10 DEF ProvisionedAndSent, ProvisionedNotSent, ProvisionedUnfit,
     ProvisionedOverLimit, EndRun, Connect, Close, CleanupDone, runVars
<1>11. CASE AwaitCommand \/ Finish
  BY <1>6, <1>11 DEF AwaitCommand, Finish, EndRun
<1>12. CASE \/ Crash
            \/ \E w \in Workers : CrashBeforeRegister(w) \/ CrashBeforeRelease(w)
  <2>1. UNCHANGED <<clock, round, failures>> /\ crashes' \in 0..MaxCrashes
    BY <1>5, <1>12 DEF Crash, CrashBeforeRegister, CrashBeforeRelease
  <2> QED BY <1>1, <2>1
<1> QED BY <1>1, <1>2, <1>3, <1>4, <1>6, <1>8, <1>9, <1>10, <1>11, <1>12 DEF Next

LEMMA ConnectionsTyped ==
    ASSUME OthersTyped, Next
    PROVE  /\ sockets' \in [Workers -> SUBSET (1..MaxSockets)]
           /\ made' \in [Workers -> 0..MaxSockets]
           /\ registry' \in [Workers -> 0..MaxSockets]
<1>1. /\ sockets \in [Workers -> SUBSET (1..MaxSockets)]
      /\ made \in [Workers -> 0..MaxSockets]
      /\ registry \in [Workers -> 0..MaxSockets]
      /\ MaxSockets \in Nat
  BY BoundsAssumption DEF OthersTyped
<1>2. ASSUME NEW w \in Workers, Connect(w)
      PROVE  /\ sockets' \in [Workers -> SUBSET (1..MaxSockets)]
             /\ made' \in [Workers -> 0..MaxSockets]
             /\ registry' \in [Workers -> 0..MaxSockets]
  <2>1. made[w] + 1 \in 1..MaxSockets /\ made[w] + 1 \in 0..MaxSockets
    BY <1>1, <1>2 DEF Connect
  <2>2. sockets[w] \cup {made[w] + 1} \in SUBSET (1..MaxSockets)
    BY <1>1, <2>1
  <2> QED BY <1>1, <1>2, <2>1, <2>2 DEF Connect
<1>3. ASSUME NEW w \in Workers, NEW s \in 1..MaxSockets, Close(w, s)
      PROVE  /\ sockets' \in [Workers -> SUBSET (1..MaxSockets)]
             /\ made' \in [Workers -> 0..MaxSockets]
             /\ registry' \in [Workers -> 0..MaxSockets]
  BY <1>1, <1>3 DEF Close, Unregister
<1>4. ASSUME NEW l, NEW rows, Restart(l, rows)
      PROVE  /\ sockets' \in [Workers -> SUBSET (1..MaxSockets)]
             /\ made' \in [Workers -> 0..MaxSockets]
             /\ registry' \in [Workers -> 0..MaxSockets]
  BY <1>1, <1>4 DEF Restart
<1>5. CASE Reap
  BY <1>1, <1>5 DEF Reap, ReapStart, ReapList, ReapExpired, ReapRuntimes,
     ReapDisconnected, ReapDisconnectedRefused, ReapSkip, ReapReclaim, socketVars
<1>6. ASSUME NEW w \in Workers,
             \/ Respond(w)
             \/ DispatchHot(w) \/ DispatchSendFails(w) \/ StartProvisioning(w)
             \/ ContainerStarts(w) \/ ProvisioningFails(w) \/ ProvisionedTooLate(w)
             \/ ProvisionedAndSent(w) \/ ProvisionedNotSent(w)
             \/ ProvisionedUnfit(w) \/ ProvisionedOverLimit(w)
             \/ CleanupDone(w) \/ CleanupFails(w)
      PROVE  UNCHANGED <<sockets, made, registry>>
  BY <1>6 DEF Respond, DispatchHot, DispatchSendFails, StartProvisioning,
     ContainerStarts, ProvisioningFails, ProvisionedTooLate, ProvisionedAndSent,
     ProvisionedNotSent, ProvisionedUnfit, ProvisionedOverLimit, CleanupDone,
     CleanupFails, socketVars
<1>7. CASE Tick \/ AwaitCommand \/ Resume \/ Finish
  BY <1>1, <1>7 DEF Tick, AwaitCommand, Resume, Finish, socketVars
<1>8. CASE \/ Crash
           \/ \E w \in Workers : CrashBeforeRegister(w) \/ CrashBeforeRelease(w)
  BY <1>4, <1>8 DEF Crash, CrashBeforeRegister, CrashBeforeRelease
<1> QED BY <1>1, <1>2, <1>3, <1>5, <1>6, <1>7, <1>8 DEF Next

LEMMA TrackerTyped ==
    ASSUME OthersTyped, Next
    PROVE  tracker' \in {"none", "provisioning"} \cup Workers
<1>1. tracker \in {"none", "provisioning"} \cup Workers
  BY DEF OthersTyped
<1>2. ASSUME NEW w \in Workers,
             \/ Respond(w)
             \/ DispatchHot(w) \/ DispatchSendFails(w) \/ StartProvisioning(w)
             \/ ContainerStarts(w) \/ ProvisioningFails(w) \/ ProvisionedTooLate(w)
             \/ ProvisionedAndSent(w) \/ ProvisionedNotSent(w)
             \/ ProvisionedUnfit(w) \/ ProvisionedOverLimit(w)
             \/ Connect(w) \/ \E s \in 1..MaxSockets : Close(w, s)
             \/ CleanupDone(w) \/ CleanupFails(w)
      PROVE  tracker' \in {"none", "provisioning", tracker, w}
  BY <1>2 DEF Respond, DispatchHot, DispatchSendFails, StartProvisioning,
     ContainerStarts, ProvisioningFails, ProvisionedTooLate, ProvisionedAndSent,
     ProvisionedNotSent, ProvisionedUnfit, ProvisionedOverLimit, Connect, Close,
     CleanupDone, CleanupFails, adapterVars
<1>3. CASE Reap \/ Tick \/ AwaitCommand \/ Resume \/ Finish
  BY <1>1, <1>3 DEF Reap, ReapStart, ReapList, ReapExpired, ReapRuntimes,
     ReapDisconnected, ReapDisconnectedRefused, ReapSkip, ReapReclaim, Tick,
     AwaitCommand, Resume, Finish, adapterVars
<1>4. CASE \/ Crash
           \/ \E w \in Workers : CrashBeforeRegister(w) \/ CrashBeforeRelease(w)
  BY <1>4 DEF Crash, CrashBeforeRegister, CrashBeforeRelease, Restart
<1> QED BY <1>1, <1>2, <1>3, <1>4 DEF Next

----------------------------------------------------------------------------
IInv == LeaseInv /\ ReaperTyped /\ RowsInv /\ ListedWasExpired /\ OthersTyped

LEMMA InitInv == Init => IInv
<1> SUFFICES ASSUME Init PROVE IInv
  OBVIOUS
<1>1. NoLease \in LeaseRow /\ NoLease.state = "none" /\ NoLease.updated = 0
      /\ NoLease.gen = 0 /\ NoLease.version = 0
  BY DEF NoLease, LeaseRow, LeaseStates, NoTime
<1>2. LeaseInv
  BY <1>1 DEF Init, LeaseInv, Runs, Nodes, GoodBy, GoodRow, Checks, Persisted, Fits,
     RunningIsLeased
<1>3. ReaperTyped /\ reaper.todo = {} /\ reaper.listed = NoLease
  BY IdleReaperTyped DEF Init, ReaperTyped, IdleReaper
<1>4. RowsInv
  BY <1>1, <1>3, TargetsAssumption DEF Init, RowsInv, RowsTyped, RowTable,
     WorkerStates, ProvisionedIsNew, ReleasedIsGone, DeletedHasNoRows, ListedStays,
     Workers
<1>5. ListedWasExpired
  BY <1>3 DEF ListedWasExpired
<1>6. OthersTyped
  BY BoundsAssumption DEF Init, OthersTyped
<1> QED BY <1>2, <1>3, <1>4, <1>5, <1>6 DEF IInv

LEMMA StepInv ==
    ASSUME IInv, Next
    PROVE  IInv' /\ LeaseMoves /\ OwnersStay
<1>1. LeaseInv /\ ReaperTyped /\ RowsInv /\ ListedWasExpired /\ OthersTyped
  BY DEF IInv
<1>2. LeaseInv' /\ LeaseMoves
  BY <1>1, LeaseStep
<1>3. RowsInv' /\ OwnersStay
  BY <1>1, <1>2, RowsStep
<1>4. ReaperMoves
  BY <1>1, ReaperStep
<1>5. ListedWasExpired'
  BY <1>1, <1>2, <1>4, ListedInv
<1>6. OthersTyped'
  BY <1>1, CountsTyped, ConnectionsTyped, TrackerTyped DEF OthersTyped
<1>7. ReaperTyped'
  <2>1. clock \in Nat /\ clock' \in Nat /\ clock' >= clock
    BY <1>1, <1>2, CountsTyped DEF LeaseInv
  <2>2. reaper' \in Reapers /\ reaper'.now \in Nat /\ reaper'.now <= clock
    BY <1>4 DEF ReaperMoves, Reapers
  <2> QED BY <2>1, <2>2 DEF ReaperTyped
<1> QED BY <1>2, <1>3, <1>5, <1>6, <1>7 DEF IInv

(* In every reachable state the parts of the invariant hold.               *)
THEOREM Invariant == Spec => []IInv
<1>1. IInv /\ [Next]_vars => IInv'
  <2>1. IInv /\ UNCHANGED vars => IInv'
    BY DEF vars, runVars, socketVars, adapterVars, IInv, LeaseInv, GoodBy, Fits,
       RunningIsLeased, ReaperTyped, RowsInv, RowsTyped, ProvisionedIsNew,
       ReleasedIsGone, DeletedHasNoRows, ListedStays, ListedWasExpired, OthersTyped
  <2> QED BY <2>1, StepInv
<1> QED BY <1>1, InitInv, PTL DEF Spec

(* Type correctness, and the lease row satisfies the table's constraints.  *)
THEOREM TypeCorrect == Spec => []TypeOK
<1>1. IInv => TypeOK
  BY DEF IInv, LeaseInv, GoodBy, GoodRow, ReaperTyped, Reapers, RowsInv, RowsTyped,
     RowTable, OthersTyped, Runs, Nodes, TypeOK
<1> QED BY <1>1, Invariant, PTL

(* A node that is running in an active run is covered by a lease: an       *)
(* answer of its Worker can pass the fence.                                *)
THEOREM RunningStaysLeased == Spec => []RunningIsLeased
<1>1. IInv => RunningIsLeased
  BY DEF IInv, LeaseInv
<1> QED BY <1>1, Invariant, PTL

(* No lease outlives its run.                                              *)
THEOREM EndedRunReleases == Spec => []EndedRunHoldsNothing
<1>1. IInv => EndedRunHoldsNothing
  BY DEF IInv, LeaseInv, Fits, EndedRunHoldsNothing
<1> QED BY <1>1, Invariant, PTL

(* When the record of an actor is deleted, every container that was ever   *)
(* registered for it is gone.                                              *)
THEOREM NothingStranded == Spec => []DeletedStrandsNothing
<1>1. IInv => DeletedStrandsNothing
  BY DEF IInv, RowsInv, RowsTyped, ReleasedIsGone, DeletedHasNoRows,
     DeletedStrandsNothing
<1> QED BY <1>1, Invariant, PTL

(* The removal of a Worker in good standing never begins while it holds    *)
(* the lease.                                                              *)
THEOREM OwnersAreNotRemoved == Spec => NoActiveOwnerRemoved
<1>1. IInv /\ [Next]_vars => [OwnersStay]_vars
  BY StepInv
<1> QED BY <1>1, Invariant, PTL DEF Spec, NoActiveOwnerRemoved, OwnersStay

(* The expiry step of a reap releases no lease that was renewed after the  *)
(* reap began.                                                             *)
THEOREM RenewalSurvives == Spec => RenewedLeaseSurvivesReap
<1> DEFINE Kept == ReapExpired /\ lease.state = "leased"
                        /\ lease.deadline > reaper.now => lease' = lease
<1>1. IInv => Kept
  <2> SUFFICES ASSUME IInv, ReapExpired, lease.state = "leased",
                      lease.deadline > reaper.now
               PROVE  lease' = lease
    OBVIOUS
  <2>1. lease.deadline \in Nat /\ reaper.now \in Nat
    BY DEF IInv, LeaseInv, GoodBy, GoodRow, Checks, LeaseRow, ReaperTyped, Reapers
  <2>2. ~Releasable
    BY <2>1 DEF IInv, ListedWasExpired, Releasable
  <2> QED BY <2>2 DEF ReapExpired
<1> QED BY <1>1, Invariant, PTL DEF Spec, RenewedLeaseSurvivesReap
=============================================================================
