-------------------------- MODULE ActorLeaseProofs --------------------------
(***************************************************************************)
(* Proofs about ActorLease, for every set of targets and containers, every *)
(* time-to-live and every bound: the rows of LeaseRowsProofs are carried   *)
(* through the steps of Next.                                              *)
(***************************************************************************)
EXTENDS ActorLease, LeaseRowsProofs

(* The inductive invariant.  Beyond the checked invariants it says that    *)
(* every granted generation is between 1 and the row's, that the present   *)
(* holder's token is among the granted ones, and that a row which was      *)
(* never created granted nothing.                                          *)
IInv ==
    /\ TypeOK
    /\ RowChecks
    /\ lease.state = "none" => lease.gen = 0
    /\ \A token \in granted : token[1] >= 1 /\ token[1] <= lease.gen
    /\ lease.state = "leased" => <<lease.gen, lease.target>> \in granted
    /\ OneTargetPerGeneration
    /\ RegisteredWasGranted
    /\ IndexNeverTrips

(* A step that writes only the lease row, keeps its generation, and leaves *)
(* it either with its holder or without one.                               *)
SameEpoch ==
    /\ GoodRow(lease')
    /\ lease'.gen = lease.gen
    /\ lease'.state # "none"
    /\ lease'.state = "leased" =>
           lease.state = "leased" /\ lease'.target = lease.target
    /\ lease.state \in {"retired", "deleted"} => lease'.state = lease.state
    /\ UNCHANGED <<workers, granted>>

LEMMA SameEpochInv == IInv /\ SameEpoch => IInv'
<1> SUFFICES ASSUME IInv, SameEpoch PROVE IInv'
  OBVIOUS
<1>1. TypeOK' /\ RowChecks'
  BY DEF IInv, SameEpoch, TypeOK, RowChecks, GoodRow
<1>2. /\ lease'.state = "none" => lease'.gen = 0
      /\ \A token \in granted' : token[1] >= 1 /\ token[1] <= lease'.gen
      /\ lease'.state = "leased" => <<lease'.gen, lease'.target>> \in granted'
  BY DEF IInv, SameEpoch
<1>3. OneTargetPerGeneration' /\ IndexNeverTrips'
  BY DEF IInv, SameEpoch, OneTargetPerGeneration, IndexNeverTrips
<1>4. RegisteredWasGranted'
  BY DEF IInv, SameEpoch, RegisteredWasGranted
<1> QED BY <1>1, <1>2, <1>3, <1>4 DEF IInv

LEMMA AcquireWrites ==
    ASSUME IInv, NEW target \in Targets, NEW now \in Times, Acquire(target, now)
    PROVE  /\ GoodRow(lease')
           /\ lease'.state = "leased" /\ lease'.target = target
           /\ lease'.gen = IF lease.state = "leased" /\ lease.target = target
                           THEN lease.gen ELSE lease.gen + 1
<1>1. now \in Nat /\ GoodRow(lease) /\ (lease.state = "none" => lease.gen = 0)
  BY MaxNowAssumption DEF Times, IInv, TypeOK, RowChecks, GoodRow
<1>2. lease.state # "none" => now >= lease.updated
  BY DEF Acquire, AcquireAllowed, Ensured, Mutable
<1>3. lease' = Acquired(lease, target, now)
  BY DEF Acquire
<1> QED BY <1>1, <1>2, <1>3, AcquiredRow

LEMMA AcquireInv ==
    ASSUME IInv, NEW target \in Targets, NEW now \in Times, Acquire(target, now)
    PROVE  IInv'
<1> DEFINE same == lease.state = "leased" /\ lease.target = target
<1>1. /\ GoodRow(lease')
      /\ lease'.state = "leased" /\ lease'.target = target
      /\ lease'.gen = IF same THEN lease.gen ELSE lease.gen + 1
  BY AcquireWrites
<1>2. /\ granted' = granted \cup {<<lease'.gen, target>>}
      /\ workers' = workers
  BY DEF Acquire
<1>3. /\ lease.gen \in Nat /\ lease'.gen \in Nat /\ lease'.gen >= lease.gen
      /\ lease'.gen >= 1
      /\ granted \subseteq Nat \X Targets
  BY <1>1 DEF IInv, TypeOK, GoodRow, LeaseRow, Checks
<1>4. same => granted' = granted
  BY <1>1, <1>2 DEF IInv
<1>5. ~same => \A token \in granted : token[1] < lease'.gen
  BY <1>1, <1>3 DEF IInv
<1>6. TypeOK'
  <2>1. <<lease'.gen, target>> \in Nat \X Targets
    BY <1>3
  <2> QED BY <1>1, <1>2, <1>3, <2>1 DEF IInv, TypeOK, GoodRow
<1>7. \A token \in granted' : token[1] >= 1 /\ token[1] <= lease'.gen
  <2> TAKE token \in granted'
  <2>1. CASE token \in granted
    BY <1>3, <2>1 DEF IInv
  <2>2. CASE token = <<lease'.gen, target>>
    BY <1>3, <2>2
  <2> QED BY <1>2, <2>1, <2>2
<1>8. OneTargetPerGeneration'
  <2>1. CASE same
    BY <1>4, <2>1 DEF IInv, OneTargetPerGeneration
  <2>2. CASE ~same
    <3>1. \A s, t \in granted' : s[1] = t[1] => s = t
      <4> TAKE s, t \in granted'
      <4>1. CASE s \in granted /\ t \in granted
        BY <4>1 DEF IInv, OneTargetPerGeneration
      <4>2. CASE s = <<lease'.gen, target>> /\ t \in granted
        BY <1>3, <1>5, <2>2, <4>2
      <4>3. CASE s \in granted /\ t = <<lease'.gen, target>>
        BY <1>3, <1>5, <2>2, <4>3
      <4>4. CASE s = <<lease'.gen, target>> /\ t = <<lease'.gen, target>>
        BY <4>4
      <4> QED BY <1>2, <4>1, <4>2, <4>3, <4>4
    <3> QED BY <3>1 DEF OneTargetPerGeneration
  <2> QED BY <2>1, <2>2
<1>9. RegisteredWasGranted'
  <2> SUFFICES ASSUME NEW c \in Containers, workers[c].status # "absent"
               PROVE  /\ <<workers[c].gen, workers[c].worker>> \in granted'
                      /\ workers[c].gen <= lease'.gen
    BY <1>2 DEF RegisteredWasGranted
  <2>1. /\ <<workers[c].gen, workers[c].worker>> \in granted
        /\ workers[c].gen <= lease.gen
    BY DEF IInv, RegisteredWasGranted
  <2>2. workers[c].gen \in Nat
    BY DEF IInv, TypeOK, WorkerRow
  <2> QED BY <1>2, <1>3, <2>1, <2>2
<1>10. IndexNeverTrips'
  BY <1>2 DEF IInv, IndexNeverTrips
<1> QED
  BY <1>1, <1>2, <1>6, <1>7, <1>8, <1>9, <1>10 DEF IInv, RowChecks, GoodRow

LEMMA InitInv == Init => IInv
<1> SUFFICES ASSUME Init PROVE IInv
  OBVIOUS
<1>1. TypeOK
  <2>1. NoLease \in LeaseRow
    BY DEF NoLease, LeaseRow, LeaseStates
  <2>2. NoWorkerRow \in WorkerRow
    BY DEF NoWorkerRow, WorkerRow, WorkerStates
  <2> QED BY <2>1, <2>2 DEF Init, TypeOK
<1>2. RowChecks
  BY DEF Init, RowChecks, Checks, NoLease, Persisted
<1>3. /\ lease.state = "none" /\ lease.gen = 0 /\ granted = {}
      /\ \A c \in Containers : workers[c].status = "absent"
  BY DEF Init, NoLease, NoWorkerRow
<1> QED
  BY <1>1, <1>2, <1>3
     DEF IInv, OneTargetPerGeneration, RegisteredWasGranted, IndexNeverTrips

(* The lease operations other than acquire keep the epoch.                 *)
LEMMA SameEpochSteps ==
    ASSUME IInv, NEW now \in Times, NEW token \in Tokens,
           \/ \E pinned \in BOOLEAN : Ensure(pinned, now) \/ SetPinned(pinned, now)
           \/ Renew(token, now) \/ Release(token, now) \/ Retire(token, now)
    PROVE  SameEpoch
<1>1. now \in Nat /\ GoodRow(lease)
  BY MaxNowAssumption DEF Times, IInv, TypeOK, RowChecks, GoodRow
<1>2. ASSUME NEW pinned \in BOOLEAN, Ensure(pinned, now) PROVE SameEpoch
  BY <1>1, <1>2, CreatedRow DEF Ensure, SameEpoch, IInv
<1>3. ASSUME NEW pinned \in BOOLEAN, SetPinned(pinned, now) PROVE SameEpoch
  <2>1. PinAllowed(lease, pinned, now) /\ lease.state # "none"
    BY <1>3 DEF SetPinned, PinAllowed, Persisted
  <2> QED BY <1>1, <1>3, <2>1, RepinnedRow DEF SetPinned, SameEpoch
<1>4. CASE Renew(token, now)
  <2>1. RenewAllowed(lease, token[1], token[2], now) /\ lease.state = "leased"
    BY <1>4 DEF Renew, RenewAllowed, Holds
  <2> QED BY <1>1, <1>4, <2>1, RenewedRow DEF Renew, SameEpoch
<1>5. CASE Release(token, now)
  BY <1>1, <1>5, FreedRow DEF Release, ReleaseAllowed, Holds, Released, SameEpoch
<1>6. CASE Retire(token, now)
  BY <1>1, <1>6, FreedRow DEF Retire, RetireAllowed, Retired, SameEpoch
<1> QED BY <1>2, <1>3, <1>4, <1>5, <1>6

LEMMA DeleteInv ==
    ASSUME IInv, NEW now \in Times, DeleteExpired(now)
    PROVE  IInv'
<1>1. /\ GoodRow(lease') /\ lease'.state = "deleted" /\ lease'.gen = lease.gen
  BY DeletedRow DEF IInv, TypeOK, RowChecks, GoodRow, DeleteExpired
<1>2. /\ workers' = [c \in Containers |-> NoWorkerRow] /\ granted' = granted
      /\ \A c \in Containers : workers'[c].status = "absent"
  BY DEF DeleteExpired, NoWorkerRow
<1>3. TypeOK'
  <2>1. NoWorkerRow \in WorkerRow
    BY DEF NoWorkerRow, WorkerRow, WorkerStates
  <2> QED BY <1>1, <1>2, <2>1 DEF TypeOK, GoodRow, IInv
<1>4. RegisteredWasGranted' /\ IndexNeverTrips' /\ OneTargetPerGeneration'
  BY <1>2 DEF RegisteredWasGranted, IndexNeverTrips, OneTargetPerGeneration, IInv
<1> QED BY <1>1, <1>2, <1>3, <1>4 DEF IInv, RowChecks, GoodRow

(* A Worker is registered with the present token, so it shares its         *)
(* generation with no other: two rows of one generation would both name    *)
(* the one target the generation was granted to.                           *)
LEMMA RegisterInv ==
    ASSUME IInv, NEW c \in Containers, NEW token \in Tokens, NEW now \in Times,
           Register(c, token, now)
    PROVE  IInv'
<1> DEFINE row == Registered(token[1], token[2], now)
<1>1. /\ lease.state = "leased" /\ lease.gen = token[1] /\ lease.target = token[2]
      /\ RowOf(token[1], token[2]) = {}
      /\ workers' = [workers EXCEPT ![c] = row]
      /\ lease' = lease /\ granted' = granted
  BY DEF Register, RegisterAllowed, Holds
<1>2. <<token[1], token[2]>> \in granted
  BY <1>1 DEF IInv
<1>3. /\ row \in WorkerRow /\ row.status = "active"
      /\ row.gen = token[1] /\ row.worker = token[2]
  <2>1. token[1] \in Nat /\ token[2] \in Targets /\ now \in Nat
    BY <1>2, MaxNowAssumption DEF IInv, TypeOK, Times
  <2> QED BY <2>1 DEF Registered, WorkerRow, WorkerStates
<1> HIDE DEF row
<1>4. workers \in [Containers -> WorkerRow] /\ workers'[c] = row
      /\ \A d \in Containers : d # c => workers'[d] = workers[d]
  BY <1>1 DEF IInv, TypeOK
<1>5. TypeOK' /\ RowChecks' /\ OneTargetPerGeneration'
  BY <1>1, <1>3, <1>4 DEF IInv, TypeOK, RowChecks, OneTargetPerGeneration
<1>6. RegisteredWasGranted'
  <2> SUFFICES ASSUME NEW d \in Containers, workers'[d].status # "absent"
               PROVE  /\ <<workers'[d].gen, workers'[d].worker>> \in granted
                      /\ workers'[d].gen <= lease.gen
    BY <1>1 DEF RegisteredWasGranted
  <2>1. CASE d = c
    BY <1>1, <1>2, <1>3, <1>4, <2>1 DEF IInv, TypeOK, LeaseRow
  <2>2. CASE d # c
    BY <1>4, <2>2 DEF IInv, RegisteredWasGranted
  <2> QED BY <2>1, <2>2
<1>7. IndexNeverTrips'
  <2>1. ASSUME NEW d \in Containers, d # c, workers[d].status # "absent",
               workers[d].gen = token[1]
        PROVE  FALSE
    <3>1. <<workers[d].gen, workers[d].worker>> \in granted
      BY <2>1 DEF IInv, RegisteredWasGranted
    <3>2. workers[d].worker = token[2]
      BY <1>2, <2>1, <3>1 DEF IInv, OneTargetPerGeneration
    <3> QED BY <1>1, <2>1, <3>2 DEF RowOf
  <2> QED BY <1>3, <1>4, <2>1 DEF IInv, IndexNeverTrips
<1> QED BY <1>1, <1>5, <1>6, <1>7 DEF IInv

LEMMA TransitionInv ==
    ASSUME IInv, NEW c \in Containers, NEW status \in WorkerStates,
           NEW now \in Times, Transition(c, status, now)
    PROVE  IInv'
<1> DEFINE row == Transitioned(workers[c], status, now)
<1>1. /\ workers' = [workers EXCEPT ![c] = row]
      /\ lease' = lease /\ granted' = granted
      /\ workers[c].status # "absent"
  BY DEF Transition, TransitionAllowed, WorkerTransitions
<1>2. /\ row \in WorkerRow
      /\ row.gen = workers[c].gen /\ row.worker = workers[c].worker
  <2>1. now \in Nat /\ workers[c] \in WorkerRow
    BY MaxNowAssumption DEF Times, IInv, TypeOK
  <2>2. workers[c].version + 1 \in Nat
    BY <2>1 DEF WorkerRow
  <2> QED BY <2>1, <2>2 DEF Transitioned, WorkerRow
<1> HIDE DEF row
<1>3. workers \in [Containers -> WorkerRow] /\ workers'[c] = row
      /\ \A d \in Containers : d # c => workers'[d] = workers[d]
  BY <1>1 DEF IInv, TypeOK
<1>4. TypeOK' /\ RowChecks' /\ OneTargetPerGeneration'
  BY <1>1, <1>2, <1>3 DEF IInv, TypeOK, RowChecks, OneTargetPerGeneration
<1>5. RegisteredWasGranted'
  BY <1>1, <1>2, <1>3 DEF IInv, RegisteredWasGranted
<1>6. IndexNeverTrips'
  BY <1>1, <1>2, <1>3 DEF IInv, IndexNeverTrips
<1> QED BY <1>1, <1>4, <1>5, <1>6 DEF IInv

LEMMA StepInv == IInv /\ [Next]_vars => IInv'
<1> SUFFICES ASSUME IInv, [Next]_vars PROVE IInv'
  OBVIOUS
<1>1. CASE UNCHANGED vars
  BY <1>1 DEF vars, IInv, TypeOK, RowChecks, OneTargetPerGeneration,
              RegisteredWasGranted, IndexNeverTrips
<1>2. ASSUME NEW now \in Times, NEW pinned \in BOOLEAN,
             Ensure(pinned, now) \/ SetPinned(pinned, now)
      PROVE  IInv'
  <2>1. <<0, NoTarget>> \in Tokens
    BY DEF Tokens
  <2> QED BY <1>2, <2>1, SameEpochSteps, SameEpochInv
<1>3. ASSUME NEW now \in Times, NEW target \in Targets, Acquire(target, now)
      PROVE  IInv'
  BY <1>3, AcquireInv
<1>4. ASSUME NEW now \in Times, NEW token \in Tokens,
             Renew(token, now) \/ Release(token, now) \/ Retire(token, now)
      PROVE  IInv'
  BY <1>4, SameEpochSteps, SameEpochInv
<1>5. ASSUME NEW now \in Times, NEW token \in Tokens, NEW c \in Containers,
             Register(c, token, now)
      PROVE  IInv'
  BY <1>5, RegisterInv
<1>6. ASSUME NEW now \in Times, DeleteExpired(now) PROVE IInv'
  BY <1>6, DeleteInv
<1>7. ASSUME NEW now \in Times, NEW c \in Containers, NEW status \in WorkerStates,
             Transition(c, status, now)
      PROVE  IInv'
  BY <1>7, TransitionInv
<1> QED BY <1>1, <1>2, <1>3, <1>4, <1>5, <1>6, <1>7 DEF Next

LEMMA Inductive == Spec => []IInv
<1>1. Init => IInv
  BY InitInv
<1>2. IInv /\ [Next]_vars => IInv'
  BY StepInv
<1> QED BY <1>1, <1>2, PTL DEF Spec

----------------------------------------------------------------------------
(* TypeOK holds in every state the store can reach.                        *)
THEOREM TypeCorrect == Spec => []TypeOK
<1>1. IInv => TypeOK
  BY DEF IInv
<1> QED BY <1>1, Inductive, PTL

(* No sequence of calls makes an UPDATE or INSERT of dag_actor_runtimes    *)
(* trip a CHECK constraint of the table.                                   *)
THEOREM RowsAdmissible == Spec => []RowChecks
<1>1. IInv => RowChecks
  BY DEF IInv
<1> QED BY <1>1, Inductive, PTL

(* acquireDagActorLease never grants one generation to two targets.        *)
THEOREM GenerationsFence == Spec => []OneTargetPerGeneration
<1>1. IInv => OneTargetPerGeneration
  BY DEF IInv
<1> QED BY <1>1, Inductive, PTL

(* Cleanup that takes a failed Worker back to releasing never fails on the *)
(* partial UNIQUE index.                                                   *)
THEOREM IndexSafe == Spec => []IndexNeverTrips
<1>1. IInv => IndexNeverTrips
  BY DEF IInv
<1> QED BY <1>1, Inductive, PTL

(* Every registered Worker was granted the generation of its row.          *)
THEOREM RegistrationFenced == Spec => []RegisteredWasGranted
<1>1. IInv => RegisteredWasGranted
  BY DEF IInv
<1> QED BY <1>1, Inductive, PTL

(* What one step can do to the epoch, in a state of IInv: keep it with its *)
(* holder or without one, or begin the next one.                           *)
LEMMA EpochStep ==
    ASSUME IInv, [Next]_vars
    PROVE  \/ lease' = lease
           \/ SameEpoch
           \/ lease' = Deleted(lease) /\ lease.state \in {"dormant", "retired"}
           \/ \E target \in Targets, now \in Times : Acquire(target, now)
<1>1. <<0, NoTarget>> \in Tokens
  BY DEF Tokens
<1>2. ASSUME NEW now \in Times, NEW pinned \in BOOLEAN,
             Ensure(pinned, now) \/ SetPinned(pinned, now)
      PROVE  SameEpoch
  BY <1>1, <1>2, SameEpochSteps
<1>3. ASSUME NEW now \in Times, NEW token \in Tokens,
             Renew(token, now) \/ Release(token, now) \/ Retire(token, now)
      PROVE  SameEpoch
  BY <1>3, SameEpochSteps
<1>4. ASSUME NEW now \in Times, DeleteExpired(now)
      PROVE  lease' = Deleted(lease) /\ lease.state \in {"dormant", "retired"}
  BY <1>4 DEF DeleteExpired, DeleteAllowed
<1>5. ASSUME NEW now \in Times, NEW token \in Tokens, NEW c \in Containers,
             Register(c, token, now)
      PROVE  lease' = lease
  BY <1>5 DEF Register
<1>6. ASSUME NEW now \in Times, NEW c \in Containers, NEW status \in WorkerStates,
             Transition(c, status, now)
      PROVE  lease' = lease
  BY <1>6 DEF Transition
<1>7. CASE UNCHANGED vars
  BY <1>7 DEF vars
<1> QED BY <1>2, <1>3, <1>4, <1>5, <1>6, <1>7 DEF Next

LEMMA SupersededStep ==
    ASSUME IInv, [Next]_vars
    PROVE  \A token \in granted : Current(token)' => Current(token)
<1> SUFFICES ASSUME NEW token \in granted, Holds(lease', token[1], token[2])
             PROVE  Holds(lease, token[1], token[2])
  BY DEF Current
<1>1. CASE lease' = lease
  BY <1>1
<1>2. CASE SameEpoch
  BY <1>2 DEF SameEpoch, Holds
<1>3. CASE lease' = Deleted(lease)
  BY <1>3, DeletedRow DEF IInv, TypeOK, RowChecks, GoodRow, Holds
<1>4. ASSUME NEW target \in Targets, NEW now \in Times, Acquire(target, now)
      PROVE  Holds(lease, token[1], token[2])
  <2>1. /\ lease'.target = target
        /\ lease'.gen = IF lease.state = "leased" /\ lease.target = target
                        THEN lease.gen ELSE lease.gen + 1
    BY <1>4, AcquireWrites
  <2>2. token[1] <= lease.gen /\ token[1] \in Nat /\ lease.gen \in Nat
    BY DEF IInv, TypeOK, LeaseRow
  <2>3. lease'.gen = token[1] /\ lease'.target = token[2]
    BY DEF Holds
  <2> QED BY <2>1, <2>2, <2>3 DEF Holds
<1> QED BY <1>1, <1>2, <1>3, <1>4, EpochStep

(* A superseded token is superseded for ever: what makes it safe to drop a *)
(* late message, release or clean-up by comparing tokens only.             *)
THEOREM SupersededTokens == Spec => SupersededForever
<1>1. IInv /\ [Next]_vars =>
        [\A token \in granted : Current(token)' => Current(token)]_vars
  BY SupersededStep
<1> QED BY <1>1, Inductive, PTL DEF Spec, SupersededForever

(* The refinement mapping of ActorLease, named.                            *)
Owner(l)  == IF l.state = "leased" THEN l.target ELSE NoTarget
Closed(l) == l.state \in {"retired", "deleted"}

LEMMA OwnershipInit == Init => Ownership!Init
BY DEF Init, Ownership!Init, NoLease

LEMMA OwnershipStep ==
    ASSUME IInv, [Next]_vars
    PROVE  [Ownership!Next]_(Ownership!ownVars)
<1>1. CASE lease' = lease
  BY <1>1 DEF Ownership!ownVars
<1>2. CASE SameEpoch
  <2>1. /\ lease'.gen = lease.gen
        /\ Closed(lease) => Closed(lease')
        /\ Closed(lease') => Owner(lease') = NoTarget
        /\ Owner(lease') \in {Owner(lease), NoTarget}
    BY <1>2 DEF SameEpoch, Closed, Owner
  <2>2. \/ UNCHANGED Ownership!ownVars
        \/ Ownership!GiveUp
        \/ Ownership!Close
    BY <2>1 DEF Ownership!ownVars, Ownership!GiveUp, Ownership!Close, Owner, Closed
  <2> QED BY <2>2 DEF Ownership!Next
<1>3. CASE lease' = Deleted(lease) /\ lease.state \in {"dormant", "retired"}
  <2>1. /\ lease'.gen = lease.gen /\ lease'.state = "deleted"
    BY <1>3, DeletedRow DEF IInv, TypeOK, RowChecks, GoodRow
  <2>2. UNCHANGED Ownership!ownVars \/ Ownership!Close
    BY <1>3, <2>1 DEF Ownership!ownVars, Ownership!Close
  <2> QED BY <2>2 DEF Ownership!Next
<1>4. ASSUME NEW target \in Targets, NEW now \in Times, Acquire(target, now)
      PROVE  [Ownership!Next]_(Ownership!ownVars)
  <2>1. /\ lease'.state = "leased" /\ lease'.target = target
        /\ lease'.gen = IF lease.state = "leased" /\ lease.target = target
                        THEN lease.gen ELSE lease.gen + 1
    BY <1>4, AcquireWrites
  <2>2. lease.state \in {"none", "dormant", "leased"}
    BY <1>4 DEF Acquire, AcquireAllowed
  <2>3. CASE lease.state = "leased" /\ lease.target = target
    BY <2>1, <2>3 DEF Ownership!ownVars
  <2>4. CASE ~(lease.state = "leased" /\ lease.target = target)
    <3>1. Ownership!Grant(target)
      BY <2>1, <2>2, <2>4, TargetsAssumption DEF Ownership!Grant
    <3> QED BY <3>1 DEF Ownership!Next
  <2> QED BY <2>3, <2>4
<1> QED BY <1>1, <1>2, <1>3, <1>4, EpochStep

(* The lease store, under any calls, is a fenced ownership: every step of  *)
(* it is a grant of the next epoch, a give-up, the closing of the resource *)
(* or invisible to its owners.                                             *)
THEOREM StoreFencesOwnership == Spec => FencesOwnership
<1>1. Init => Ownership!Init
  BY OwnershipInit
<1>2. IInv /\ [Next]_vars => [Ownership!Next]_(Ownership!ownVars)
  BY OwnershipStep
<1> QED BY <1>1, <1>2, Inductive, PTL DEF Spec, FencesOwnership, Ownership!Spec
============================================================================
