--------------------------- MODULE LeaseRowsProofs ---------------------------
(***************************************************************************)
(* What each operation of LeaseRows does to one row of the lease table, as *)
(* lemmas for the proofs about ActorLease and WorkerLifecycle.             *)
(***************************************************************************)
EXTENDS LeaseRows, TLAPS

(* A lease row as the table admits it.                                     *)
GoodRow(l) == l \in LeaseRow /\ Checks(l)

LEMMA CreatedRow ==
    ASSUME NEW now \in Nat, NEW pinned \in BOOLEAN
    PROVE  /\ GoodRow(Created(pinned, now))
           /\ Created(pinned, now).state = "dormant"
           /\ Created(pinned, now).gen = 0
           /\ Created(pinned, now).updated = now
           /\ Created(pinned, now).version = 1
<1>1. now + RetentionTTL \in Nat
  BY TimesAssumption
<1>2. Created(pinned, now) \in LeaseRow
  BY <1>1 DEF Created, LeaseRow, LeaseStates
<1>3. Checks(Created(pinned, now))
  BY TimesAssumption DEF Created, Checks, Persisted, NoTime
<1> QED BY <1>2, <1>3 DEF GoodRow, Created

LEMMA AcquiredRow ==
    ASSUME NEW l, GoodRow(l), NEW target \in Targets, NEW now \in Nat,
           l.state # "none" => now >= l.updated,
           l.state = "none" => l.gen = 0
    PROVE  /\ GoodRow(Acquired(l, target, now))
           /\ Acquired(l, target, now).state = "leased"
           /\ Acquired(l, target, now).target = target
           /\ Acquired(l, target, now).gen =
                 IF l.state = "leased" /\ l.target = target THEN l.gen
                                                            ELSE l.gen + 1
           /\ Acquired(l, target, now).updated = now
           /\ Acquired(l, target, now).version = Ensured(l, now).version + 1
<1> DEFINE row      == Ensured(l, now)
           same     == row.state = "leased" /\ row.target = target
           deadline == IF same THEN Later(row.deadline, now + IdleTTL)
                               ELSE now + IdleTTL
           changed  == IF same THEN row.changed ELSE now
           gen      == IF same THEN row.gen ELSE row.gen + 1
           new      == Acquired(l, target, now)
<1>1. /\ GoodRow(row)
      /\ row.gen = l.gen
      /\ same <=> l.state = "leased" /\ l.target = target
      /\ now >= row.updated
  <2>1. CASE l.state = "none"
    <3>1. row = Created(FALSE, now)
      BY <2>1 DEF Ensured
    <3>2. /\ GoodRow(row) /\ row.state = "dormant" /\ row.gen = 0
          /\ row.updated = now
      BY <3>1, CreatedRow
    <3> QED BY <2>1, <3>2
  <2>2. CASE l.state # "none"
    <3>1. row = l
      BY <2>2 DEF Ensured
    <3> QED BY <2>2, <3>1
  <2> QED BY <2>1, <2>2
<1>2. /\ deadline \in Nat /\ changed \in Nat /\ gen \in Nat
      /\ deadline >= changed /\ changed <= now /\ gen >= 1
  <2> HIDE DEF row
  <2>1. CASE same
    <3>1. /\ row.deadline \in Nat /\ row.gen \in Nat /\ row.changed \in Nat
          /\ row.updated \in Nat
          /\ row.deadline >= row.changed /\ row.gen >= 1
          /\ row.changed <= row.updated
      BY <1>1, <2>1 DEF GoodRow, LeaseRow, Checks, Persisted
    <3> QED BY <1>1, <2>1, <3>1, TimesAssumption DEF Later
  <2>2. CASE ~same
    BY <1>1, <2>2, TimesAssumption DEF GoodRow, LeaseRow
  <2> QED BY <2>1, <2>2
<1>3. row.version + 1 \in Nat /\ row.version + 1 >= 1
  <2> HIDE DEF row
  <2> QED BY <1>1 DEF GoodRow, LeaseRow
<1>4. new = [row EXCEPT !.state = "leased", !.gen = gen, !.target = target,
                        !.deadline = deadline, !.retained = NoTime,
                        !.changed = changed, !.updated = now,
                        !.version = row.version + 1]
  BY DEF Acquired
<1> HIDE DEF row, same, deadline, changed, gen, new
<1>5. new \in LeaseRow
  BY <1>1, <1>2, <1>3, <1>4 DEF GoodRow, LeaseRow, LeaseStates
<1>6. /\ new.state = "leased" /\ new.gen = gen /\ new.target = target
      /\ new.deadline = deadline /\ new.retained = NoTime
      /\ new.changed = changed /\ new.updated = now
      /\ new.version = row.version + 1
  BY <1>1, <1>4 DEF GoodRow, LeaseRow
<1>7. Checks(new)
  BY <1>2, <1>3, <1>6 DEF Checks, Persisted, NoTime
<1> QED BY <1>1, <1>5, <1>6, <1>7 DEF GoodRow, new, gen, row

LEMMA RenewedRow ==
    ASSUME NEW l, GoodRow(l), NEW gen, NEW target, NEW now \in Nat,
           RenewAllowed(l, gen, target, now)
    PROVE  /\ GoodRow(Renewed(l, now))
           /\ Renewed(l, now).state = "leased"
           /\ Renewed(l, now).target = l.target
           /\ Renewed(l, now).gen = l.gen
<1> DEFINE new == Renewed(l, now)
           deadline == Later(l.deadline, now + IdleTTL)
<1>1. /\ l \in LeaseRow /\ Checks(l) /\ l.state = "leased" /\ now >= l.updated
  BY DEF GoodRow, RenewAllowed, Holds, Mutable
<1>2. /\ deadline \in Nat /\ deadline >= l.deadline /\ l.deadline \in Nat
      /\ l.version + 1 \in Nat /\ l.version + 1 >= 1 /\ l.changed \in Nat
      /\ l.updated \in Nat
  BY <1>1, TimesAssumption DEF LeaseRow, Checks, Later
<1>3. new = [l EXCEPT !.deadline = deadline, !.updated = now,
                      !.version = l.version + 1]
  BY DEF Renewed
<1> HIDE DEF deadline, new
<1>4. new \in LeaseRow
  BY <1>1, <1>2, <1>3 DEF LeaseRow
<1>5. /\ new.state = l.state /\ new.gen = l.gen /\ new.target = l.target
      /\ new.deadline = deadline /\ new.retained = l.retained
      /\ new.changed = l.changed /\ new.updated = now
      /\ new.version = l.version + 1
  BY <1>1, <1>3 DEF LeaseRow
<1>6. Checks(new)
  BY <1>1, <1>2, <1>5 DEF Checks, Persisted, NoTime
<1> QED BY <1>1, <1>4, <1>5, <1>6 DEF GoodRow, new

LEMMA FreedRow ==
    ASSUME NEW l, GoodRow(l), NEW now \in Nat,
           NEW state \in {"dormant", "retired"}
    PROVE  /\ GoodRow(Freed(l, state, now))
           /\ Freed(l, state, now).state = state
           /\ Freed(l, state, now).gen = l.gen
           /\ Freed(l, state, now).updated = now
           /\ Freed(l, state, now).version = l.version + 1
<1> DEFINE new == Freed(l, state, now)
<1>1. /\ state \in LeaseStates /\ l \in LeaseRow
      /\ now + RetentionTTL \in Nat /\ l.version + 1 \in Nat
      /\ l.version + 1 >= 1
  BY TimesAssumption DEF GoodRow, LeaseRow, LeaseStates
<1>2. new \in LeaseRow
  BY <1>1 DEF LeaseRow, Freed
<1>3. /\ new.state = state /\ new.gen = l.gen /\ new.target = NoTarget
      /\ new.deadline = NoTime /\ new.retained = now + RetentionTTL
      /\ new.changed = now /\ new.updated = now
      /\ new.version = l.version + 1
  BY <1>1 DEF LeaseRow, Freed
<1> HIDE DEF new
<1>4. Checks(new)
  BY <1>1, <1>3, TimesAssumption DEF Checks, Persisted, NoTime
<1> QED BY <1>2, <1>3, <1>4 DEF GoodRow, new

LEMMA RepinnedRow ==
    ASSUME NEW l, GoodRow(l), NEW pinned \in BOOLEAN, NEW now \in Nat,
           PinAllowed(l, pinned, now)
    PROVE  /\ GoodRow(Repinned(l, pinned, now))
           /\ Repinned(l, pinned, now).state = l.state
           /\ Repinned(l, pinned, now).target = l.target
           /\ Repinned(l, pinned, now).gen = l.gen
<1> DEFINE new == Repinned(l, pinned, now)
           retained == IF l.state = "leased" THEN NoTime
                       ELSE IF pinned THEN l.retained ELSE now + RetentionTTL
<1>1. /\ l \in LeaseRow /\ Checks(l) /\ Persisted(l) /\ now >= l.updated
      /\ pinned /\ l.state # "leased" => now < l.retained
  BY DEF GoodRow, PinAllowed, Mutable
<1>2. /\ retained \in Nat \cup {NoTime}
      /\ l.state = "leased" => retained = NoTime
      /\ l.state # "leased" => retained # NoTime /\ retained >= now
  BY <1>1, TimesAssumption DEF LeaseRow, Checks, Persisted, NoTime
<1>3. l.version + 1 \in Nat /\ l.version + 1 >= 1
  BY <1>1 DEF LeaseRow
<1>4. new = [l EXCEPT !.pinned = pinned, !.retained = retained,
                      !.updated = now, !.version = l.version + 1]
  BY DEF Repinned
<1> HIDE DEF new, retained
<1>5. new \in LeaseRow
  BY <1>1, <1>2, <1>3, <1>4 DEF LeaseRow
<1>6. /\ new.state = l.state /\ new.gen = l.gen /\ new.target = l.target
      /\ new.deadline = l.deadline /\ new.retained = retained
      /\ new.changed = l.changed /\ new.updated = now
      /\ new.version = l.version + 1
  BY <1>1, <1>4 DEF LeaseRow
<1>7. l.changed <= now
  BY <1>1 DEF Checks, LeaseRow
<1>8. Checks(new)
  BY <1>1, <1>2, <1>3, <1>6, <1>7 DEF Checks, Persisted
<1> QED BY <1>5, <1>6, <1>8 DEF GoodRow, new

LEMMA DeletedRow ==
    ASSUME NEW l, GoodRow(l)
    PROVE  /\ GoodRow(Deleted(l))
           /\ Deleted(l).state = "deleted"
           /\ Deleted(l).gen = l.gen
<1>1. Deleted(l) \in LeaseRow
  BY DEF GoodRow, LeaseRow, LeaseStates, Deleted
<1>2. Deleted(l).state = "deleted" /\ Deleted(l).gen = l.gen
  BY DEF GoodRow, LeaseRow, Deleted
<1> QED BY <1>1, <1>2 DEF GoodRow, Checks, Persisted
==============================================================================
