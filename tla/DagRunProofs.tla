---------------------------- MODULE DagRunProofs ----------------------------
(***************************************************************************)
(* Proofs about DagRun, for every set of graphs, all limits and any        *)
(* numbers of rounds and restarts.                                         *)
(*                                                                         *)
(* The invariant is that the run is in Sound(graph), and is proved handler *)
(* by handler: an operator that changes a run is shown to map Sound runs,  *)
(* or the active ones among them, to Sound runs, and each action is then a *)
(* use of such lemmas.  What keeps it inductive is that no node waits for  *)
(* a command while the run is active: the handlers that end an active run  *)
(* settle READY, RUNNING and PENDING nodes only.                           *)
(*                                                                         *)
(* Five more invariants serve one property each: FirstRoundLive (only      *)
(* loops stall), Holding (a round leaves the others alone), OrderKept      *)
(* (dependencies come first), VotesKept (a vote is heard) and CrewKept     *)
(* (the limit on parallelism).  Each is the same kind of set of runs, and  *)
(* is carried through the handlers in the same way.                        *)
(***************************************************************************)
EXTENDS DagRun, DagEngineProofs, FiniteSetTheorems

----------------------------------------------------------------------------
(* A run that ended is final *)

(* A handler goes on dispatching only while its run is active.             *)
PassesOfActive == passes > 0 => Active(run)

(* Failing, correcting and dispatching leave a run that is not active as   *)
(* it is.                                                                  *)
LEMMA InactiveKept ==
    ASSUME NEW g, NEW r, ~Active(r)
    PROVE  /\ Tick(r) = 0
           /\ \A n : FailActiveRun(g, r, n) = r
BY DEF Tick, FailActiveRun

LEMMA PassesInit == Init => PassesOfActive
BY DEF Init, PassesOfActive, Tick

(* A run that ended is not active, not waiting, and makes no pass.         *)
LEMMA StatusesDiffer ==
    ASSUME NEW r, Ended(r)
    PROVE  ~Active(r) /\ r.status # "waiting"
BY DEF Ended, Active

LEMMA PassesStep == PassesOfActive /\ [Next]_vars => PassesOfActive'
<1> SUFFICES ASSUME PassesOfActive, [Next]_vars PROVE PassesOfActive'
  OBVIOUS
<1> USE DEF PassesOfActive
<1>1. ASSUME passes' = 0 PROVE PassesOfActive'
  BY <1>1
<1>2. ASSUME passes' = Tick(run') PROVE PassesOfActive'
  BY <1>2 DEF Tick, Active
<1>3. ASSUME passes' = passes, passes = 0 PROVE PassesOfActive'
  BY <1>3
<1>4. CASE DispatchReadyNodes
  <2>1. PICK r : run' = r /\ passes' = IF Active(r) /\ r # run THEN passes - 1 ELSE 0
    BY <1>4, Zenon DEF DispatchReadyNodes
  <2> QED BY <2>1 DEF Active
<1>5. ASSUME NEW n, Provisioned(n) \/ ProvisioningFails(n) PROVE PassesOfActive'
  BY <1>3, <1>5 DEF Provisioned, ProvisioningFails, Idle
<1>6. CASE RetryDeferred
  BY <1>6 DEF RetryDeferred
<1>7. CASE FirstWorkerRegisters
  BY <1>2, <1>7 DEF FirstWorkerRegisters
<1>8. ASSUME NEW n, WorkerLost(n) PROVE PassesOfActive'
  BY <1>2, <1>8 DEF WorkerLost
<1>9. ASSUME NEW e, NEW port, NEW contract, Answer(e, port, contract)
      PROVE  PassesOfActive'
  BY <1>1, <1>2, <1>9 DEF Answer
<1>10. CASE Cancel \/ Complete \/ Expire
  BY <1>3, <1>10 DEF Cancel, Complete, Expire, Idle
<1>11. ASSUME NEW S, Resume(S) PROVE PassesOfActive'
  BY <1>2, <1>11 DEF Resume
<1>12. ASSUME NEW r, Restart(r) PROVE PassesOfActive'
  BY <1>1, <1>12 DEF Restart
<1>13. CASE Crash
  BY <1>12, <1>13 DEF Crash
<1>14. ASSUME NEW e, NEW port, CrashAfterHandoff(e, port) PROVE PassesOfActive'
  BY <1>12, <1>14 DEF CrashAfterHandoff
<1>15. CASE UNCHANGED vars
  BY <1>15 DEF vars, Active
<1> QED BY <1>4, <1>5, <1>6, <1>7, <1>8, <1>9, <1>10, <1>11, <1>13, <1>14, <1>15 DEF Next

LEMMA EndedKept ==
    ASSUME PassesOfActive, [Next]_vars, Ended(run)
    PROVE  run' = run
<1>1. /\ ~Active(run) /\ run.status # "waiting" /\ ~(passes > 0)
      /\ run.status \notin {"active", "waiting"}
  BY StatusesDiffer DEF PassesOfActive, Active
<1>2. \A n : FailActiveRun(graph, run, n) = run
  BY <1>1, InactiveKept
<1>3. ~DispatchReadyNodes
  BY <1>1 DEF DispatchReadyNodes
<1>4. ASSUME NEW n, Provisioned(n) \/ ProvisioningFails(n) PROVE run' = run
  BY <1>1, <1>2, <1>4 DEF Provisioned, ProvisioningFails
<1>5. CASE RetryDeferred \/ FirstWorkerRegisters
  BY <1>5 DEF RetryDeferred, FirstWorkerRegisters
<1>6. ASSUME NEW n, WorkerLost(n) PROVE run' = run
  BY <1>1, <1>6 DEF WorkerLost
<1>7. ASSUME NEW e PROVE ~Current(run, e)
  BY <1>1 DEF Current
<1>8. ASSUME NEW e, NEW port, NEW contract, Answer(e, port, contract)
      PROVE  run' = run
  BY <1>7, <1>8 DEF Answer
<1>9. ~Cancel /\ ~Complete /\ ~Expire
  BY <1>1 DEF Cancel, Complete, Expire
<1>10. ASSUME NEW S, Resume(S) PROVE run' = run
  BY <1>1, <1>10 DEF Resume
<1>11. ~Crash
  BY DEF Crash
<1>12. ASSUME NEW e, NEW port PROVE ~CrashAfterHandoff(e, port)
  BY <1>7 DEF CrashAfterHandoff
<1>13. CASE UNCHANGED vars
  BY <1>13 DEF vars
<1> QED BY <1>3, <1>4, <1>5, <1>6, <1>8, <1>9, <1>10, <1>11, <1>12, <1>13 DEF Next

(* Whatever arrives after a run ended changes it no more, for every graph: *)
(* the handlers look at its status before they touch it, and a handler     *)
(* that ended it makes no further pass.                                    *)
THEOREM EndedRunIsFinal == Spec => EndedIsFinal
<1>1. Spec => []PassesOfActive
  BY PassesInit, PassesStep, PTL DEF Spec
<1>2. PassesOfActive /\ [Next]_vars => [Ended(run) => run' = run]_vars
  BY EndedKept
<1> QED BY <1>1, <1>2, PTL DEF Spec, EndedIsFinal
----------------------------------------------------------------------------
(* What the fields of a run hold that is in one of the rounds of K.        *)
Agents(g) == {n \in Nodes(g) : ~Gateway(g, n)}
Ports == {"done", FailurePort, "continue", "exhausted"}

Counters(g) == [corrections : [Nodes(g) -> 0 .. MaxCorrections],
                iterations  : [Nodes(g) -> 0 .. MaxIterations],
                traversals  : [Backward(g) -> Nat]]

Runs(g, K) == [dag : AnyEngines(g), status : RunStates, counters : Counters(g),
            round : K, history : SUBSET (Nodes(g) \X Ports),
            seeded : SUBSET Nodes(g), commands : SUBSET Agents(g)]

(* While a run is active none of its nodes waits for a command.            *)
ActiveRuns(g, K) == {r \in Runs(g, K) : r.status = "active" /\ r.dag \in Engines(g)}

WaitsAtAwait(g, r) ==
    \A n \in Nodes(g) : r.dag.state[n] = "WAITING_FOR_COMMAND" =>
                           g.kind[n] = "await" /\ r.status = "waiting"
EndedQuiet(g, r) ==
    Ended(r) => \A n \in Nodes(g) : r.dag.state[n] \in Settled \/ RunningLoop(r.dag, n)
WaitingQuiet(g, r) ==
    r.status = "waiting" => \E n \in Nodes(g) :
       r.dag.state[n] = "WAITING_FOR_COMMAND" /\ Quiescent(r, n)

Sound(g, K) == {r \in Runs(g, K) :
                  WaitsAtAwait(g, r) /\ EndedQuiet(g, r) /\ WaitingQuiet(g, r)}

----------------------------------------------------------------------------
(* Runs and their engines *)

LEMMA EnginesAny ==
    ASSUME NEW g
    PROVE  /\ Engines(g) \subseteq AnyEngines(g)
           /\ \A d \in AnyEngines(g) :
                 /\ DOMAIN d.state = Nodes(g)
                 /\ \/ d \in Engines(g)
                    \/ \E n \in Nodes(g) : d.state[n] = "WAITING_FOR_COMMAND"
           /\ \A d \in Engines(g), n \in Nodes(g) : d.state[n] # "WAITING_FOR_COMMAND"
BY DEF Engines, AnyEngines

LEMMA ActiveIsSound ==
    ASSUME NEW g, NEW K
    PROVE  /\ ActiveRuns(g, K) \subseteq Sound(g, K)
           /\ \A r \in Sound(g, K) : Active(r) => r \in ActiveRuns(g, K)
<1>1. ASSUME NEW r \in ActiveRuns(g, K) PROVE r \in Sound(g, K)
  <2>1. r \in Runs(g, K) /\ r.status = "active" /\ r.dag \in Engines(g)
    BY <1>1 DEF ActiveRuns
  <2>2. \A n \in Nodes(g) : r.dag.state[n] # "WAITING_FOR_COMMAND"
    BY <2>1, EnginesAny
  <2> QED BY <2>1, <2>2 DEF Sound, WaitsAtAwait, EndedQuiet, WaitingQuiet, Ended
<1>2. ASSUME NEW r \in Sound(g, K), Active(r) PROVE r \in ActiveRuns(g, K)
  <2>1. r \in Runs(g, K) /\ WaitsAtAwait(g, r) /\ r.status = "active"
    BY <1>2 DEF Sound, Active
  <2>2. r.dag \in AnyEngines(g)
    BY <2>1 DEF Runs
  <2>3. r.dag \in Engines(g)
    BY <2>1, <2>2, EnginesAny DEF WaitsAtAwait
  <2> QED BY <2>1, <2>3 DEF ActiveRuns
<1> QED BY <1>1, <1>2

LEMMA ActiveFields ==
    ASSUME NEW g, NEW K, NEW r \in ActiveRuns(g, K)
    PROVE  /\ r \in Runs(g, K) /\ r.dag \in Engines(g) /\ r.status = "active"
           /\ Active(r) /\ DOMAIN r.dag.state = Nodes(g)
BY DEF ActiveRuns, Active, Engines

LEMMA DagReplaced ==
    ASSUME NEW g, NEW K, NEW r \in ActiveRuns(g, K), NEW d \in Engines(g)
    PROVE  [r EXCEPT !.dag = d] \in ActiveRuns(g, K)
<1>1. d \in AnyEngines(g)
  BY EnginesAny
<1> QED BY <1>1, ActiveFields DEF ActiveRuns, Runs

(* r with another status and engine.                                       *)
Became(r, s, d) == [r EXCEPT !.status = s, !.dag = d]

LEMMA RunReplaced ==
    ASSUME NEW g, NEW K, NEW r \in Runs(g, K), NEW d \in AnyEngines(g), NEW s \in RunStates
    PROVE  /\ Became(r, s, d) \in Runs(g, K)
           /\ Became(r, s, d).status = s
           /\ Became(r, s, d).dag = d
BY DEF Runs, Became

LEMMA SetStateIs ==
    ASSUME NEW g, NEW d \in AnyEngines(g), NEW S, NEW s \in NodeStates
    PROVE  /\ SetState(d, S, s) \in AnyEngines(g)
           /\ \A n \in Nodes(g) :
                 SetState(d, S, s).state[n] = IF n \in S THEN s ELSE d.state[n]
           /\ SetState(d, S, s).loops = d.loops
BY DEF SetState, AnyEngines

(* A run ends quietly when everything is settled or a loop at rest.        *)
LEMMA EndsQuietly ==
    ASSUME NEW g, NEW K, NEW q \in Runs(g, K), Ended(q),
           \A n \in Nodes(g) : q.dag.state[n] \in Settled \/ RunningLoop(q.dag, n)
    PROVE  q \in Sound(g, K)
<1>1. q.status # "waiting"
  BY DEF Ended
<1>2. \A n \in Nodes(g) : q.dag.state[n] # "WAITING_FOR_COMMAND"
  BY DEF Settled, RunningLoop
<1> QED BY <1>1, <1>2 DEF Sound, WaitsAtAwait, EndedQuiet, WaitingQuiet

LEMMA TerminalIs ==
    ASSUME NEW g, NEW d \in AnyEngines(g), IsRunTerminal(d)
    PROVE  \A n \in Nodes(g) : d.state[n] \in Settled \/ RunningLoop(d, n)
BY EnginesAny DEF IsRunTerminal

----------------------------------------------------------------------------
(* Ending a run *)

LEMMA AbortSound ==
    ASSUME NEW g, NEW K, NEW r \in Sound(g, K), NEW blamed
    PROVE  Abort(r, blamed) \in Sound(g, K)
<1>1. CASE ~Active(r)
  BY <1>1 DEF Abort
<1>2. CASE Active(r)
  <2> DEFINE failed == SetState(r.dag, blamed, "FAILED")
             live   == In(r, {"READY", "RUNNING"}) \ blamed
             cancelled == SetState(failed, live, "CANCELLED")
             d == SetState(cancelled, In(r, {"PENDING"}) \ blamed, "SKIPPED")
             q == Became(r, "failed", d)
  <2>1. /\ r \in ActiveRuns(g, K) /\ r \in Runs(g, K)
        /\ r.dag \in Engines(g) /\ r.dag \in AnyEngines(g)
        /\ DOMAIN r.dag.state = Nodes(g)
    BY <1>2, ActiveIsSound, ActiveFields, EnginesAny
  <2>2. failed \in AnyEngines(g) /\ \A n \in Nodes(g) :
           failed.state[n] = IF n \in blamed THEN "FAILED" ELSE r.dag.state[n]
    BY <2>1, SetStateIs DEF NodeStates
  <2> HIDE DEF failed
  <2>3. cancelled \in AnyEngines(g) /\ \A n \in Nodes(g) :
           cancelled.state[n] = IF n \in live THEN "CANCELLED" ELSE failed.state[n]
    BY <2>2, SetStateIs DEF NodeStates
  <2> HIDE DEF cancelled
  <2>4. d \in AnyEngines(g) /\ \A n \in Nodes(g) :
           d.state[n] = IF n \in In(r, {"PENDING"}) \ blamed THEN "SKIPPED"
                        ELSE cancelled.state[n]
    BY <2>3, SetStateIs DEF NodeStates
  <2> HIDE DEF d
  <2>5. ASSUME NEW n \in Nodes(g) PROVE d.state[n] \in Settled
    <3>1. r.dag.state[n] \in NodeStates \ {"WAITING_FOR_COMMAND"}
      BY <2>1 DEF Engines
    <3> QED BY <2>1, <2>2, <2>3, <2>4, <3>1 DEF In, Settled, NodeStates
  <2>6. q \in Runs(g, K) /\ q.status = "failed" /\ q.dag = d
    <3>1. "failed" \in RunStates
      BY DEF RunStates
    <3> QED BY <2>1, <2>4, <3>1, RunReplaced
  <2> HIDE DEF q
  <2>7. q \in Sound(g, K)
    BY <2>5, <2>6, EndsQuietly DEF Ended
  <2>8. Abort(r, blamed) = q
    BY <1>2 DEF Abort, q, Became, d, cancelled, failed
  <2> QED BY <2>7, <2>8
<1> QED BY <1>1, <1>2

LEMMA CompleteSound ==
    ASSUME NEW g, NEW K, NEW r \in ActiveRuns(g, K), IsRunTerminal(r.dag)
    PROVE  CompleteRun(r) \in Sound(g, K)
<1> DEFINE d == SetState(r.dag, In(r, {"WAITING_FOR_COMMAND"}), "COMPLETED")
           q == Became(r, "completed", d)
<1>1. r \in Runs(g, K) /\ r.dag \in AnyEngines(g)
      /\ \A n \in Nodes(g) : r.dag.state[n] \in Settled \/ RunningLoop(r.dag, n)
  BY ActiveFields, EnginesAny, TerminalIs
<1>2. d \in AnyEngines(g) /\ d.loops = r.dag.loops /\ \A n \in Nodes(g) :
         d.state[n] = IF n \in In(r, {"WAITING_FOR_COMMAND"}) THEN "COMPLETED"
                      ELSE r.dag.state[n]
  BY <1>1, SetStateIs DEF NodeStates
<1> HIDE DEF d
<1>3. \A n \in Nodes(g) : d.state[n] \in Settled \/ RunningLoop(d, n)
  BY <1>1, <1>2 DEF RunningLoop, Settled
<1>4. q \in Runs(g, K) /\ q.status = "completed" /\ q.dag = d
  <2>1. "completed" \in RunStates
    BY DEF RunStates
  <2> QED BY <1>1, <1>2, <2>1, RunReplaced
<1> HIDE DEF q
<1>5. q \in Sound(g, K)
  BY <1>3, <1>4, EndsQuietly DEF Ended
<1> QED BY <1>5 DEF CompleteRun, q, Became, d

(* A run that waits is completed or expires.                               *)
LEMMA WaitingEnds ==
    ASSUME NEW g, NEW K, NEW r \in Sound(g, K), r.status = "waiting",
           NEW s \in {"COMPLETED", "FAILED"}, NEW t \in {"completed", "failed"}
    PROVE  [r EXCEPT !.status = t,
                     !.dag = SetState(@, In(r, {"WAITING_FOR_COMMAND"}), s)] \in Sound(g, K)
<1> DEFINE d == SetState(r.dag, In(r, {"WAITING_FOR_COMMAND"}), s)
           q == Became(r, t, d)
<1>1. r \in Runs(g, K) /\ r.dag \in AnyEngines(g) /\ DOMAIN r.dag.state = Nodes(g)
  BY EnginesAny DEF Sound, Runs
<1>2. PICK w \in Nodes(g) : r.dag.state[w] = "WAITING_FOR_COMMAND" /\ Quiescent(r, w)
  BY DEF Sound, WaitingQuiet
<1>3. d \in AnyEngines(g) /\ \A n \in Nodes(g) :
         d.state[n] = IF n \in In(r, {"WAITING_FOR_COMMAND"}) THEN s ELSE r.dag.state[n]
  BY <1>1, SetStateIs DEF NodeStates
<1> HIDE DEF d
<1>4. \A n \in Nodes(g) : d.state[n] \in Settled
  BY <1>1, <1>2, <1>3 DEF In, Quiescent, Settled
<1>5. q \in Runs(g, K) /\ q.status = t /\ q.dag = d
  <2>1. t \in RunStates
    BY DEF RunStates
  <2> QED BY <1>1, <1>3, <2>1, RunReplaced
<1> HIDE DEF q
<1>6. q \in Sound(g, K)
  BY <1>4, <1>5, EndsQuietly DEF Ended
<1> QED BY <1>6 DEF q, Became, d

LEMMA CancelSound ==
    ASSUME NEW g, NEW K, NEW r \in Sound(g, K), r.status \in {"active", "waiting"}
    PROVE  CancelRun(r) \in Sound(g, K)
<1> DEFINE live == In(r, {"READY", "RUNNING", "WAITING_FOR_COMMAND"})
           cancelled == SetState(r.dag, live, "CANCELLED")
           d == SetState(cancelled, In(r, {"PENDING"}), "SKIPPED")
           q == Became(r, "cancelled", d)
<1>1. r \in Runs(g, K) /\ r.dag \in AnyEngines(g) /\ DOMAIN r.dag.state = Nodes(g)
  BY EnginesAny DEF Sound, Runs
<1>2. cancelled \in AnyEngines(g) /\ \A n \in Nodes(g) :
         cancelled.state[n] = IF n \in live THEN "CANCELLED" ELSE r.dag.state[n]
  BY <1>1, SetStateIs DEF NodeStates
<1> HIDE DEF cancelled
<1>3. d \in AnyEngines(g) /\ \A n \in Nodes(g) :
         d.state[n] = IF n \in In(r, {"PENDING"}) THEN "SKIPPED" ELSE cancelled.state[n]
  BY <1>2, SetStateIs DEF NodeStates
<1> HIDE DEF d
<1>4. ASSUME NEW n \in Nodes(g) PROVE d.state[n] \in Settled
  <2>1. r.dag.state[n] \in NodeStates
    BY <1>1 DEF AnyEngines
  <2> QED BY <1>1, <1>2, <1>3, <2>1 DEF In, Settled, NodeStates
<1>5. q \in Runs(g, K) /\ q.status = "cancelled" /\ q.dag = d
  <2>1. "cancelled" \in RunStates
    BY DEF RunStates
  <2> QED BY <1>1, <1>3, <2>1, RunReplaced
<1> HIDE DEF q
<1>6. q \in Sound(g, K)
  BY <1>4, <1>5, EndsQuietly DEF Ended
<1> QED BY <1>6 DEF CancelRun, q, Became, d, cancelled

----------------------------------------------------------------------------
(* Failures, handoffs and corrections *)

LEMMA SkipStalledActive ==
    ASSUME NEW g, NEW K, NEW r \in ActiveRuns(g, K)
    PROVE  SkipStalled(r) \in ActiveRuns(g, K)
<1>1. SetState(r.dag, In(r, {"PENDING"}), "SKIPPED") \in Engines(g)
  BY ActiveFields, SetStateTyped DEF NodeStates
<1>2. [r EXCEPT !.dag = SetState(r.dag, In(r, {"PENDING"}), "SKIPPED")] \in ActiveRuns(g, K)
  BY <1>1, DagReplaced
<1> QED BY <1>2 DEF SkipStalled

LEMMA TerminalFails ==
    ASSUME NEW g, NEW K, NEW r \in ActiveRuns(g, K), IsRunTerminal(r.dag)
    PROVE  [r EXCEPT !.status = "failed"] \in Sound(g, K)
<1> DEFINE q == [r EXCEPT !.status = "failed"]
<1>1. /\ r \in Runs(g, K)
      /\ \A n \in Nodes(g) : r.dag.state[n] \in Settled \/ RunningLoop(r.dag, n)
  BY ActiveFields, EnginesAny, TerminalIs
<1>2. q \in Runs(g, K) /\ q.status = "failed" /\ q.dag = r.dag
  BY <1>1 DEF Runs, RunStates
<1> HIDE DEF q
<1>3. q \in Sound(g, K)
  BY <1>1, <1>2, EndsQuietly DEF Ended
<1> QED BY <1>3 DEF q

LEMMA AfterFailureSound ==
    ASSUME NEW g, NEW K, NEW r \in ActiveRuns(g, K), NEW n
    PROVE  AfterFailure(g, r, n) \in Sound(g, K)
BY ActiveIsSound, AbortSound, TerminalFails DEF AfterFailure

LEMMA FailActiveRunSound ==
    ASSUME NEW g, NEW K, IsGraph(g), NEW r \in Sound(g, K), NEW n \in Nodes(g)
    PROVE  FailActiveRun(g, r, n) \in Sound(g, K)
<1>1. CASE ~Active(r)
  BY <1>1 DEF FailActiveRun
<1>2. CASE Active(r)
  <2>1. r \in ActiveRuns(g, K) /\ r.dag \in Engines(g)
    BY <1>2, ActiveIsSound, ActiveFields
  <2>2. [r EXCEPT !.dag = FailNode(g, r.dag, n)] \in ActiveRuns(g, K)
    BY <2>1, FailNodeTyped, DagReplaced
  <2>3. AfterFailure(g, SkipStalled([r EXCEPT !.dag = FailNode(g, r.dag, n)]), n)
           \in Sound(g, K)
    BY <2>2, SkipStalledActive, AfterFailureSound
  <2> QED BY <1>2, <2>3 DEF FailActiveRun
<1> QED BY <1>1, <1>2

LEMMA CommitHandoffActive ==
    ASSUME NEW g, NEW K, IsGraph(g), NEW r \in ActiveRuns(g, K), NEW n \in Nodes(g),
           NEW port \in Ports
    PROVE  CommitHandoff(g, r, n, port) \in ActiveRuns(g, K)
<1> DEFINE d == Handoff(g, r.dag, n, port)
           trav == [e \in Backward(g) |-> IF e.from = n /\ e.port = port
                                          THEN r.counters.traversals[e] + 1
                                          ELSE r.counters.traversals[e]]
           history == r.history \cup {<<n, port>>}
           q == [r EXCEPT !.dag = d, !.history = history, !.commands = @ \ {n},
                          !.counters.traversals = trav]
<1>1. r \in Runs(g, K) /\ r.status = "active" /\ d \in Engines(g) /\ d \in AnyEngines(g)
  BY ActiveFields, HandoffTyped, EnginesAny
<1> HIDE DEF d
<1>2. trav \in [Backward(g) -> Nat] /\ DOMAIN r.counters.traversals = Backward(g)
  BY <1>1 DEF Runs, Counters
<1> HIDE DEF trav
<1>3. [r.counters EXCEPT !.traversals = trav] \in Counters(g)
  BY <1>1, <1>2 DEF Runs, Counters
<1>4. history \in SUBSET (Nodes(g) \X Ports)
  BY <1>1 DEF Runs
<1> HIDE DEF history
<1>5. r.commands \ {n} \in SUBSET Agents(g)
  BY <1>1 DEF Runs
<1>6. q \in ActiveRuns(g, K)
  BY <1>1, <1>3, <1>4, <1>5 DEF ActiveRuns, Runs
<1> QED BY <1>2, <1>6 DEF CommitHandoff, q, d, trav, history

LEMMA HandoffSound ==
    ASSUME NEW g, NEW K, IsGraph(g), NEW r \in ActiveRuns(g, K), NEW n \in Nodes(g),
           NEW port \in Ports
    PROVE  HandoffActiveRun(g, r, n, port) \in Sound(g, K)
<1>1. \A q \in ActiveRuns(g, K) : AfterHandoff(g, q, n, port) \in Sound(g, K)
  BY ActiveIsSound, AbortSound, CompleteSound DEF AfterHandoff
<1>2. Abort(r, {n}) \in Sound(g, K)
  BY ActiveIsSound, AbortSound
<1> QED BY <1>1, <1>2, CommitHandoffActive DEF HandoffActiveRun

LEMMA CorrectActive ==
    ASSUME NEW g, NEW K, IsGraph(g), NEW r \in ActiveRuns(g, K), NEW n \in Nodes(g),
           r.counters.corrections[n] < MaxCorrections
    PROVE  Correct(g, r, n) \in ActiveRuns(g, K)
<1> DEFINE e == ReopenSkipped(g, r.dag, n)
           d == [e EXCEPT !.state[n] = "READY", !.handed = @ \ {n}]
           corrections == [r.counters.corrections EXCEPT ![n] = @ + 1]
           q == [r EXCEPT !.counters.corrections = corrections,
                          !.seeded = @ \cup {n}, !.dag = d]
<1>1. r \in Runs(g, K) /\ r.status = "active" /\ e \in Engines(g)
  BY ActiveFields, ReopenSkippedTyped
<1> HIDE DEF e
<1>2. d \in Engines(g) /\ d \in AnyEngines(g)
  BY <1>1, EnginesAny DEF Engines, NodeStates
<1> HIDE DEF d
<1>3. r.counters.corrections \in [Nodes(g) -> 0 .. MaxCorrections]
  BY <1>1 DEF Runs, Counters
<1>4. corrections \in [Nodes(g) -> 0 .. MaxCorrections]
  BY <1>3, LimitsAssumption
<1> HIDE DEF corrections
<1>5. [r.counters EXCEPT !.corrections = corrections] \in Counters(g)
  BY <1>1, <1>4 DEF Runs, Counters
<1>6. r.seeded \cup {n} \in SUBSET Nodes(g)
  BY <1>1 DEF Runs
<1>7. q \in ActiveRuns(g, K)
  BY <1>1, <1>2, <1>5, <1>6 DEF ActiveRuns, Runs
<1>8. Correct(g, r, n) = q
  <2>1. DOMAIN r.counters = {"corrections", "iterations", "traversals"}
    BY <1>1 DEF Runs, Counters
  <2> QED BY <2>1 DEF Correct, q, d, e, corrections
<1> QED BY <1>7, <1>8

LEMMA TryCorrectSound ==
    ASSUME NEW g, NEW K, IsGraph(g), NEW r \in Sound(g, K), NEW n \in Nodes(g), NEW contract
    PROVE  TryCorrect(g, r, n, contract) \in Sound(g, K)
<1>1. CASE ~Active(r)
  BY <1>1 DEF TryCorrect
<1>2. CASE Active(r)
  <2>1. r \in ActiveRuns(g, K)
    BY <1>2, ActiveIsSound
  <2>2. FailActiveRun(g, r, n) \in Sound(g, K)
    BY FailActiveRunSound
  <2>3. HandoffActiveRun(g, r, n, "done") \in Sound(g, K)
    BY <2>1, HandoffSound DEF Ports
  <2>4. r.counters.corrections[n] < MaxCorrections => Correct(g, r, n) \in Sound(g, K)
    BY <2>1, CorrectActive, ActiveIsSound
  <2> QED BY <1>2, <2>2, <2>3, <2>4 DEF TryCorrect
<1> QED BY <1>1, <1>2

----------------------------------------------------------------------------
(* The dispatch pass *)

LEMMA CloseRoundSound ==
    ASSUME NEW g, NEW K, NEW r \in ActiveRuns(g, K), NEW n \in Nodes(g), g.kind[n] = "await"
    PROVE  CloseRound(r, n) \in Sound(g, K)
<1>1. CASE ~Quiescent(r, n)
  BY <1>1, ActiveIsSound DEF CloseRound
<1>2. CASE Quiescent(r, n)
  <2> DEFINE q == [r EXCEPT !.status = "waiting", !.dag.state[n] = "WAITING_FOR_COMMAND"]
  <2>1. /\ r \in Runs(g, K) /\ DOMAIN r.dag.state = Nodes(g)
        /\ \A m \in Nodes(g) \ {n} : r.dag.state[m] \in Settled
    BY <1>2, ActiveFields DEF Quiescent
  <2>2. /\ q \in Runs(g, K) /\ q.status = "waiting" /\ DOMAIN q.dag.state = Nodes(g)
        /\ \A m \in Nodes(g) : q.dag.state[m] = IF m = n THEN "WAITING_FOR_COMMAND"
                                                ELSE r.dag.state[m]
    BY <2>1 DEF Runs, AnyEngines, RunStates, NodeStates
  <2> HIDE DEF q
  <2>3. WaitsAtAwait(g, q) /\ EndedQuiet(g, q)
    BY <2>1, <2>2 DEF WaitsAtAwait, EndedQuiet, Ended, Settled
  <2>4. WaitingQuiet(g, q)
    BY <2>1, <2>2 DEF WaitingQuiet, Quiescent
  <2>5. q \in Sound(g, K)
    BY <2>2, <2>3, <2>4 DEF Sound
  <2> QED BY <1>2, <2>5 DEF CloseRound, q
<1> QED BY <1>1, <1>2

LEMMA CountIterationActive ==
    ASSUME NEW g, NEW K, NEW r \in ActiveRuns(g, K), NEW n \in Nodes(g), NEW passed
    PROVE  CountIteration(g, r, n, GatewayPort(g, r, n, passed)) \in ActiveRuns(g, K)
<1> DEFINE port == GatewayPort(g, r, n, passed)
<1>1. r \in Runs(g, K) /\ r.dag \in Engines(g) /\ r.status = "active"
  BY ActiveFields
<1>2. CASE ~LoopGateway(g, n)
  BY <1>2 DEF CountIteration
<1>3. CASE LoopGateway(g, n) /\ port = "continue"
  <2> DEFINE iterations == [r.counters.iterations EXCEPT ![n] = @ + 1]
  <2>1. ~(r.counters.iterations[n] >= MaxIterations)
    BY <1>3 DEF GatewayPort
  <2>2. r.counters.iterations \in [Nodes(g) -> 0 .. MaxIterations]
    BY <1>1 DEF Runs, Counters
  <2>3. iterations \in [Nodes(g) -> 0 .. MaxIterations]
    BY <2>1, <2>2, LimitsAssumption
  <2> HIDE DEF iterations
  <2>4. [r.counters EXCEPT !.iterations = iterations] \in Counters(g)
    BY <1>1, <2>3 DEF Runs, Counters
  <2>5. [r EXCEPT !.counters.iterations = iterations] \in ActiveRuns(g, K)
    BY <1>1, <2>4 DEF ActiveRuns, Runs
  <2> QED BY <1>3, <2>5 DEF CountIteration, iterations
<1>4. CASE LoopGateway(g, n) /\ port # "continue"
  <2>1. [r.dag EXCEPT !.loops = @ \ {n}] \in Engines(g)
    BY <1>1 DEF Engines
  <2>2. [r EXCEPT !.dag = [r.dag EXCEPT !.loops = @ \ {n}]] \in ActiveRuns(g, K)
    BY <2>1, DagReplaced
  <2> QED BY <1>4, <2>2 DEF CountIteration
<1> QED BY <1>2, <1>3, <1>4

LEMMA ExecuteGatewaySound ==
    ASSUME NEW g, NEW K, IsGraph(g), NEW r \in Sound(g, K), NEW n \in Nodes(g), NEW passed
    PROVE  ExecuteGateway(g, r, n, passed) \in Sound(g, K)
<1> DEFINE port == GatewayPort(g, r, n, passed)
<1>1. CASE ~Active(r)
  BY <1>1 DEF ExecuteGateway
<1>2. CASE Active(r)
  <2>1. r \in ActiveRuns(g, K)
    BY <1>2, ActiveIsSound
  <2>2. g.kind[n] = "await" => CloseRound(r, n) \in Sound(g, K)
    BY <2>1, CloseRoundSound
  <2>3. port \in Ports
    BY DEF GatewayPort, Ports, FailurePort
  <2>4. CountIteration(g, r, n, port) \in ActiveRuns(g, K)
    BY <2>1, CountIterationActive
  <2> HIDE DEF port
  <2>5. \A q \in ActiveRuns(g, K) : LeaveGateway(g, q, n, port) \in Sound(g, K)
    BY <2>3, ActiveIsSound, FailActiveRunSound, HandoffSound DEF LeaveGateway
  <2> QED BY <1>2, <2>2, <2>4, <2>5 DEF ExecuteGateway, port
<1> QED BY <1>1, <1>2

Prompts(g) == [node : Agents(g), round : 1 .. MaxRounds]

PassStates(g, K) == [run : Sound(g, K), prov : SUBSET Agents(g), wait : SUBSET Agents(g),
                  sent : SUBSET Prompts(g), done : BOOLEAN]

LEMMA SendSound ==
    ASSUME NEW g, NEW K, NEW r \in Sound(g, K), Active(r), NEW n \in Nodes(g)
    PROVE  Send(r, n) \in Sound(g, K)
<1>1. r \in ActiveRuns(g, K)
  BY ActiveIsSound
<1>2. [r.dag EXCEPT !.state[n] = "RUNNING"] \in Engines(g)
  BY <1>1, ActiveFields, SetOneTyped DEF NodeStates
<1>3. [r EXCEPT !.dag = [r.dag EXCEPT !.state[n] = "RUNNING"]] \in ActiveRuns(g, K)
  BY <1>1, <1>2, DagReplaced
<1> QED BY <1>3, ActiveIsSound DEF Send

LEMMA PromptTyped ==
    ASSUME NEW g, NEW K \in SUBSET (1 .. MaxRounds), NEW r \in Sound(g, K), NEW n \in Agents(g)
    PROVE  Prompt(r, n) \in Prompts(g)
BY DEF Sound, Runs, Prompt, Prompts

LEMMA DispatchAgentSound ==
    ASSUME NEW g, NEW K \in SUBSET (1 .. MaxRounds), IsGraph(g), NEW p \in PassStates(g, K),
           NEW n \in Agents(g),
           NEW outcome \in {"sent", "provisioning", "deferred", "failed"}
    PROVE  DispatchAgent(g, p, n, outcome) \in PassStates(g, K)
<1> DEFINE waits == [p EXCEPT !.wait = @ \cup {n}]
           left  == [p EXCEPT !.wait = @ \ {n}]
           fails == ~Active(p.run) \/ p.run.dag.state[n] # "READY"
           sent  == [left EXCEPT !.run = Send(p.run, n), !.sent = @ \cup {Prompt(p.run, n)}]
<1>1. n \in Nodes(g) /\ p.run \in Sound(g, K)
  BY DEF Agents, PassStates
<1>2. waits \in PassStates(g, K) /\ left \in PassStates(g, K) /\ left.run = p.run
  BY DEF PassStates
<1>3. \A q \in PassStates(g, K), r \in Sound(g, K) : [q EXCEPT !.run = r] \in PassStates(g, K)
  BY DEF PassStates
<1>4. FailActiveRun(g, p.run, n) \in Sound(g, K)
  BY <1>1, FailActiveRunSound
<1>5. [p EXCEPT !.run = FailActiveRun(g, p.run, n)] \in PassStates(g, K)
  BY <1>3, <1>4
<1>6. [left EXCEPT !.run = FailActiveRun(g, p.run, n)] \in PassStates(g, K)
  BY <1>2, <1>3, <1>4
<1>7. ~fails => sent \in PassStates(g, K)
  <2> SUFFICES ASSUME Active(p.run) PROVE sent \in PassStates(g, K)
    OBVIOUS
  <2>1. Send(p.run, n) \in Sound(g, K) /\ Prompt(p.run, n) \in Prompts(g)
    BY <1>1, SendSound, PromptTyped
  <2> QED BY <2>1 DEF PassStates
<1>8. [left EXCEPT !.prov = @ \cup {n}] \in PassStates(g, K)
  BY DEF PassStates
<1>9. DispatchAgent(g, p, n, outcome) \in
         {p, [p EXCEPT !.run = FailActiveRun(g, p.run, n)], left,
          [left EXCEPT !.prov = @ \cup {n}], waits,
          [left EXCEPT !.run = FailActiveRun(g, p.run, n)]}
          \cup (IF fails THEN {} ELSE {sent})
  BY <1>2 DEF DispatchAgent
<1> QED BY <1>2, <1>5, <1>6, <1>7, <1>8, <1>9

LEMMA DispatchNodeSound ==
    ASSUME NEW g, NEW K \in SUBSET (1 .. MaxRounds), IsGraph(g), NEW p \in PassStates(g, K),
           NEW n \in Nodes(g),
           NEW outcome \in Outcomes(g, n)
    PROVE  DispatchNode(g, p, n, outcome) \in PassStates(g, K)
<1>1. CASE Gateway(g, n)
  <2> DEFINE r == ExecuteGateway(g, p.run, n, outcome = "passed")
  <2>1. r \in Sound(g, K)
    BY ExecuteGatewaySound DEF PassStates
  <2> HIDE DEF r
  <2>2. [p EXCEPT !.run = r, !.done = ~Active(r)] \in PassStates(g, K)
    BY <2>1 DEF PassStates, Active
  <2> QED BY <1>1, <2>2 DEF DispatchNode, r
<1>2. CASE ~Gateway(g, n)
  BY <1>2, DispatchAgentSound DEF DispatchNode, Outcomes, Agents
<1> QED BY <1>1, <1>2

LEMMA DispatchPassSound ==
    ASSUME NEW g, NEW K \in SUBSET (1 .. MaxRounds), IsGraph(g), run \in Sound(g, K),
           provisioning \in SUBSET Agents(g), deferred \in SUBSET Agents(g),
           executing \in SUBSET Prompts(g), NEW outcome,
           \A n \in Ready(run.dag) : outcome[n] \in Outcomes(g, n)
    PROVE  DispatchPass(g, outcome) \in PassStates(g, K)
<1> DEFINE start == [run |-> run, prov |-> provisioning, wait |-> deferred,
                     sent |-> executing, done |-> FALSE]
           X == PassStates(g, K)
           N == g.size
           Step(e, i) == IF i \in Ready(run.dag)
                         THEN IF e.done THEN e ELSE DispatchNode(g, e, i, outcome[i])
                         ELSE e
           F == [i \in 1 .. N |-> [e \in X |-> Step(e, i)]]
           Body(h) == [i \in 0 .. N |-> IF i = 0 THEN start ELSE Step(h[i - 1], i)]
           upTo == CHOOSE h : h = Body(h)
<1>1. N \in Nat /\ start \in X
  BY DEF IsGraph, PassStates
<1>2. IsStep(F, N, X)
  BY DispatchNodeSound DEF IsStep, Nodes
<1>3. DispatchPass(g, outcome) = upTo[N]
  BY DEF DispatchPass, ForEach
<1> HIDE DEF Step, X, N, start
<1>4. ASSUME NEW f, IsIteration(f, F, N, X, start) PROVE Follows(upTo, F, N, X)
  <2>1. f = Body(f)
    <3> HIDE DEF F
    <3>1. \A i \in 1 .. N : F[i][f[i - 1]] = Step(f[i - 1], i)
      BY <1>1, <1>4, IterationUnfolds DEF F
    <3> QED BY <1>1, <1>4, <3>1, IterationUnfolds
  <2>2. upTo = Body(upTo)
    <3> HIDE DEF Body
    <3> QED BY <2>1
  <2> HIDE DEF upTo
  <2> QED BY <1>1, <2>2 DEF Follows
<1> HIDE DEF F, upTo
<1>5. upTo[N] \in X
  BY <1>1, <1>2, <1>4, Recursion
<1> QED BY <1>3, <1>5 DEF X

----------------------------------------------------------------------------
(* Recovery *)

(* The failures of FailAll, one after the other.                           *)
LEMMA FailAllIterates ==
    ASSUME NEW g, NEW K, IsGraph(g), NEW r \in ActiveRuns(g, K), NEW S
    PROVE  \E f : /\ FailAll(g, r, S) = f[g.size]
                  /\ f[0] = r
                  /\ \A i \in 1 .. g.size :
                        f[i] = IF i \in S
                               THEN [f[i - 1] EXCEPT !.dag = FailNode(g, f[i - 1].dag, i)]
                               ELSE f[i - 1]
                  /\ f[g.size] \in ActiveRuns(g, K)
<1> DEFINE X == ActiveRuns(g, K)
           N == g.size
           Step(e, i) == IF i \in S THEN [e EXCEPT !.dag = FailNode(g, e.dag, i)] ELSE e
           F == [i \in 1 .. N |-> [e \in X |-> Step(e, i)]]
           Body(h) == [i \in 0 .. N |-> IF i = 0 THEN r ELSE Step(h[i - 1], i)]
           upTo == CHOOSE h : h = Body(h)
<1>1. N \in Nat /\ r \in X
  BY DEF IsGraph
<1>2. IsStep(F, N, X)
  <2>1. ASSUME NEW e \in X, NEW i \in 1 .. N PROVE Step(e, i) \in X
    BY <2>1, ActiveFields, FailNodeTyped, DagReplaced DEF Nodes
  <2> QED BY <2>1 DEF IsStep
<1>3. FailAll(g, r, S) = upTo[N]
  BY DEF FailAll, ForEach
<1> HIDE DEF Step, X, N
<1>4. PICK f : IsIteration(f, F, N, X, r)
  <2> HIDE DEF F
  <2> QED BY <1>1, <1>2, Iterates
<1>5. f = Body(f)
  <2> HIDE DEF F
  <2>1. \A i \in 1 .. N : F[i][f[i - 1]] = Step(f[i - 1], i)
    BY <1>1, <1>4, IterationUnfolds DEF F
  <2> QED BY <1>1, <1>4, <2>1, IterationUnfolds
<1>6. upTo = Body(upTo)
  <2> HIDE DEF Body
  <2> QED BY <1>5
<1> HIDE DEF upTo
<1>7. upTo[0] = r /\ \A i \in 1 .. N : upTo[i] = Step(upTo[i - 1], i)
  BY <1>1, <1>6
<1>8. Follows(upTo, F, N, X)
  BY <1>1, <1>7 DEF Follows
<1> HIDE DEF F
<1>9. upTo[N] \in X
  BY <1>1, <1>2, <1>8, Stays
<1> QED BY <1>3, <1>7, <1>9 DEF Step, N, X

LEMMA FailAllActive ==
    ASSUME NEW g, NEW K, IsGraph(g), NEW r \in ActiveRuns(g, K), NEW S
    PROVE  FailAll(g, r, S) \in ActiveRuns(g, K)
BY FailAllIterates

LEMMA ReconcileFailedActive ==
    ASSUME NEW g, NEW K, IsGraph(g), NEW r \in ActiveRuns(g, K)
    PROVE  ReconcileFailed(g, r) \in ActiveRuns(g, K)
<1> DEFINE X == ActiveRuns(g, K)
           N == g.size
           Step(e, i) == IF i \in In(r, {"FAILED"})
                         THEN [e EXCEPT !.dag = SkipDependentsOfFailed(g, @, i)]
                         ELSE e
           F == [i \in 1 .. N |-> [e \in X |-> Step(e, i)]]
           Body(h) == [i \in 0 .. N |-> IF i = 0 THEN r ELSE Step(h[i - 1], i)]
           upTo == CHOOSE h : h = Body(h)
<1>1. N \in Nat /\ r \in X
  BY DEF IsGraph
<1>2. IsStep(F, N, X)
  <2>1. ASSUME NEW e \in X, NEW i \in 1 .. N PROVE Step(e, i) \in X
    BY <2>1, ActiveFields, SkipTyped, DagReplaced
  <2> QED BY <2>1 DEF IsStep
<1>3. ReconcileFailed(g, r) = upTo[N]
  BY DEF ReconcileFailed, ForEach
<1> HIDE DEF Step, X, N
<1>4. ASSUME NEW f, IsIteration(f, F, N, X, r) PROVE Follows(upTo, F, N, X)
  <2>1. f = Body(f)
    <3> HIDE DEF F
    <3>1. \A i \in 1 .. N : F[i][f[i - 1]] = Step(f[i - 1], i)
      BY <1>1, <1>4, IterationUnfolds DEF F
    <3> QED BY <1>1, <1>4, <3>1, IterationUnfolds
  <2>2. upTo = Body(upTo)
    <3> HIDE DEF Body
    <3> QED BY <2>1
  <2> HIDE DEF upTo
  <2> QED BY <1>1, <2>2 DEF Follows
<1> HIDE DEF F, upTo
<1>5. upTo[N] \in X
  BY <1>1, <1>2, <1>4, Recursion
<1> QED BY <1>3, <1>5 DEF X

LEMMA RecoverSound ==
    ASSUME NEW g, NEW K, IsGraph(g), NEW r \in Sound(g, K)
    PROVE  Recover(g, r) \in Sound(g, K)
<1> DEFINE lost     == ReconcileFailed(g, FailAll(g, r, In(r, {"RUNNING"}) \ r.dag.loops))
           stranded == {n \in Nodes(g) : /\ RunningLoop(lost.dag, n)
                                         /\ n \notin LiveSources(g, lost)}
           settled  == SkipStalled(ReconcileFailed(g, FailAll(g, lost, stranded)))
           last     == [settled EXCEPT !.dag = ReconcileSettled(g, @)]
<1>1. CASE ~Active(r)
  BY <1>1 DEF Recover
<1>2. CASE Active(r)
  <2>1. r \in ActiveRuns(g, K)
    BY <1>2, ActiveIsSound
  <2>2. lost \in ActiveRuns(g, K)
    BY <2>1, FailAllActive, ReconcileFailedActive
  <2> HIDE DEF lost
  <2>3. settled \in ActiveRuns(g, K)
    BY <2>2, FailAllActive, ReconcileFailedActive, SkipStalledActive
  <2> HIDE DEF settled
  <2>4. last \in ActiveRuns(g, K)
    BY <2>3, ActiveFields, ReconcileSettledTyped, DagReplaced
  <2> HIDE DEF last
  <2>5. IsRunTerminal(settled.dag) => [settled EXCEPT !.status = "failed"] \in Sound(g, K)
    BY <2>3, TerminalFails
  <2>6. IsRunTerminal(last.dag) => CompleteRun(last) \in Sound(g, K)
    BY <2>4, CompleteSound
  <2>7. last \in Sound(g, K)
    BY <2>4, ActiveIsSound
  <2> QED BY <1>2, <2>5, <2>6, <2>7 DEF Recover, last, settled, lost
<1> QED BY <1>1, <1>2


----------------------------------------------------------------------------
(* Rounds *)

(* What one iteration of RoundNodes makes of T.                            *)
RoundStep(g, waits, T) ==
    T \cup {n \in Nodes(g) : Gateway(g, n) /\ Predecessors(g, n) \cap (T \ waits) # {}}

LEMMA RoundNodesIterate ==
    ASSUME NEW g, IsGraph(g), NEW r, NEW S \in SUBSET Nodes(g)
    PROVE  \E f : /\ RoundNodes(g, r, S) = f[g.size]
                  /\ f[0] = S
                  /\ \A i \in 1 .. g.size :
                        f[i] = RoundStep(g, In(r, {"WAITING_FOR_COMMAND"}), f[i - 1])
<1> DEFINE X == SUBSET Nodes(g)
           N == g.size
           waits == In(r, {"WAITING_FOR_COMMAND"})
           Step(e) == RoundStep(g, waits, e)
           F == [i \in 1 .. N |-> [e \in X |-> Step(e)]]
           Body(h) == [i \in 0 .. N |-> IF i = 0 THEN S ELSE Step(h[i - 1])]
           grown == CHOOSE h : h = Body(h)
<1>1. N \in Nat /\ S \in X
  BY DEF IsGraph
<1>2. IsStep(F, N, X)
  BY DEF IsStep, RoundStep
<1>3. RoundNodes(g, r, S) = grown[N]
  BY DEF RoundNodes, Closure, RoundStep
<1> HIDE DEF Step, X, N
<1>4. PICK f : IsIteration(f, F, N, X, S)
  <2> HIDE DEF F
  <2> QED BY <1>1, <1>2, Iterates
<1>5. f = Body(f)
  <2> HIDE DEF F
  <2>1. \A i \in 1 .. N : F[i][f[i - 1]] = Step(f[i - 1])
    BY <1>1, <1>4, IterationUnfolds DEF F
  <2> QED BY <1>1, <1>4, <2>1, IterationUnfolds
<1>6. grown = Body(grown)
  <2> HIDE DEF Body
  <2> QED BY <1>5
<1> HIDE DEF grown, F
<1>7. grown[0] = S /\ \A i \in 1 .. N : grown[i] = Step(grown[i - 1])
  BY <1>1, <1>6
<1> QED BY <1>3, <1>7 DEF Step, N

(* More commanded actors, more nodes of the round.                         *)
LEMMA RoundNodesGrow ==
    ASSUME NEW g, IsGraph(g), NEW r, NEW S \in SUBSET Nodes(g), NEW R \in SUBSET S
    PROVE  RoundNodes(g, r, R) \subseteq RoundNodes(g, r, S)
<1> DEFINE Step(T) == RoundStep(g, In(r, {"WAITING_FOR_COMMAND"}), T)
<1>1. PICK f : /\ RoundNodes(g, r, S) = f[g.size] /\ f[0] = S
               /\ \A i \in 1 .. g.size : f[i] = Step(f[i - 1])
  BY RoundNodesIterate
<1>2. PICK h : /\ RoundNodes(g, r, R) = h[g.size] /\ h[0] = R
               /\ \A i \in 1 .. g.size : h[i] = Step(h[i - 1])
  BY RoundNodesIterate
<1>3. \A T, U : T \subseteq U => Step(T) \subseteq Step(U)
  BY DEF RoundStep
<1> HIDE DEF Step
<1> DEFINE B == {n \in Nat : n <= g.size => h[n] \subseteq f[n]}
<1>4. g.size \in Nat
  BY DEF IsGraph
<1>5. 0 \in B
  BY <1>1, <1>2
<1>6. ASSUME NEW n \in Nat, n \in B PROVE n + 1 \in B
  <2> SUFFICES ASSUME n + 1 <= g.size PROVE h[n + 1] \subseteq f[n + 1]
    OBVIOUS
  <2>1. n + 1 \in 1 .. g.size /\ (n + 1) - 1 = n /\ h[n] \subseteq f[n]
    BY <1>4, <1>6
  <2>2. f[n + 1] = Step(f[n]) /\ h[n + 1] = Step(h[n])
    BY <1>1, <1>2, <2>1
  <2> QED BY <1>3, <2>1, <2>2
<1> HIDE DEF B
<1>7. g.size \in B
  BY <1>4, <1>5, <1>6, SetInduction
<1> QED BY <1>1, <1>2, <1>4, <1>7 DEF B

LEMMA RoundNodesCover ==
    ASSUME NEW g, IsGraph(g), NEW r, NEW S \in SUBSET Nodes(g)
    PROVE  S \subseteq RoundNodes(g, r, S)
<1>1. PICK f : /\ RoundNodes(g, r, S) = f[g.size] /\ f[0] = S
               /\ \A i \in 1 .. g.size :
                     f[i] = RoundStep(g, In(r, {"WAITING_FOR_COMMAND"}), f[i - 1])
  BY RoundNodesIterate
<1>2. \A i \in 1 .. g.size : f[i - 1] \subseteq f[i]
  BY <1>1 DEF RoundStep
<1> DEFINE B == {n \in Nat : n <= g.size => S \subseteq f[n]}
<1>3. g.size \in Nat
  BY DEF IsGraph
<1>4. 0 \in B
  BY <1>1
<1>5. ASSUME NEW n \in Nat, n \in B PROVE n + 1 \in B
  <2> SUFFICES ASSUME n + 1 <= g.size PROVE S \subseteq f[n + 1]
    OBVIOUS
  <2>1. n + 1 \in 1 .. g.size /\ (n + 1) - 1 = n /\ S \subseteq f[n]
    BY <1>3, <1>5
  <2>2. f[n] \subseteq f[n + 1]
    BY <1>2, <2>1
  <2> QED BY <2>1, <2>2
<1> HIDE DEF B
<1>6. g.size \in B
  BY <1>3, <1>4, <1>5, SetInduction
<1> QED BY <1>1, <1>3, <1>6 DEF B

(* A round takes in the node the run waits at.                             *)
LEMMA RoundTakesWaiting ==
    ASSUME NEW g, NEW K, IsGraph(g), NEW r \in Sound(g, K), r.status = "waiting",
           NEW S \in SUBSET Nodes(g), S # {}, \A n \in S : Reaches(g, r, n)
    PROVE  \A n \in Nodes(g) : r.dag.state[n] = "WAITING_FOR_COMMAND" =>
                                  n \in RoundNodes(g, r, S)
<1>1. PICK w \in Nodes(g) : r.dag.state[w] = "WAITING_FOR_COMMAND" /\ Quiescent(r, w)
  BY DEF Sound, WaitingQuiet
<1>2. DOMAIN r.dag.state = Nodes(g)
  BY DEF Sound, Runs, AnyEngines
<1>3. In(r, {"WAITING_FOR_COMMAND"}) = {w}
  BY <1>1, <1>2 DEF In, Quiescent, Settled
<1>4. PICK n \in S : w \in RoundNodes(g, r, {n})
  BY <1>3 DEF Reaches
<1>5. w \in RoundNodes(g, r, S)
  <2>1. {n} \in SUBSET S
    OBVIOUS
  <2> QED BY <1>4, <2>1, RoundNodesGrow
<1> QED BY <1>2, <1>3, <1>5 DEF In

LEMMA InitialCountersTyped ==
    ASSUME NEW g
    PROVE  InitialCounters(g) \in Counters(g)
BY LimitsAssumption DEF InitialCounters, Counters

LEMMA NewRunSound ==
    ASSUME NEW g, IsGraph(g), NEW seeded \in SUBSET Nodes(g)
    PROVE  NewRun(g, seeded) \in ActiveRuns(g, {1})
<1> DEFINE e == NewEngine(g)
           c == InitialCounters(g)
<1>1. e \in Engines(g) /\ e \in AnyEngines(g) /\ c \in Counters(g)
  BY NewEngineTyped, EnginesAny, InitialCountersTyped
<1> HIDE DEF e, c
<1>2. [dag |-> e, status |-> "active", counters |-> c, round |-> 1, history |-> {},
       seeded |-> seeded, commands |-> {}] \in ActiveRuns(g, {1})
  BY <1>1 DEF ActiveRuns, Runs, RunStates
<1> QED BY <1>2 DEF NewRun, e, c

(* The round that is opened, and what there is to do in it.                *)
LEMMA ResumeSound ==
    ASSUME NEW S \in SUBSET Nodes(graph), IsGraph(graph), NEW K, run \in Sound(graph, K),
           S # {}, Resume(S)
    PROVE  /\ run' \in ActiveRuns(graph, {run.round + 1})
           /\ run.round < MaxRounds
           /\ \E n \in Nodes(graph) : run'.dag.state[n] \in {"PENDING", "READY"}
<1> DEFINE nodes == RoundNodes(graph, run, S)
           carried == [n \in Nodes(graph) |-> Carried(graph, run, nodes, n)]
           d == ResetForRound(graph, run.dag, nodes, carried)
           c == InitialCounters(graph)
           q == [run EXCEPT !.status = "active", !.round = @ + 1, !.counters = c,
                            !.seeded = @ \cup S, !.commands = S, !.dag = d]
<1>1. /\ run.status = "waiting" /\ run.round < MaxRounds
      /\ \A n \in S : ~Gateway(graph, n) /\ Reaches(graph, run, n)
      /\ run \in Runs(graph, K)
  BY DEF Resume, Sound
<1>2. carried \in Mailboxes(graph)
  BY DEF Carried, Mailboxes, RouteSources, IsGraph, RoutesTo
<1> HIDE DEF carried
<1>3. \A n \in Nodes(graph) : run.dag.state[n] = "WAITING_FOR_COMMAND" => n \in nodes
  BY <1>1, RoundTakesWaiting
<1>4. S \subseteq nodes
  BY RoundNodesCover
<1> HIDE DEF nodes
<1>5. run.dag \in AnyEngines(graph)
  BY <1>1 DEF Runs
<1>6. /\ d \in Engines(graph) /\ d \in AnyEngines(graph)
      /\ \A n \in nodes \cap Nodes(graph) : d.state[n] \in {"PENDING", "READY"}
  BY <1>2, <1>3, <1>5, ResetForRoundTyped, EnginesAny
<1> HIDE DEF d
<1>7. c \in Counters(graph)
  BY InitialCountersTyped
<1> HIDE DEF c
<1>8. S \in SUBSET Agents(graph) /\ run.seeded \cup S \in SUBSET Nodes(graph)
  BY <1>1 DEF Agents, Runs
<1>9. q \in ActiveRuns(graph, {run.round + 1}) /\ q.dag = d
  BY <1>1, <1>6, <1>7, <1>8 DEF ActiveRuns, Runs, RunStates
<1>10. run' = q
  BY DEF Resume, q, d, carried, nodes, c
<1> HIDE DEF q
<1>11. PICK n \in S : n \in Nodes(graph) /\ n \in nodes
  BY <1>4
<1> QED BY <1>1, <1>6, <1>9, <1>10, <1>11

----------------------------------------------------------------------------
(* The invariant *)

Rounds == 1 .. MaxRounds

TypedState ==
    /\ graph \in Graphs
    /\ run \in Sound(graph, Rounds)
    /\ passes \in 0 .. 2 * graph.size
    /\ provisioning \in SUBSET Agents(graph)
    /\ deferred \in SUBSET Agents(graph)
    /\ executing \in SUBSET Prompts(graph)
    /\ workerless \in BOOLEAN
    /\ restarts \in 0 .. MaxRestarts

LEMMA RoundsOfSound ==
    ASSUME NEW g, NEW K, NEW r
    PROVE  /\ r \in Sound(g, K) => r.round \in K /\ r \in Sound(g, {r.round})
           /\ \A L \in SUBSET K : r \in Sound(g, L) => r \in Sound(g, K)
BY DEF Sound, Runs

LEMMA TickTyped ==
    ASSUME NEW g, NEW K, IsGraph(g), NEW r \in Sound(g, K)
    PROVE  Tick(r) \in 0 .. 2 * g.size
<1>1. g.size \in Nat
  BY DEF IsGraph
<1>2. Cardinality(1 .. g.size) = g.size
  BY <1>1, FS_Interval
<1>3. DOMAIN r.dag.state = 1 .. g.size
  BY DEF Sound, Runs, AnyEngines, Nodes
<1> QED BY <1>1, <1>2, <1>3 DEF Tick

LEMMA InitSound ==
    ASSUME Init
    PROVE  graph \in Graphs /\ IsGraph(graph) /\ run \in ActiveRuns(graph, {1})
<1>1. graph \in Graphs /\ IsGraph(graph)
  BY GraphsAssumption DEF Init
<1>2. PICK seeded \in {{}, Ready(NewEngine(graph))} : run = NewRun(graph, seeded)
  BY DEF Init
<1>3. Ready(NewEngine(graph)) \subseteq Nodes(graph)
  BY DEF Ready, NewEngine
<1>4. seeded \in SUBSET Nodes(graph)
  BY <1>2, <1>3
<1> QED BY <1>1, <1>2, <1>4, NewRunSound

LEMMA TypedInit == Init => TypedState
<1> SUFFICES ASSUME Init PROVE TypedState
  OBVIOUS
<1>1. graph \in Graphs /\ IsGraph(graph) /\ run \in Sound(graph, {1})
  BY InitSound, ActiveIsSound
<1>2. run \in Sound(graph, Rounds)
  <2>1. {1} \in SUBSET Rounds
    BY BoundsAssumption DEF Rounds
  <2> QED BY <1>1, <2>1, RoundsOfSound
<1>3. passes \in 0 .. 2 * graph.size
  BY <1>1, TickTyped DEF Init
<1>4. restarts \in 0 .. MaxRestarts
  BY BoundsAssumption DEF Init
<1> QED BY <1>1, <1>2, <1>3, <1>4 DEF Init, TypedState

LEMMA AppliedSound ==
    ASSUME NEW g, NEW K, IsGraph(g), NEW r \in Sound(g, K), Active(r), NEW n \in Nodes(g),
           NEW port \in {"done", FailurePort, "rejected"}, NEW contract
    PROVE  Applied(g, r, n, port, contract) \in Sound(g, K)
<1>1. TryCorrect(g, r, n, contract) \in Sound(g, K)
  BY TryCorrectSound
<1>2. port # "rejected" => HandoffActiveRun(g, r, n, port) \in Sound(g, K)
  BY ActiveIsSound, HandoffSound DEF Ports
<1> QED BY <1>1, <1>2 DEF Applied

(* The rounds of a run: a step stays in the round it is in, or opens one.  *)
Opens == \E S \in SUBSET Nodes(graph) : S # {} /\ Resume(S)

LEMMA TypedStep ==
    ASSUME TypedState, [Next]_vars
    PROVE  TypedState' /\ graph' = graph /\ (run' \in Sound(graph, {run.round}) \/ Opens)
<1> DEFINE Here == Sound(graph, {run.round})
           Goal == TypedState' /\ graph' = graph /\ (run' \in Here \/ Opens)
<1>1. /\ IsGraph(graph) /\ graph.size \in Nat /\ graph \in Graphs
      /\ run \in Here /\ {run.round} \in SUBSET Rounds
      /\ run.dag \in AnyEngines(graph) /\ DOMAIN run.dag.state = Nodes(graph)
      /\ passes \in 0 .. 2 * graph.size
      /\ provisioning \in SUBSET Agents(graph) /\ deferred \in SUBSET Agents(graph)
      /\ executing \in SUBSET Prompts(graph)
      /\ workerless \in BOOLEAN /\ restarts \in 0 .. MaxRestarts
      /\ Agents(graph) \subseteq Nodes(graph)
      /\ \A e \in executing : e.node \in Agents(graph)
  <2>1. run \in Here /\ run.round \in Rounds
    BY RoundsOfSound DEF TypedState
  <2>2. run.dag \in AnyEngines(graph)
    BY <2>1 DEF Sound, Runs
  <2>3. DOMAIN run.dag.state = Nodes(graph)
    BY <2>2 DEF AnyEngines
  <2> QED BY <2>1, <2>2, <2>3, GraphsAssumption DEF TypedState, IsGraph, Agents, Prompts
<1>2. \A n \in Nodes(graph) : FailActiveRun(graph, run, n) \in Here
  BY <1>1, FailActiveRunSound
<1>3. ASSUME NEW K, run' \in Sound(graph, K) PROVE Tick(run') \in 0 .. 2 * graph.size
  BY <1>1, <1>3, TickTyped
<1>4. Tick(run) \in 0 .. 2 * graph.size /\ 0 \in 0 .. 2 * graph.size
  BY <1>1, TickTyped
<1>5. ASSUME graph' = graph, run' \in Here, passes' \in 0 .. 2 * graph.size,
             provisioning' \in SUBSET Agents(graph), deferred' \in SUBSET Agents(graph),
             executing' \in SUBSET Prompts(graph), workerless' \in BOOLEAN,
             restarts' \in 0 .. MaxRestarts
      PROVE  Goal
  <2>1. run' \in Sound(graph, Rounds)
    BY <1>1, <1>5, RoundsOfSound
  <2> QED BY <1>1, <1>5, <2>1 DEF TypedState
<1>6. CASE DispatchReadyNodes
  <2>1. PICK outcome :
           /\ \A n \in Ready(run.dag) : outcome[n] \in Outcomes(graph, n)
           /\ \E pass \in {DispatchPass(graph, outcome)} :
                /\ run' = pass.run
                /\ provisioning' = pass.prov
                /\ deferred' = pass.wait
                /\ executing' = pass.sent
                /\ passes' = IF Active(pass.run) /\ pass.run # run THEN passes - 1 ELSE 0
    BY <1>6, Zenon DEF DispatchReadyNodes
  <2>2. DispatchPass(graph, outcome) \in PassStates(graph, {run.round})
    BY <1>1, <2>1, DispatchPassSound DEF Rounds
  <2>3. PICK pass \in PassStates(graph, {run.round}) :
                /\ run' = pass.run
                /\ provisioning' = pass.prov
                /\ deferred' = pass.wait
                /\ executing' = pass.sent
                /\ passes' = IF Active(pass.run) /\ pass.run # run THEN passes - 1 ELSE 0
    BY <2>1, <2>2
  <2>4. /\ run' \in Here
        /\ provisioning' \in SUBSET Agents(graph) /\ deferred' \in SUBSET Agents(graph)
        /\ executing' \in SUBSET Prompts(graph)
    BY <2>3 DEF PassStates
  <2>5. passes > 0 /\ graph' = graph /\ workerless' = workerless /\ restarts' = restarts
    BY <1>6 DEF DispatchReadyNodes
  <2>6. passes' \in 0 .. 2 * graph.size
    BY <1>1, <2>3, <2>5
  <2> QED BY <1>1, <1>5, <2>4, <2>5, <2>6
<1>7. ASSUME NEW n \in provisioning, Provisioned(n) PROVE Goal
  <2>1. n \in Agents(graph) /\ n \in Nodes(graph)
    BY <1>1
  <2>2. Prompt(run, n) \in Prompts(graph) /\ (Active(run) => Send(run, n) \in Here)
    BY <1>1, <2>1, SendSound, PromptTyped DEF Rounds
  <2>3. run' \in Here
    BY <1>1, <1>2, <1>7, <2>1, <2>2 DEF Provisioned
  <2>4. executing' \in SUBSET Prompts(graph) /\ deferred' \in SUBSET Agents(graph)
        /\ provisioning' \in SUBSET Agents(graph)
    BY <1>1, <1>7, <2>1, <2>2 DEF Provisioned
  <2> QED BY <1>1, <1>5, <1>7, <2>3, <2>4 DEF Provisioned
<1>8. ASSUME NEW n \in provisioning, ProvisioningFails(n) PROVE Goal
  <2>1. run' \in Here /\ provisioning' \in SUBSET Agents(graph)
    BY <1>1, <1>2, <1>8 DEF ProvisioningFails
  <2> QED BY <1>1, <1>5, <1>8, <2>1 DEF ProvisioningFails
<1>9. CASE RetryDeferred
  <2>1. passes' \in 0 .. 2 * graph.size
    <3>1. ASSUME NEW n \in deferred PROVE graph.size >= 1
      BY <1>1, <3>1 DEF Nodes
    <3> QED BY <1>1, <1>9, <3>1 DEF RetryDeferred
  <2> QED BY <1>1, <1>5, <1>9, <2>1 DEF RetryDeferred
<1>10. CASE FirstWorkerRegisters
  BY <1>1, <1>4, <1>5, <1>10 DEF FirstWorkerRegisters
<1>11. ASSUME NEW n \in Nodes(graph), WorkerLost(n) PROVE Goal
  <2>1. run' \in Here /\ executing' \in SUBSET Prompts(graph)
    BY <1>1, <1>2, <1>11 DEF WorkerLost
  <2>2. passes' \in 0 .. 2 * graph.size
    BY <1>3, <1>11, <2>1 DEF WorkerLost
  <2> QED BY <1>1, <1>5, <1>11, <2>1, <2>2 DEF WorkerLost
<1>12. ASSUME NEW e \in executing, NEW port \in {"done", FailurePort, "rejected"},
              NEW contract, Answer(e, port, contract)
       PROVE  Goal
  <2>1. Current(run, e) => Applied(graph, run, e.node, port, contract) \in Here
    BY <1>1, AppliedSound DEF Current
  <2>2. run' \in Here /\ executing' \in SUBSET Prompts(graph)
    BY <1>1, <1>12, <2>1 DEF Answer
  <2>3. passes' \in 0 .. 2 * graph.size
    BY <1>3, <1>4, <1>12, <2>2 DEF Answer
  <2> QED BY <1>1, <1>5, <1>12, <2>2, <2>3 DEF Answer, manager
<1>13. CASE Cancel
  <2>1. run' \in Here
    BY <1>1, <1>13, CancelSound DEF Cancel
  <2> QED BY <1>1, <1>5, <1>13, <2>1 DEF Cancel, manager
<1>14. CASE Complete
  <2>1. run' \in Here
    BY <1>1, <1>14, WaitingEnds DEF Complete, CompleteRun
  <2> QED BY <1>1, <1>5, <1>14, <2>1 DEF Complete, manager
<1>15. CASE Expire
  <2>1. run' \in Here
    BY <1>1, <1>15, WaitingEnds DEF Expire, ExpireRun
  <2> QED BY <1>1, <1>5, <1>15, <2>1 DEF Expire, manager
<1>16. ASSUME NEW S \in SUBSET Nodes(graph), S # {}, Resume(S) PROVE Goal
  <2>1. run' \in Sound(graph, {run.round + 1}) /\ run.round < MaxRounds
    BY <1>1, <1>16, ResumeSound, ActiveIsSound
  <2>2. {run.round + 1} \in SUBSET Rounds
    BY <1>1, <2>1, BoundsAssumption DEF Rounds
  <2>3. run' \in Sound(graph, Rounds)
    BY <2>1, <2>2, RoundsOfSound
  <2>4. passes' \in 0 .. 2 * graph.size
    BY <1>3, <1>16, <2>1 DEF Resume
  <2>5. TypedState' /\ graph' = graph
    BY <1>1, <1>16, <2>3, <2>4 DEF Resume, TypedState, manager
  <2> QED BY <1>16, <2>5 DEF Opens
<1>17. ASSUME NEW r \in Here, Restart(r) PROVE Goal
  <2>1. run' \in Here
    BY <1>1, <1>17, RecoverSound DEF Restart
  <2>2. restarts' \in 0 .. MaxRestarts
    BY <1>1, <1>17, BoundsAssumption DEF Restart
  <2> QED BY <1>1, <1>4, <1>5, <1>17, <2>1, <2>2 DEF Restart
<1>18. CASE Crash
  BY <1>1, <1>17, <1>18 DEF Crash
<1>19. ASSUME NEW e \in executing, NEW port \in {"done", FailurePort},
              CrashAfterHandoff(e, port)
       PROVE  Goal
  <2>1. Active(run) /\ e.node \in Nodes(graph) /\ port \in Ports
    BY <1>1, <1>19 DEF CrashAfterHandoff, Current, Ports
  <2>2. CommitHandoff(graph, run, e.node, port) \in Here
    BY <1>1, <2>1, CommitHandoffActive, ActiveIsSound
  <2> QED BY <1>17, <1>19, <2>2 DEF CrashAfterHandoff
<1>20. CASE UNCHANGED vars
  BY <1>1, <1>5, <1>20 DEF vars
<1> QED BY <1>6, <1>7, <1>8, <1>9, <1>10, <1>11, <1>12, <1>13, <1>14, <1>15, <1>16, <1>18,
           <1>19, <1>20 DEF Next

LEMMA TypedAlways == Spec => []TypedState
<1>1. TypedState /\ [Next]_vars => TypedState'
  BY TypedStep
<1> QED BY TypedInit, <1>1, PTL DEF Spec

(* A run is what its persisted form allows, for every graph, all limits    *)
(* and any numbers of rounds and restarts.                                 *)
THEOREM TypeCorrect == Spec => []TypeOK
<1>1. ASSUME TypedState PROVE TypeOK
  <2>1. /\ run \in Sound(graph, Rounds) /\ run \in Runs(graph, Rounds)
        /\ WaitsAtAwait(graph, run)
        /\ run.dag \in AnyEngines(graph) /\ run.counters \in Counters(graph)
        /\ DOMAIN run.dag.state = Nodes(graph)
    BY <1>1 DEF TypedState, Sound, Runs, AnyEngines
  <2>2. run.dag.state \in [Nodes(graph) -> NodeStates]
    BY <2>1 DEF AnyEngines
  <2>3. run.dag.handed \cup run.dag.loops \subseteq Nodes(graph)
    BY <2>1 DEF AnyEngines
  <2>4. \A n \in Nodes(graph) : /\ run.dag.after[n] \subseteq graph.after[n]
                                /\ run.dag.input[n] \subseteq RouteSources(graph, n)
    BY <2>1 DEF AnyEngines, Satisfied, Mailboxes
  <2>5. \A n \in Nodes(graph) : /\ run.counters.corrections[n] \in 0 .. MaxCorrections
                                /\ run.counters.iterations[n] \in 0 .. MaxIterations
    BY <2>1 DEF Counters
  <2>6. run.status \in RunStates /\ run.round \in 1 .. MaxRounds
        /\ run.commands \subseteq Agents(graph)
    BY <2>1 DEF Runs, Rounds
  <2>7. \A n \in In(run, {"WAITING_FOR_COMMAND"}) : graph.kind[n] = "await"
    BY <2>1 DEF In, WaitsAtAwait
  <2> QED BY <1>1, <2>2, <2>3, <2>4, <2>5, <2>6, <2>7 DEF TypeOK, TypedState, Agents, Prompts
<1> QED BY <1>1, TypedAlways, PTL

(* A run that ended has nothing left to run but loop sources at rest, and  *)
(* a waiting run has settled everything but the await node it waits at,    *)
(* whatever order its failures, cancellations, rounds and restarts came    *)
(* in.                                                                     *)
THEOREM RestsQuietly == Spec => []RestIsQuiet
<1>1. ASSUME TypedState PROVE RestIsQuiet
  BY <1>1 DEF TypedState, Sound, EndedQuiet, WaitingQuiet, RestIsQuiet
<1> QED BY <1>1, TypedAlways, PTL

----------------------------------------------------------------------------
(* The life of a run *)

(* A run that waits is moved by what ends it and by a command only.        *)
LEMMA WaitingMoves ==
    ASSUME TypedState, PassesOfActive, [Next]_vars, run.status = "waiting"
    PROVE  run' = run \/ Ended(run') \/ Opens
<1>1. ~Active(run) /\ ~(passes > 0)
  BY DEF PassesOfActive, Active
<1>2. \A n : FailActiveRun(graph, run, n) = run
  BY <1>1, InactiveKept
<1>3. ~DispatchReadyNodes
  BY <1>1 DEF DispatchReadyNodes
<1>4. ASSUME NEW n, Provisioned(n) \/ ProvisioningFails(n) PROVE run' = run
  BY <1>1, <1>2, <1>4 DEF Provisioned, ProvisioningFails
<1>5. CASE RetryDeferred \/ FirstWorkerRegisters
  BY <1>5 DEF RetryDeferred, FirstWorkerRegisters
<1>6. ASSUME NEW n PROVE ~WorkerLost(n)
  BY <1>1 DEF WorkerLost
<1>7. ASSUME NEW e PROVE ~Current(run, e)
  BY <1>1 DEF Current
<1>8. ASSUME NEW e, NEW port, NEW contract, Answer(e, port, contract)
      PROVE  run' = run
  BY <1>7, <1>8 DEF Answer
<1>9. CASE Cancel \/ Complete \/ Expire
  <2>1. "status" \in DOMAIN run
    BY DEF TypedState, Sound, Runs
  <2>2. /\ CancelRun(run).status = "cancelled"
        /\ CompleteRun(run).status = "completed"
        /\ ExpireRun(run).status = "failed"
    BY <2>1 DEF CancelRun, CompleteRun, ExpireRun
  <2> QED BY <1>9, <2>2 DEF Cancel, Complete, Expire, Ended
<1>10. ASSUME NEW S \in SUBSET Nodes(graph), S # {}, Resume(S) PROVE Opens
  BY <1>10 DEF Opens
<1>11. CASE Crash
  BY <1>1, <1>11 DEF Crash, Restart, Recover
<1>12. ASSUME NEW e, NEW port PROVE ~CrashAfterHandoff(e, port)
  BY <1>7 DEF CrashAfterHandoff
<1>13. CASE UNCHANGED vars
  BY <1>13 DEF vars
<1> QED BY <1>3, <1>4, <1>5, <1>6, <1>8, <1>9, <1>10, <1>11, <1>12, <1>13 DEF Next

LEMMA LifeInit == Init => Life!Init
<1> SUFFICES ASSUME Init PROVE Life!Init
  OBVIOUS
<1>1. IsGraph(graph) /\ run \in ActiveRuns(graph, {1})
  BY InitSound
<1>2. run.status = "active" /\ run.round = 1 /\ Nodes(graph) \subseteq Nat
  BY <1>1 DEF ActiveRuns, Runs, Nodes, IsGraph
<1> QED BY <1>2 DEF Life!Init

LEMMA LifeStep ==
    ASSUME TypedState, PassesOfActive, [Next]_vars
    PROVE  [Life!Next]_(Life!lifeVars)
<1> DEFINE Busy(g, r) == {n \in Nodes(g) :
              /\ r.dag.state[n] \notin Settled
              /\ ~RunningLoop(r.dag, n)
              /\ ~(r.status = "waiting" /\ r.dag.state[n] = "WAITING_FOR_COMMAND")}
           work == Busy(graph, run)
           next == Busy(graph, run')
<1>1. IsGraph(graph) /\ graph' = graph /\ Nodes(graph) \subseteq Nat
  BY TypedStep, GraphsAssumption DEF TypedState, IsGraph, Nodes
<1>2. work \in SUBSET Nat /\ next \in SUBSET Nat
  BY <1>1
<1>3. ASSUME NEW K, run' \in Sound(graph, K), run'.status # "active" PROVE next = {}
  <2>1. /\ run'.status \in RunStates /\ DOMAIN run'.dag.state = Nodes(graph)
        /\ EndedQuiet(graph, run') /\ WaitingQuiet(graph, run')
    BY <1>3 DEF Sound, Runs, AnyEngines
  <2>2. CASE run'.status = "waiting"
    BY <2>1, <2>2 DEF WaitingQuiet, Quiescent
  <2>3. CASE run'.status # "waiting"
    <3>1. Ended(run')
      BY <1>3, <2>1, <2>3 DEF Ended, RunStates
    <3> QED BY <2>1, <3>1 DEF EndedQuiet
  <2> QED BY <2>2, <2>3
<1>4. /\ Life!lifeVars = <<run.status, run.round, work>>
      /\ (Life!lifeVars)' = <<run'.status, run'.round, next>>
  BY <1>1 DEF Life!lifeVars
<1> HIDE DEF Busy
<1>5. CASE run' = run
  BY <1>4, <1>5
<1>6. CASE Opens
  <2>1. PICK S \in SUBSET Nodes(graph) : S # {} /\ Resume(S)
    BY <1>6 DEF Opens
  <2>2. run.status = "waiting"
    BY <2>1 DEF Resume
  <2>3. /\ run' \in ActiveRuns(graph, {run.round + 1})
        /\ \E n \in Nodes(graph) : run'.dag.state[n] \in {"PENDING", "READY"}
    BY <1>1, <2>1, ResumeSound DEF TypedState
  <2>4. run'.status = "active" /\ run'.round = run.round + 1
    BY <2>3 DEF ActiveRuns, Runs
  <2>5. next # {}
    BY <2>3 DEF Busy, Settled, RunningLoop
  <2>6. Life!OpenRound
    BY <1>1, <1>2, <2>2, <2>4, <2>5 DEF Life!OpenRound, Busy
  <2> QED BY <2>6 DEF Life!Next
<1>7. CASE run' \in Sound(graph, {run.round}) /\ run' # run /\ ~Opens
  <2>1. run'.round = run.round /\ run'.status \in RunStates /\ run.status \in RunStates
    BY <1>7 DEF Sound, Runs, TypedState
  <2>2. ~Ended(run)
    BY <1>7, EndedKept
  <2>3. run.status = "waiting" => Ended(run')
    BY <1>7, WaitingMoves
  <2>4. run.status \in {"active", "waiting"}
    BY <2>1, <2>2 DEF Ended, RunStates
  <2>5. CASE run.status = "active" /\ run'.status = "active"
    <3>1. Life!Work
      BY <1>1, <1>2, <2>1, <2>5 DEF Life!Work, Busy
    <3> QED BY <3>1 DEF Life!Next
  <2>6. CASE run.status = "active" /\ run'.status = "waiting"
    <3>1. next = {}
      BY <1>3, <1>7, <2>6
    <3>2. Life!Suspend
      BY <1>1, <2>1, <2>6, <3>1 DEF Life!Suspend, Busy
    <3> QED BY <3>2 DEF Life!Next
  <2>7. CASE Ended(run')
    <3>1. next = {} /\ run'.status \in Life!Finished
      BY <1>3, <1>7, <2>7 DEF Ended, Life!Finished
    <3>2. Life!Finish
      BY <1>1, <2>1, <2>4, <3>1 DEF Life!Finish, Busy
    <3> QED BY <3>2 DEF Life!Next
  <2> QED BY <2>1, <2>3, <2>4, <2>5, <2>6, <2>7 DEF Ended, RunStates
<1> QED BY <1>5, <1>6, <1>7, TypedStep

(* Every run is a RunLife: it ends or waits only with nothing left to do,  *)
(* and no order of late answers, failures, restarts and Workers makes an   *)
(* ended or a waiting run active again; only a command opens a round, and  *)
(* the round has work.                                                     *)
THEOREM RunsImplementLife == Spec => ImplementsRunLife
<1>1. Spec => []PassesOfActive
  BY PassesInit, PassesStep, PTL DEF Spec
<1>2. TypedState /\ PassesOfActive /\ [Next]_vars => [Life!Next]_(Life!lifeVars)
  BY LifeStep
<1> QED BY <1>1, <1>2, LifeInit, TypedAlways, PTL DEF Spec, ImplementsRunLife, Life!Spec

----------------------------------------------------------------------------
(* Only loops stall *)

(* An engine that runs nothing but the nodes of R and its loop sources at  *)
(* rest: what runs has yet to hand off, and so has what may still run.     *)
Kept(d, R) == [loops |-> d.loops, running |-> R, pending |-> {}, again |-> {},
               done |-> {}, result |-> <<>>]
Fresh(g, R) == {r \in ActiveRuns(g, {1}) : r.dag \in Within(g, Kept(r.dag, R))}

(* There is something to do, and it is being done or waits for something   *)
(* that is not settled.                                                    *)
Going(g, d) == /\ \E n \in Nodes(g) : d.state[n] \notin Settled
               /\ \/ \E n \in Nodes(g) : d.state[n] \in {"READY", "RUNNING"}
                  \/ Stuck(g, d) = {}

(* Runs in their first round that are going while they are active.         *)
Live(g, R) == {r \in Sound(g, {1}) : Active(r) => r \in Fresh(g, R) /\ Going(g, r.dag)}

LEMMA FreshFields ==
    ASSUME NEW g, NEW R, NEW r \in Fresh(g, R)
    PROVE  /\ r \in ActiveRuns(g, {1}) /\ r.dag \in Within(g, Kept(r.dag, R))
           /\ r.dag \in Engines(g) /\ Active(r) /\ DOMAIN r.dag.state = Nodes(g)
BY ActiveFields DEF Fresh

LEMMA LiveGrows ==
    ASSUME NEW g, NEW R, NEW Q, R \subseteq Q
    PROVE  Fresh(g, R) \subseteq Fresh(g, Q) /\ Live(g, R) \subseteq Live(g, Q)
<1>1. ASSUME NEW r \in Fresh(g, R) PROVE r \in Fresh(g, Q)
  <2>1. r.dag \in Within(g, Kept(r.dag, R))
    BY <1>1, FreshFields
  <2>2. r.dag \in Within(g, Kept(r.dag, Q))
    BY <2>1 DEF Within, Kept
  <2> QED BY <1>1, <2>2 DEF Fresh
<1> QED BY <1>1 DEF Live

(* A handler replaces the engine of a run by one that keeps to its bounds. *)
LEMMA FreshReplaced ==
    ASSUME NEW g, NEW R, NEW Q, NEW r \in Fresh(g, R),
           NEW d \in Within(g, Kept(r.dag, Q))
    PROVE  [r EXCEPT !.dag = d] \in Fresh(g, Q)
<1> DEFINE q == [r EXCEPT !.dag = d]
<1>1. d \in Engines(g) /\ d.loops = r.dag.loops
  BY DEF Within, Kept
<1>2. q \in ActiveRuns(g, {1}) /\ q.dag = d
  BY <1>1, FreshFields, DagReplaced DEF ActiveRuns, Runs
<1>3. d \in Within(g, Kept(d, Q))
  BY <1>1 DEF Kept
<1> HIDE DEF q
<1>4. q \in Fresh(g, Q)
  BY <1>2, <1>3 DEF Fresh
<1> QED BY <1>4 DEF q

LEMMA EndedIsLive ==
    ASSUME NEW g, NEW R, NEW r \in Sound(g, {1}), ~Active(r)
    PROVE  r \in Live(g, R)
BY DEF Live

(* What follows a failure or a handoff ends the run or leaves it as it is, *)
(* with something to do.                                                   *)
LEMMA StaysActive ==
    ASSUME NEW g, NEW r \in ActiveRuns(g, {1}), NEW n, NEW port
    PROVE  /\ \A S : ~Active(Abort(r, S))
           /\ Active(AfterFailure(g, r, n)) =>
                 AfterFailure(g, r, n) = r /\ ~IsRunTerminal(r.dag)
           /\ Active(AfterHandoff(g, r, n, port)) =>
                 AfterHandoff(g, r, n, port) = r /\ ~IsRunTerminal(r.dag)
<1>1. "status" \in DOMAIN r /\ Active(r)
  BY ActiveFields DEF Runs
<1>2. \A S : ~Active(Abort(r, S))
  BY <1>1 DEF Abort, Active
<1>3. ~Active([r EXCEPT !.status = "failed"]) /\ ~Active(CompleteRun(r))
  BY <1>1 DEF Active, CompleteRun
<1> QED BY <1>2, <1>3 DEF AfterFailure, AfterHandoff

LEMMA NotTerminal ==
    ASSUME NEW g, NEW d \in Engines(g), ~IsRunTerminal(d)
    PROVE  \E n \in Nodes(g) : d.state[n] \notin Settled
<1>1. DOMAIN d.state = Nodes(g)
  BY DEF Engines
<1> QED BY <1>1 DEF IsRunTerminal

LEMMA SkipStalledFresh ==
    ASSUME NEW g, NEW R, NEW r \in Fresh(g, R), Stuck(g, r.dag) = {}
    PROVE  SkipStalled(r) \in Fresh(g, R) /\ Stuck(g, SkipStalled(r).dag) = {}
<1> DEFINE d == SetState(r.dag, In(r, {"PENDING"}), "SKIPPED")
           q == [r EXCEPT !.dag = d]
<1>1. r.dag \in Within(g, Kept(r.dag, R)) /\ r.dag \in Engines(g)
      /\ DOMAIN r.dag.state = Nodes(g) /\ r \in ActiveRuns(g, {1})
  BY FreshFields
<1>2. d \in Within(g, Kept(r.dag, R))
  BY <1>1, SetStateWithin DEF Settled, Kept
<1>3. \A n \in Nodes(g) : d.state[n] # "PENDING"
  BY <1>1 DEF SetState, In
<1> HIDE DEF d
<1>4. q \in Fresh(g, R)
  BY <1>2, FreshReplaced
<1>5. q.dag = d
  BY <1>1 DEF ActiveRuns, Runs
<1>6. Stuck(g, q.dag) = {}
  BY <1>3, <1>5 DEF Stuck
<1> HIDE DEF q
<1>7. SkipStalled(r) \in {r, q}
  BY DEF SkipStalled, q, d
<1> QED BY <1>4, <1>6, <1>7

(* A gateway that was counted out of its loop may still be marked as a     *)
(* running one when it hands off.                                          *)
Leaving(g, R, n) ==
    {r \in ActiveRuns(g, {1}) :
       r.dag \in Within(g, [Kept(r.dag, R \cup {n}) EXCEPT !.again = {n}])}

LEMMA FreshLeaves ==
    ASSUME NEW g, NEW R, NEW n
    PROVE  Fresh(g, R) \subseteq Leaving(g, R, n)
<1>1. ASSUME NEW r \in Fresh(g, R) PROVE r \in Leaving(g, R, n)
  <2>1. r \in ActiveRuns(g, {1}) /\ r.dag \in Within(g, Kept(r.dag, R))
    BY <1>1, FreshFields
  <2> DEFINE c == [Kept(r.dag, R \cup {n}) EXCEPT !.again = {n}]
  <2>2. /\ c.loops = Kept(r.dag, R).loops /\ Kept(r.dag, R).running \subseteq c.running
        /\ Kept(r.dag, R).pending \subseteq c.pending /\ Kept(r.dag, R).again \subseteq c.again
        /\ c.done \subseteq Kept(r.dag, R).done /\ c.result = Kept(r.dag, R).result
    BY DEF Kept
  <2> HIDE DEF c
  <2>3. r.dag \in Within(g, c)
    BY <2>1, <2>2, LooserWithin
  <2> QED BY <2>1, <2>3 DEF Leaving, c
<1> QED BY <1>1

LEMMA LeavingLeft ==
    ASSUME NEW g, NEW R, NEW n, NEW r \in Leaving(g, R, n),
           NEW d \in Within(g, Without([Kept(r.dag, R \cup {n}) EXCEPT !.again = {n}], n))
    PROVE  /\ d \in Within(g, Kept(d, R \ {n}))
           /\ [r EXCEPT !.dag = d] \in Fresh(g, R \ {n})
<1>1. Without([Kept(r.dag, R \cup {n}) EXCEPT !.again = {n}], n) = Kept(r.dag, R \ {n})
  BY DEF Without, Kept
<1>2. d \in Within(g, Kept(r.dag, R \ {n}))
  BY <1>1
<1>3. d \in Engines(g) /\ d.loops = r.dag.loops
  BY <1>2 DEF Within, Kept
<1>4. d \in Within(g, Kept(d, R \ {n}))
  BY <1>2, <1>3 DEF Kept
<1>5. [r EXCEPT !.dag = d] \in ActiveRuns(g, {1}) /\ [r EXCEPT !.dag = d].dag = d
  BY <1>3, DagReplaced DEF Leaving, ActiveRuns, Runs
<1> QED BY <1>4, <1>5 DEF Fresh

LEMMA FailLeaving ==
    ASSUME NEW g, IsGraph(g), NEW R, NEW n \in Nodes(g), NEW r \in Leaving(g, R, n)
    PROVE  FailActiveRun(g, r, n) \in Live(g, R \ {n})
<1> DEFINE d == FailNode(g, r.dag, n)
           q == [r EXCEPT !.dag = d]
           p == SkipStalled(q)
           a == AfterFailure(g, p, n)
<1>1. r.dag \in Within(g, [Kept(r.dag, R \cup {n}) EXCEPT !.again = {n}])
      /\ r \in ActiveRuns(g, {1}) /\ Active(r)
  BY ActiveFields DEF Leaving
<1>2. d \in Within(g, Without([Kept(r.dag, R \cup {n}) EXCEPT !.again = {n}], n))
      /\ Stuck(g, d) = {}
  BY <1>1, FailNodeWithin
<1> HIDE DEF d
<1>3. q \in Fresh(g, R \ {n}) /\ q.dag = d
  BY <1>1, <1>2, LeavingLeft DEF ActiveRuns, Runs
<1> HIDE DEF q
<1>4. p \in Fresh(g, R \ {n}) /\ Stuck(g, p.dag) = {}
  BY <1>2, <1>3, SkipStalledFresh
<1> HIDE DEF p
<1>5. p \in ActiveRuns(g, {1}) /\ p.dag \in Engines(g)
  BY <1>4, FreshFields
<1>6. a \in Sound(g, {1}) /\ (Active(a) => a = p /\ ~IsRunTerminal(p.dag))
  BY <1>5, AfterFailureSound, StaysActive
<1> HIDE DEF a
<1>7. Active(a) => Going(g, a.dag)
  BY <1>4, <1>5, <1>6, NotTerminal DEF Going
<1>8. a \in Live(g, R \ {n})
  BY <1>4, <1>6, <1>7 DEF Live
<1> QED BY <1>1, <1>8 DEF FailActiveRun, a, p, q, d

LEMMA FailActiveRunLive ==
    ASSUME NEW g, IsGraph(g), NEW R, NEW r \in Live(g, R), NEW n \in Nodes(g)
    PROVE  FailActiveRun(g, r, n) \in Live(g, R \ {n})
<1>1. CASE ~Active(r)
  BY <1>1, EndedIsLive DEF FailActiveRun, Live
<1>2. CASE Active(r)
  BY <1>2, FreshLeaves, FailLeaving DEF Live
<1> QED BY <1>1, <1>2

LEMMA CommitHandoffFresh ==
    ASSUME NEW g, IsGraph(g), NEW R, NEW n \in Nodes(g), NEW r \in Leaving(g, R, n),
           NEW port \in Ports
    PROVE  /\ CommitHandoff(g, r, n, port) \in Fresh(g, R \ {n})
           /\ Stuck(g, CommitHandoff(g, r, n, port).dag) = {}
<1> DEFINE d == Handoff(g, r.dag, n, port)
           q == CommitHandoff(g, r, n, port)
<1>1. r \in ActiveRuns(g, {1})
      /\ r.dag \in Within(g, [Kept(r.dag, R \cup {n}) EXCEPT !.again = {n}])
  BY DEF Leaving
<1>2. d \in Within(g, Without([Kept(r.dag, R \cup {n}) EXCEPT !.again = {n}], n))
      /\ Stuck(g, d) = {}
  BY <1>1, HandoffWithin
<1>3. d \in Within(g, Kept(d, R \ {n}))
  BY <1>2, LeavingLeft
<1>4. q.dag = d
  BY <1>1 DEF CommitHandoff, ActiveRuns, Runs
<1>5. q \in ActiveRuns(g, {1})
  BY <1>1, CommitHandoffActive
<1> HIDE DEF d, q
<1>6. q \in Fresh(g, R \ {n}) /\ Stuck(g, q.dag) = {}
  BY <1>2, <1>3, <1>4, <1>5 DEF Fresh
<1> QED BY <1>6 DEF q

LEMMA HandoffActiveRunLive ==
    ASSUME NEW g, IsGraph(g), NEW R, NEW n \in Nodes(g), NEW r \in Leaving(g, R, n),
           NEW port \in Ports
    PROVE  HandoffActiveRun(g, r, n, port) \in Live(g, R \ {n})
<1>0. r \in ActiveRuns(g, {1})
  BY DEF Leaving
<1>1. HandoffActiveRun(g, r, n, port) \in Sound(g, {1})
  BY <1>0, HandoffSound
<1>2. CASE Exhausted(r, n, port)
  BY <1>0, <1>1, <1>2, StaysActive, EndedIsLive DEF HandoffActiveRun
<1>3. CASE ~Exhausted(r, n, port)
  <2> DEFINE q == CommitHandoff(g, r, n, port)
             a == AfterHandoff(g, q, n, port)
  <2>1. q \in Fresh(g, R \ {n}) /\ Stuck(g, q.dag) = {}
    BY CommitHandoffFresh
  <2>2. a \in Sound(g, {1})
    BY <1>1, <1>3 DEF HandoffActiveRun
  <2> HIDE DEF q
  <2>3. q \in ActiveRuns(g, {1}) /\ q.dag \in Engines(g)
    BY <2>1, FreshFields
  <2>4. Active(a) => a = q /\ ~IsRunTerminal(q.dag)
    BY <2>3, StaysActive
  <2> HIDE DEF a
  <2>5. Active(a) => Going(g, a.dag)
    BY <2>1, <2>3, <2>4, NotTerminal DEF Going
  <2>6. a \in Live(g, R \ {n})
    BY <2>1, <2>2, <2>4, <2>5 DEF Live
  <2> QED BY <1>3, <2>6 DEF HandoffActiveRun, a, q
<1> QED BY <1>2, <1>3

(* A node that is asked again is ready.                                    *)
LEMMA CorrectLive ==
    ASSUME NEW g, IsGraph(g), NEW R, NEW r \in Fresh(g, R), NEW n \in Nodes(g),
           r.counters.corrections[n] < MaxCorrections
    PROVE  Correct(g, r, n) \in Live(g, R \ {n})
<1> DEFINE e == ReopenSkipped(g, r.dag, n)
           d == [e EXCEPT !.state[n] = "READY", !.handed = @ \ {n}]
           q == Correct(g, r, n)
<1>1. r \in ActiveRuns(g, {1}) /\ r.dag \in Within(g, Kept(r.dag, R))
  BY FreshFields
<1>2. e \in Within(g, Kept(r.dag, R)) /\ e \in Engines(g)
  BY <1>1, ReopenSkippedWithin, WithinIsEngine
<1>3. q \in ActiveRuns(g, {1})
  BY <1>1, CorrectActive
<1>4. q.dag = d
  BY <1>1 DEF Correct, ActiveRuns, Runs
<1> HIDE DEF e, q
<1>5. /\ d.loops = e.loops /\ d.handed = e.handed \ {n} /\ d \in Engines(g)
      /\ \A m \in Nodes(g) : d.state[m] = IF m = n THEN "READY" ELSE e.state[m]
  BY <1>2 DEF Engines, NodeStates
<1> HIDE DEF d
<1>6. d \in Within(g, Kept(d, R \ {n}))
  BY <1>2, <1>5 DEF Within, Kept
<1>7. Going(g, d)
  BY <1>5 DEF Going, Settled
<1>8. q \in Live(g, R \ {n})
  BY <1>3, <1>4, <1>6, <1>7, ActiveIsSound DEF Live, Fresh
<1> QED BY <1>8 DEF q

LEMMA TryCorrectLive ==
    ASSUME NEW g, IsGraph(g), NEW R, NEW r \in Live(g, R), NEW n \in Nodes(g), NEW contract
    PROVE  TryCorrect(g, r, n, contract) \in Live(g, R \ {n})
<1>1. CASE ~Active(r)
  BY <1>1, EndedIsLive DEF TryCorrect, Live
<1>2. CASE Active(r)
  <2>1. r \in Fresh(g, R) /\ r \in Leaving(g, R, n)
    BY <1>2, FreshLeaves DEF Live
  <2>2. HandoffActiveRun(g, r, n, "done") \in Live(g, R \ {n})
    BY <2>1, HandoffActiveRunLive DEF Ports
  <2> QED BY <1>2, <2>1, <2>2, FailActiveRunLive, CorrectLive DEF TryCorrect
<1> QED BY <1>1, <1>2

LEMMA AppliedLive ==
    ASSUME NEW g, IsGraph(g), NEW R, NEW r \in Live(g, R), Active(r), NEW n \in Nodes(g),
           NEW port \in {"done", FailurePort, "rejected"}, NEW contract
    PROVE  Applied(g, r, n, port, contract) \in Live(g, R \ {n})
<1>1. r \in Leaving(g, R, n)
  BY FreshLeaves DEF Live
<1>2. port # "rejected" => HandoffActiveRun(g, r, n, port) \in Live(g, R \ {n})
  BY <1>1, HandoffActiveRunLive DEF Ports
<1> QED BY <1>2, TryCorrectLive DEF Applied

LEMMA CountIterationLeaves ==
    ASSUME NEW g, NEW R, NEW r \in Fresh(g, R), NEW n \in Nodes(g), NEW passed
    PROVE  CountIteration(g, r, n, GatewayPort(g, r, n, passed)) \in Leaving(g, R, n)
<1> DEFINE q == CountIteration(g, r, n, GatewayPort(g, r, n, passed))
           out == [r.dag EXCEPT !.loops = @ \ {n}]
<1>1. r \in ActiveRuns(g, {1}) /\ r.dag \in Within(g, Kept(r.dag, R)) /\ r.dag \in Engines(g)
  BY FreshFields
<1>2. q \in ActiveRuns(g, {1})
  BY <1>1, CountIterationActive
<1>3. q.dag \in {r.dag, out}
  BY <1>1 DEF CountIteration, ActiveRuns, Runs
<1> HIDE DEF q
<1>4. /\ out \in Engines(g) /\ out.loops = r.dag.loops \ {n}
      /\ out.state = r.dag.state /\ out.handed = r.dag.handed
  BY <1>1 DEF Engines
<1> HIDE DEF out
<1>5. out \in Within(g, [Kept(out, R \cup {n}) EXCEPT !.again = {n}])
  BY <1>1, <1>4 DEF Within, Kept
<1>6. q.dag = out => q \in Leaving(g, R, n)
  BY <1>2, <1>5 DEF Leaving
<1>7. q.dag = r.dag => q \in Leaving(g, R, n)
  <2>1. q.dag = r.dag => q \in Fresh(g, R)
    BY <1>1, <1>2 DEF Fresh
  <2> QED BY <2>1, FreshLeaves
<1>8. q \in Leaving(g, R, n)
  BY <1>3, <1>6, <1>7
<1> QED BY <1>8 DEF q

LEMMA ExecuteGatewayLive ==
    ASSUME NEW g, IsGraph(g), NEW R, NEW r \in Live(g, R), NEW n \in Nodes(g), NEW passed
    PROVE  ExecuteGateway(g, r, n, passed) \in Live(g, R)
<1> DEFINE port == GatewayPort(g, r, n, passed)
           q == CountIteration(g, r, n, port)
<1>1. CASE ~Active(r)
  BY <1>1 DEF ExecuteGateway
<1>2. CASE Active(r) /\ g.kind[n] = "await"
  <2>1. r \in ActiveRuns(g, {1}) /\ r \in Sound(g, {1})
    BY <1>2, ActiveIsSound DEF Live
  <2>2. CloseRound(r, n) \in Sound(g, {1})
    BY <1>2, <2>1, CloseRoundSound
  <2>3. CloseRound(r, n) = r \/ ~Active(CloseRound(r, n))
    BY <2>1 DEF CloseRound, Active, ActiveRuns, Runs
  <2>4. CloseRound(r, n) \in Live(g, R)
    BY <2>2, <2>3, EndedIsLive
  <2> QED BY <1>2, <2>4 DEF ExecuteGateway
<1>3. CASE Active(r) /\ g.kind[n] # "await"
  <2>1. q \in Leaving(g, R, n)
    BY <1>3, CountIterationLeaves DEF Live
  <2>2. port \in Ports
    BY DEF GatewayPort, Ports, FailurePort
  <2> HIDE DEF q, port
  <2>3. LeaveGateway(g, q, n, port) \in Live(g, R \ {n})
    BY <2>1, <2>2, FailLeaving, HandoffActiveRunLive DEF LeaveGateway
  <2>4. LeaveGateway(g, q, n, port) \in Live(g, R)
    BY <2>3, LiveGrows
  <2> QED BY <1>3, <2>4 DEF ExecuteGateway, q, port
<1> QED BY <1>1, <1>2, <1>3

(* The nodes that execute a prompt of the first round.                     *)
Prompted(E) == {e.node : e \in {q \in E : q.round = 1}}

LEMMA SendLive ==
    ASSUME NEW g, NEW R, NEW r \in Live(g, R), Active(r), NEW n \in Nodes(g),
           r.dag.state[n] = "READY"
    PROVE  Send(r, n) \in Live(g, R \cup {n})
<1> DEFINE d == [r.dag EXCEPT !.state[n] = "RUNNING"]
           q == [r EXCEPT !.dag = d]
<1>1. r \in Fresh(g, R) /\ r.dag \in Within(g, Kept(r.dag, R)) /\ r.dag \in Engines(g)
      /\ r \in ActiveRuns(g, {1})
  BY FreshFields DEF Live
<1>2. /\ d \in Engines(g) /\ d.loops = r.dag.loops /\ d.handed = r.dag.handed
      /\ \A m \in Nodes(g) : d.state[m] = IF m = n THEN "RUNNING" ELSE r.dag.state[m]
  BY <1>1 DEF Engines, NodeStates
<1> HIDE DEF d
<1>3. d \in Within(g, Kept(r.dag, R \cup {n}))
  BY <1>1, <1>2 DEF Within, Kept
<1>4. q \in Fresh(g, R \cup {n}) /\ q.dag = d
  BY <1>1, <1>3, FreshReplaced DEF ActiveRuns, Runs
<1>5. Going(g, d)
  BY <1>2 DEF Going, Settled
<1> HIDE DEF q
<1>6. q \in Sound(g, {1})
  BY <1>4, FreshFields, ActiveIsSound
<1>7. q \in Live(g, R \cup {n})
  BY <1>4, <1>5, <1>6 DEF Live
<1> QED BY <1>7 DEF Send, q, d

LivePass(g, p) == p \in PassStates(g, {1}) /\ p.run \in Live(g, Prompted(p.sent))

LEMMA DispatchAgentLive ==
    ASSUME NEW g, IsGraph(g), NEW p, LivePass(g, p), NEW n \in Agents(g),
           NEW outcome \in {"sent", "provisioning", "deferred", "failed"}
    PROVE  LivePass(g, DispatchAgent(g, p, n, outcome))
<1> DEFINE a == DispatchAgent(g, p, n, outcome)
           R == Prompted(p.sent)
<1>1. /\ p \in PassStates(g, {1}) /\ p.run \in Live(g, R) /\ n \in Nodes(g)
      /\ p.run \in Sound(g, {1})
      /\ DOMAIN p = {"run", "prov", "wait", "sent", "done"}
  BY DEF LivePass, Agents, Live, PassStates
<1>2. a \in PassStates(g, {1})
  <2>1. {1} \in SUBSET (1 .. MaxRounds)
    BY BoundsAssumption
  <2> QED BY <1>1, <2>1, DispatchAgentSound
<1>3. FailActiveRun(g, p.run, n) \in Live(g, R)
  <2> HIDE DEF R
  <2>1. FailActiveRun(g, p.run, n) \in Live(g, R \ {n})
    BY <1>1, FailActiveRunLive
  <2>2. R \ {n} \subseteq R
    OBVIOUS
  <2> QED BY <2>1, <2>2, LiveGrows
<1>4. \/ a.run \in {p.run, FailActiveRun(g, p.run, n)} /\ a.sent = p.sent
      \/ /\ Active(p.run) /\ p.run.dag.state[n] = "READY"
         /\ a.run = Send(p.run, n) /\ a.sent = p.sent \cup {Prompt(p.run, n)}
  BY <1>1 DEF DispatchAgent
<1> HIDE DEF a
<1>5. ASSUME Active(p.run), p.run.dag.state[n] = "READY",
             a.run = Send(p.run, n), a.sent = p.sent \cup {Prompt(p.run, n)}
      PROVE  a.run \in Live(g, Prompted(a.sent))
  <2>1. a.run \in Live(g, R \cup {n})
    BY <1>1, <1>5, SendLive
  <2>2. p.run.round = 1
    BY <1>1 DEF Sound, Runs
  <2>3. Prompt(p.run, n).node = n /\ Prompt(p.run, n).round = 1
    BY <2>2 DEF Prompt
  <2>4. R \cup {n} \subseteq Prompted(a.sent)
    BY <1>5, <2>3 DEF Prompted
  <2> HIDE DEF R
  <2> QED BY <2>1, <2>4, LiveGrows
<1>6. a.run \in Live(g, Prompted(a.sent))
  BY <1>1, <1>3, <1>4, <1>5
<1>7. LivePass(g, a)
  BY <1>2, <1>6 DEF LivePass
<1> QED BY <1>7 DEF a

LEMMA DispatchNodeLive ==
    ASSUME NEW g, IsGraph(g), NEW p, LivePass(g, p), NEW n \in Nodes(g),
           NEW outcome \in Outcomes(g, n)
    PROVE  LivePass(g, DispatchNode(g, p, n, outcome))
<1>1. CASE Gateway(g, n)
  <2> DEFINE r == ExecuteGateway(g, p.run, n, outcome = "passed")
             a == [p EXCEPT !.run = r, !.done = ~Active(r)]
  <2>1. r \in Live(g, Prompted(p.sent)) /\ r \in Sound(g, {1})
    BY ExecuteGatewayLive DEF LivePass, Live
  <2> HIDE DEF r
  <2>2. a \in PassStates(g, {1}) /\ a.run = r /\ a.sent = p.sent
    BY <2>1 DEF LivePass, PassStates, Active
  <2> HIDE DEF a
  <2>3. LivePass(g, a)
    BY <2>1, <2>2 DEF LivePass
  <2> QED BY <1>1, <2>3 DEF DispatchNode, a, r
<1>2. CASE ~Gateway(g, n)
  BY <1>2, DispatchAgentLive DEF DispatchNode, Outcomes, Agents
<1> QED BY <1>1, <1>2

LEMMA DispatchPassLive ==
    ASSUME NEW g, IsGraph(g), run \in Live(g, Prompted(executing)),
           provisioning \in SUBSET Agents(g), deferred \in SUBSET Agents(g),
           executing \in SUBSET Prompts(g), NEW outcome,
           \A n \in Ready(run.dag) : outcome[n] \in Outcomes(g, n)
    PROVE  LivePass(g, DispatchPass(g, outcome))
<1> DEFINE start == [run |-> run, prov |-> provisioning, wait |-> deferred,
                     sent |-> executing, done |-> FALSE]
           X == {p \in PassStates(g, {1}) : LivePass(g, p)}
           N == g.size
           Step(e, i) == IF i \in Ready(run.dag)
                         THEN IF e.done THEN e ELSE DispatchNode(g, e, i, outcome[i])
                         ELSE e
           F == [i \in 1 .. N |-> [e \in X |-> Step(e, i)]]
           Body(h) == [i \in 0 .. N |-> IF i = 0 THEN start ELSE Step(h[i - 1], i)]
           upTo == CHOOSE h : h = Body(h)
<1>1. N \in Nat /\ start \in X
  BY DEF IsGraph, PassStates, LivePass, Live
<1>2. IsStep(F, N, X)
  <2>1. ASSUME NEW e \in X, NEW i \in 1 .. N PROVE Step(e, i) \in X
    BY <2>1, DispatchNodeLive DEF Nodes, LivePass
  <2> QED BY <2>1 DEF IsStep
<1>3. DispatchPass(g, outcome) = upTo[N]
  BY DEF DispatchPass, ForEach
<1> HIDE DEF Step, X, N, start
<1>4. ASSUME NEW f, IsIteration(f, F, N, X, start) PROVE Follows(upTo, F, N, X)
  <2>1. f = Body(f)
    <3> HIDE DEF F
    <3>1. \A i \in 1 .. N : F[i][f[i - 1]] = Step(f[i - 1], i)
      BY <1>1, <1>4, IterationUnfolds DEF F
    <3> QED BY <1>1, <1>4, <3>1, IterationUnfolds
  <2>2. upTo = Body(upTo)
    <3> HIDE DEF Body
    <3> QED BY <2>1
  <2> HIDE DEF upTo
  <2> QED BY <1>1, <2>2 DEF Follows
<1> HIDE DEF F, upTo
<1>5. upTo[N] \in X
  BY <1>1, <1>2, <1>4, Recursion
<1> QED BY <1>3, <1>5 DEF X

(* What is failed runs no more.                                            *)
LEMMA FailAllFresh ==
    ASSUME NEW g, IsGraph(g), NEW R, NEW r \in Fresh(g, R), NEW S
    PROVE  FailAll(g, r, S) \in Fresh(g, R \ (S \cap Nodes(g)))
<1> DEFINE N == g.size
           X == [i \in 0 .. N |-> Fresh(g, R \ (S \cap (1 .. i)))]
<1>1. N \in Nat /\ r \in ActiveRuns(g, {1})
  BY FreshFields DEF IsGraph
<1>2. PICK f : /\ FailAll(g, r, S) = f[N] /\ f[0] = r
               /\ \A i \in 1 .. N :
                     f[i] = IF i \in S
                            THEN [f[i - 1] EXCEPT !.dag = FailNode(g, f[i - 1].dag, i)]
                            ELSE f[i - 1]
  BY <1>1, FailAllIterates
<1>3. f[0] \in X[0]
  <2>1. R \ (S \cap (1 .. 0)) = R
    OBVIOUS
  <2> QED BY <1>1, <1>2, <2>1
<1>4. ASSUME NEW i \in 1 .. N, f[i - 1] \in X[i - 1] PROVE f[i] \in X[i]
  <2> DEFINE e == f[i - 1]
             Q == R \ (S \cap (1 .. i - 1))
             P == R \ (S \cap (1 .. i))
             d == FailNode(g, e.dag, i)
  <2>1. e \in Fresh(g, Q)
    BY <1>1, <1>4
  <2>2. X[i] = Fresh(g, P) /\ i \in Nodes(g)
    BY <1>1 DEF Nodes
  <2>3. IF i \in S THEN P = Q \ {i} ELSE P = Q
    BY <1>1
  <2>4. f[i] = IF i \in S THEN [e EXCEPT !.dag = d] ELSE e
    BY <1>2
  <2> HIDE DEF e, Q, P, X
  <2>5. d \in Within(g, Kept(e.dag, Q \ {i}))
    <3>1. e.dag \in Within(g, Kept(e.dag, Q))
      BY <2>1, FreshFields
    <3>2. Without(Kept(e.dag, Q), i) = Kept(e.dag, Q \ {i})
      BY DEF Without, Kept
    <3> QED BY <2>2, <3>1, <3>2, FailNodeWithin
  <2> HIDE DEF d
  <2>6. [e EXCEPT !.dag = d] \in Fresh(g, Q \ {i})
    BY <2>1, <2>5, FreshReplaced
  <2> QED BY <2>1, <2>2, <2>3, <2>4, <2>6
<1>5. X[N] = Fresh(g, R \ (S \cap Nodes(g)))
  BY <1>1 DEF Nodes
<1> HIDE DEF X, N
<1>6. f[N] \in X[N]
  BY <1>1, <1>3, <1>4, StaysStepwise
<1> QED BY <1>2, <1>5, <1>6

LEMMA ReconcileFailedFresh ==
    ASSUME NEW g, IsGraph(g), NEW R, NEW r \in Fresh(g, R)
    PROVE  ReconcileFailed(g, r) \in Fresh(g, R)
<1> DEFINE X == Fresh(g, R)
           N == g.size
           Step(e, i) == IF i \in In(r, {"FAILED"})
                         THEN [e EXCEPT !.dag = SkipDependentsOfFailed(g, @, i)]
                         ELSE e
           F == [i \in 1 .. N |-> [e \in X |-> Step(e, i)]]
           Body(h) == [i \in 0 .. N |-> IF i = 0 THEN r ELSE Step(h[i - 1], i)]
           upTo == CHOOSE h : h = Body(h)
<1>1. N \in Nat /\ r \in X
  BY DEF IsGraph
<1>2. IsStep(F, N, X)
  <2>1. ASSUME NEW e \in X, NEW i \in 1 .. N PROVE Step(e, i) \in X
    BY <2>1, FreshFields, SkipWithin, FreshReplaced
  <2> QED BY <2>1 DEF IsStep
<1>3. ReconcileFailed(g, r) = upTo[N]
  BY DEF ReconcileFailed, ForEach
<1> HIDE DEF Step, X, N
<1>4. ASSUME NEW f, IsIteration(f, F, N, X, r) PROVE Follows(upTo, F, N, X)
  <2>1. f = Body(f)
    <3> HIDE DEF F
    <3>1. \A i \in 1 .. N : F[i][f[i - 1]] = Step(f[i - 1], i)
      BY <1>1, <1>4, IterationUnfolds DEF F
    <3> QED BY <1>1, <1>4, <3>1, IterationUnfolds
  <2>2. upTo = Body(upTo)
    <3> HIDE DEF Body
    <3> QED BY <2>1
  <2> HIDE DEF upTo
  <2> QED BY <1>1, <2>2 DEF Follows
<1> HIDE DEF F, upTo
<1>5. upTo[N] \in X
  BY <1>1, <1>2, <1>4, Recursion
<1> QED BY <1>3, <1>5 DEF X

(* After the recovery nothing runs but loop sources at rest.               *)
LEMMA RecoverLive ==
    ASSUME NEW g, IsGraph(g), NEW R, NEW r \in Sound(g, {1}), Active(r) => r \in Fresh(g, R)
    PROVE  Recover(g, r) \in Live(g, {})
<1> DEFINE running  == In(r, {"RUNNING"}) \ r.dag.loops
           lost     == ReconcileFailed(g, FailAll(g, r, running))
           stranded == {n \in Nodes(g) : /\ RunningLoop(lost.dag, n)
                                         /\ n \notin LiveSources(g, lost)}
           settled  == SkipStalled(ReconcileFailed(g, FailAll(g, lost, stranded)))
           last     == [settled EXCEPT !.dag = ReconcileSettled(g, @)]
           q        == Recover(g, r)
<1>1. CASE ~Active(r)
  BY <1>1, EndedIsLive DEF Recover
<1>2. CASE Active(r)
  <2>1. r \in ActiveRuns(g, {1}) /\ DOMAIN r.dag.state = Nodes(g)
        /\ r.dag \in Within(g, Kept(r.dag, R))
    BY <1>2, FreshFields
  <2>2. running \subseteq Nodes(g) /\ r \in Fresh(g, running)
    <3>1. running = {n \in Nodes(g) : r.dag.state[n] = "RUNNING" /\ n \notin r.dag.loops}
      BY <2>1 DEF In
    <3> HIDE DEF running
    <3>2. r.dag \in Within(g, Kept(r.dag, running))
      BY <2>1, <3>1 DEF Within, Kept
    <3> QED BY <2>1, <3>1, <3>2 DEF Fresh
  <2> HIDE DEF running
  <2>3. FailAll(g, r, running) \in Fresh(g, {})
    <3>1. running \ (running \cap Nodes(g)) = {}
      BY <2>2
    <3> QED BY <2>2, <3>1, FailAllFresh
  <2>4. lost \in Fresh(g, {})
    BY <2>3, ReconcileFailedFresh
  <2> HIDE DEF lost
  <2>5. FailAll(g, lost, stranded) \in Fresh(g, {})
    <3>1. {} \ (stranded \cap Nodes(g)) = {}
      OBVIOUS
    <3> QED BY <2>4, <3>1, FailAllFresh
  <2> DEFINE before == ReconcileFailed(g, FailAll(g, lost, stranded))
  <2>6. before \in Fresh(g, {})
    BY <2>5, ReconcileFailedFresh
  <2>7. settled = SkipStalled(before)
    OBVIOUS
  <2> HIDE DEF settled, before
  <2>8. settled \in Fresh(g, {})
    <3>1. before.dag \in Within(g, Kept(before.dag, {}))
      BY <2>6, FreshFields
    <3>2. SetState(before.dag, In(before, {"PENDING"}), "SKIPPED")
             \in Within(g, Kept(before.dag, {}))
      BY <3>1, SetStateWithin DEF Settled, Kept
    <3>3. [before EXCEPT !.dag = SetState(before.dag, In(before, {"PENDING"}), "SKIPPED")]
             \in Fresh(g, {})
      BY <2>6, <3>2, FreshReplaced
    <3> QED BY <2>6, <2>7, <3>3 DEF SkipStalled
  <2>9. settled \in ActiveRuns(g, {1}) /\ settled.dag \in Within(g, Kept(settled.dag, {}))
    BY <2>8, FreshFields
  <2>10. /\ ReconcileSettled(g, settled.dag) \in Within(g, Kept(settled.dag, {}))
         /\ Stuck(g, ReconcileSettled(g, settled.dag)) = {}
    BY <2>9, ReconcileSettledWithin
  <2>11. last \in Fresh(g, {}) /\ last.dag = ReconcileSettled(g, settled.dag)
    BY <2>8, <2>9, <2>10, FreshReplaced DEF ActiveRuns, Runs
  <2> HIDE DEF last
  <2>12. last \in ActiveRuns(g, {1}) /\ last.dag \in Engines(g)
    BY <2>11, FreshFields
  <2>13. q = IF In(settled, {"FAILED"}) # {} /\ IsRunTerminal(settled.dag)
             THEN [settled EXCEPT !.status = "failed"]
             ELSE IF IsRunTerminal(last.dag) THEN CompleteRun(last)
             ELSE last
    BY <1>2 DEF Recover, last, settled, before, lost, running
  <2>14. q \in Sound(g, {1})
    BY RecoverSound
  <2> HIDE DEF q
  <2>15. Active(q) => q = last /\ ~IsRunTerminal(last.dag)
    <3>1. ~Active([settled EXCEPT !.status = "failed"])
      BY <2>9 DEF Active, ActiveRuns, Runs
    <3>2. ~Active(CompleteRun(last))
      BY <2>12 DEF Active, ActiveRuns, Runs, CompleteRun
    <3> QED BY <2>13, <3>1, <3>2
  <2>16. Active(q) => Going(g, q.dag)
    BY <2>10, <2>11, <2>12, <2>15, NotTerminal DEF Going
  <2>17. q \in Live(g, {})
    BY <2>11, <2>14, <2>15, <2>16 DEF Live
  <2> QED BY <2>17 DEF q
<1> QED BY <1>1, <1>2

(* The invariant: an active run of the first round is going, and runs only *)
(* what executes a prompt.                                                 *)
FirstRoundLive == run.round = 1 => run \in Live(graph, Prompted(executing))

LEMMA LiveInit == Init => FirstRoundLive
<1> SUFFICES ASSUME Init PROVE run \in Live(graph, Prompted(executing))
  BY DEF FirstRoundLive
<1>1. IsGraph(graph) /\ run \in ActiveRuns(graph, {1})
  BY InitSound
<1>2. run.dag = NewEngine(graph)
  BY DEF Init, NewRun
<1>3. /\ run.dag \in Within(graph, [loops |-> run.dag.loops, running |-> {},
                                    pending |-> {}, again |-> {},
                                    done |-> {}, result |-> <<>>])
      /\ Stuck(graph, run.dag) = {}
      /\ \A n \in Nodes(graph) : run.dag.state[n] \in {"PENDING", "READY"}
  BY <1>1, <1>2, NewEngineWithin
<1>4. run \in Fresh(graph, {})
  BY <1>1, <1>3 DEF Fresh, Kept
<1>5. 1 \in Nodes(graph)
  BY <1>1 DEF IsGraph, Nodes
<1>6. Going(graph, run.dag)
  BY <1>3, <1>5 DEF Going, Settled
<1>7. run \in Live(graph, {})
  BY <1>1, <1>4, <1>6, ActiveIsSound DEF Live
<1> QED BY <1>7, LiveGrows

(* A node that has handed off does not run, whether or not it executes a   *)
(* prompt.                                                                 *)
LEMMA HandedRests ==
    ASSUME NEW g, NEW R, NEW r \in Live(g, R), NEW n \in r.dag.handed
    PROVE  r \in Live(g, R \ {n})
<1>1. CASE ~Active(r)
  BY <1>1, EndedIsLive DEF Live
<1>2. CASE Active(r)
  <2>1. r \in Fresh(g, R)
    BY <1>2 DEF Live
  <2>2. r \in ActiveRuns(g, {1}) /\ r.dag \in Within(g, Kept(r.dag, R))
    BY <2>1, FreshFields
  <2>3. r.dag \in Within(g, Kept(r.dag, R \ {n}))
    BY <2>2 DEF Within, Kept
  <2> QED BY <1>2, <2>2, <2>3 DEF Live, Fresh
<1> QED BY <1>1, <1>2

(* What the answer of e leaves behind executes all that the others do.     *)
LEMMA PromptedLess ==
    ASSUME NEW E, NEW e \in E
    PROVE  /\ Prompted(E) \ {e.node} \subseteq Prompted(E \ {e})
           /\ e.round # 1 => Prompted(E \ {e}) = Prompted(E)
BY DEF Prompted

LEMMA AnswerLive ==
    ASSUME IsGraph(graph), run \in Live(graph, Prompted(executing)), run.round = 1,
           NEW e \in executing, e.node \in Nodes(graph),
           NEW port \in {"done", FailurePort, "rejected"}, NEW contract,
           Answer(e, port, contract)
    PROVE  run' \in Live(graph, Prompted(executing \ {e}))
<1> DEFINE R == Prompted(executing)
           Q == Prompted(executing \ {e})
<1>1. R \ {e.node} \subseteq Q /\ (e.round # 1 => Q = R)
  BY PromptedLess
<1>2. run' = IF Current(run, e) THEN Applied(graph, run, e.node, port, contract) ELSE run
  BY DEF Answer
<1> HIDE DEF R, Q
<1>3. CASE Current(run, e)
  <2>1. Active(run) /\ run \in Live(graph, R)
    BY <1>3 DEF Current, R
  <2>2. Applied(graph, run, e.node, port, contract) \in Live(graph, R \ {e.node})
    BY <2>1, AppliedLive
  <2>3. \A r : r \in Live(graph, R \ {e.node}) => r \in Live(graph, Q)
    BY <1>1, LiveGrows
  <2> QED BY <1>2, <1>3, <2>2, <2>3 DEF Q
<1>4. CASE ~Current(run, e) /\ ~Active(run)
  BY <1>2, <1>4, EndedIsLive DEF Live
<1>5. CASE ~Current(run, e) /\ Active(run) /\ e.round # 1
  BY <1>1, <1>2, <1>5 DEF R, Q
<1>6. CASE ~Current(run, e) /\ Active(run) /\ e.round = 1
  <2>1. e.node \in run.dag.handed
    BY <1>6 DEF Current
  <2>2. run \in Live(graph, R \ {e.node})
    BY <2>1, HandedRests DEF R
  <2>3. run \in Live(graph, Q)
    BY <1>1, <2>2, LiveGrows
  <2> QED BY <1>2, <1>6, <2>3 DEF Q
<1> QED BY <1>3, <1>4, <1>5, <1>6

LEMMA LiveStep ==
    ASSUME TypedState, FirstRoundLive, [Next]_vars
    PROVE  FirstRoundLive'
<1> DEFINE R == Prompted(executing)
           Goal == run' \in Live(graph, Prompted(executing'))
<1>1. /\ IsGraph(graph) /\ graph' = graph
      /\ provisioning \in SUBSET Agents(graph) /\ deferred \in SUBSET Agents(graph)
      /\ executing \in SUBSET Prompts(graph)
      /\ Agents(graph) \subseteq Nodes(graph)
      /\ \A e \in executing : e.node \in Nodes(graph)
  BY TypedStep, GraphsAssumption DEF TypedState, Agents, Prompts
<1>2. CASE run.round # 1 \/ Opens
  <2>1. run \in Sound(graph, Rounds) /\ run.round \in Nat /\ run.round >= 1
    <3>1. run \in Sound(graph, Rounds)
      BY DEF TypedState
    <3>2. run.round \in Rounds
      BY <3>1 DEF Sound, Runs
    <3> QED BY <3>1, <3>2, BoundsAssumption DEF Rounds
  <2>2. Opens => run'.round = run.round + 1
    <3>1. ASSUME NEW S \in SUBSET Nodes(graph), S # {}, Resume(S)
          PROVE  run'.round = run.round + 1
      BY <1>1, <2>1, <3>1, ResumeSound DEF ActiveRuns, Runs
    <3> QED BY <3>1 DEF Opens
  <2>3. run' \in Sound(graph, {run.round}) => run'.round = run.round
    BY DEF Sound, Runs
  <2> QED BY <1>2, <2>1, <2>2, <2>3, TypedStep DEF FirstRoundLive
<1>3. CASE run.round = 1 /\ ~Opens
  <2> SUFFICES Goal
    BY <1>1 DEF FirstRoundLive
  <2>1. run \in Live(graph, R) /\ run' \in Sound(graph, {1})
    BY <1>3, TypedStep DEF FirstRoundLive
  <2>2. \A n \in Nodes(graph) : FailActiveRun(graph, run, n) \in Live(graph, R \ {n})
    BY <1>1, <2>1, FailActiveRunLive
  <2> HIDE DEF R
  <2>3. \A n \in Nodes(graph) : FailActiveRun(graph, run, n) \in Live(graph, R)
    <3>1. \A n : R \ {n} \subseteq R
      OBVIOUS
    <3> QED BY <2>2, <3>1, LiveGrows
  <2>4. ASSUME run' = run, executing' = executing PROVE Goal
    BY <2>1, <2>4 DEF R
  <2>5. ASSUME ~Active(run') PROVE Goal
    BY <2>1, <2>5, EndedIsLive
  <2>6. CASE DispatchReadyNodes
    <3>1. PICK outcome :
             /\ \A n \in Ready(run.dag) : outcome[n] \in Outcomes(graph, n)
             /\ \E pass \in {DispatchPass(graph, outcome)} :
                  /\ run' = pass.run
                  /\ executing' = pass.sent
      BY <2>6, Zenon DEF DispatchReadyNodes
    <3>2. LivePass(graph, DispatchPass(graph, outcome))
      BY <1>1, <2>1, <3>1, DispatchPassLive DEF R
    <3> QED BY <3>1, <3>2 DEF LivePass
  <2>7. ASSUME NEW n \in provisioning, Provisioned(n) PROVE Goal
    <3>1. n \in Nodes(graph)
      BY <1>1
    <3>2. CASE Active(run) /\ run.dag.state[n] = "READY" /\ run' = Send(run, n)
               /\ executing' = executing \cup {Prompt(run, n)}
      <4>1. run' \in Live(graph, R \cup {n})
        BY <2>1, <3>1, <3>2, SendLive
      <4>2. Prompt(run, n).node = n /\ Prompt(run, n).round = 1
        BY <1>3 DEF Prompt
      <4>3. R \cup {n} \subseteq Prompted(executing')
        BY <3>2, <4>2 DEF Prompted, R
      <4> QED BY <4>1, <4>3, LiveGrows
    <3>3. CASE run' = FailActiveRun(graph, run, n) /\ executing' = executing
      BY <2>3, <3>1, <3>3 DEF R
    <3>4. CASE run' = run /\ executing' = executing
      BY <2>4, <3>4
    <3> QED BY <2>7, <3>2, <3>3, <3>4 DEF Provisioned
  <2>8. ASSUME NEW n \in provisioning, ProvisioningFails(n) PROVE Goal
    BY <1>1, <2>3, <2>8 DEF ProvisioningFails, R
  <2>9. CASE RetryDeferred \/ FirstWorkerRegisters
    BY <2>4, <2>9 DEF RetryDeferred, FirstWorkerRegisters
  <2>10. ASSUME NEW n \in Nodes(graph), WorkerLost(n) PROVE Goal
    <3>1. run' \in Live(graph, R \ {n})
      BY <2>2, <2>10 DEF WorkerLost
    <3>2. R \ {n} \subseteq Prompted(executing')
      BY <2>10 DEF WorkerLost, Prompted, R
    <3> QED BY <3>1, <3>2, LiveGrows
  <2>11. ASSUME NEW e \in executing, NEW port \in {"done", FailurePort, "rejected"},
                NEW contract, Answer(e, port, contract)
         PROVE  Goal
    <3>1. run' \in Live(graph, Prompted(executing \ {e}))
      BY <1>1, <1>3, <2>1, <2>11, AnswerLive DEF R
    <3>2. executing' = executing \ {e}
      BY <2>11 DEF Answer
    <3> QED BY <3>1, <3>2
  <2>12. CASE Cancel \/ Complete \/ Expire
    <3>1. "status" \in DOMAIN run
      BY <2>1 DEF Live, Sound, Runs
    <3>2. ~Active(CancelRun(run)) /\ ~Active(CompleteRun(run)) /\ ~Active(ExpireRun(run))
      BY <3>1 DEF CancelRun, CompleteRun, ExpireRun, Active
    <3> QED BY <2>5, <2>12, <3>2 DEF Cancel, Complete, Expire
  <2>13. ASSUME NEW r \in Sound(graph, {1}), NEW Q, Active(r) => r \in Fresh(graph, Q),
                Restart(r)
         PROVE  Goal
    <3>1. Recover(graph, r) \in Live(graph, {})
      BY <1>1, <2>13, RecoverLive
    <3>2. run' \in Live(graph, {})
      BY <2>13, <3>1 DEF Restart
    <3> QED BY <3>2, LiveGrows
  <2>14. CASE Crash
    <3>1. run \in Sound(graph, {1}) /\ (Active(run) => run \in Fresh(graph, R))
      BY <2>1 DEF Live
    <3> QED BY <2>13, <2>14, <3>1 DEF Crash
  <2>15. ASSUME NEW e \in executing, NEW port \in {"done", FailurePort},
                CrashAfterHandoff(e, port)
         PROVE  Goal
    <3>1. Active(run) /\ e.node \in Nodes(graph) /\ port \in Ports
      BY <1>1, <2>15 DEF CrashAfterHandoff, Current, Ports
    <3>2. run \in Leaving(graph, R, e.node)
      BY <2>1, <3>1, FreshLeaves DEF Live
    <3>3. CommitHandoff(graph, run, e.node, port) \in Fresh(graph, R \ {e.node})
      BY <1>1, <3>1, <3>2, CommitHandoffFresh
    <3>4. CommitHandoff(graph, run, e.node, port) \in Sound(graph, {1})
      BY <3>3, FreshFields, ActiveIsSound
    <3> QED BY <2>13, <2>15, <3>3, <3>4 DEF CrashAfterHandoff
  <2>16. CASE UNCHANGED vars
    BY <2>4, <2>16 DEF vars
  <2> QED BY <1>3, <2>6, <2>7, <2>8, <2>9, <2>10, <2>11, <2>12, <2>14, <2>15, <2>16
          DEF Next, Opens
<1> QED BY <1>2, <1>3

LEMMA LiveAlways == Spec => []FirstRoundLive
<1>1. TypedState /\ FirstRoundLive /\ [Next]_vars => FirstRoundLive'
  BY LiveStep
<1> QED BY <1>1, LiveInit, TypedAlways, PTL DEF Spec

----------------------------------------------------------------------------
(* after_dep edges make no cycle: among any nodes one comes after none of  *)
(* the others.                                                             *)
Ordered(g) == \A S \in SUBSET Nodes(g) : S # {} => \E n \in S : g.after[n] \cap S = {}

(* Nothing routes to the nodes that come after nothing.                    *)
Rooted(g) == \A n \in Nodes(g) : g.after[n] = {} => RoutesTo(g, n) = {}

LEMMA StallsAtLoops ==
    ASSUME TypedState, FirstRoundLive, Ordered(graph)
    PROVE  OnlyLoopsStall
<1> SUFFICES ASSUME Active(run), run.round = 1, ~UnderWay, Ready(run.dag) = {},
                    PendingRoots = {},
                    \A n \in Nodes(graph) : ~RunningLoop(run.dag, n)
             PROVE  FALSE
  BY DEF OnlyLoopsStall
<1> DEFINE R == Prompted(executing)
           pending == {n \in Nodes(graph) : run.dag.state[n] = "PENDING"}
<1>1. run \in Fresh(graph, R) /\ Going(graph, run.dag)
  BY DEF FirstRoundLive, Live
<1>2. run.dag \in Within(graph, Kept(run.dag, R)) /\ run.dag \in Engines(graph)
      /\ DOMAIN run.dag.state = Nodes(graph)
  BY <1>1, FreshFields
<1>3. \A n \in Nodes(graph) :
         run.dag.state[n] \in Settled \cup {"PENDING", "READY", "RUNNING"}
  BY <1>2 DEF Engines, NodeStates, Settled
<1>4. \A n \in Nodes(graph) : run.dag.state[n] # "READY"
  BY <1>2 DEF Ready
<1>5. ASSUME NEW n \in Nodes(graph), run.dag.state[n] = "RUNNING" PROVE FALSE
  <2>1. n \notin run.dag.loops
    BY <1>5 DEF RunningLoop
  <2>2. n \in R /\ n \notin run.dag.handed
    BY <1>2, <1>5, <2>1 DEF Within, Kept
  <2>3. PICK e \in executing : e.round = 1 /\ e.node = n
    BY <2>2 DEF Prompted
  <2>4. Current(run, e)
    BY <2>2, <2>3 DEF Current
  <2> QED BY <2>3, <2>4 DEF UnderWay
<1>6. Stuck(graph, run.dag) = {}
  BY <1>1, <1>4, <1>5 DEF Going
<1>7. pending # {}
  BY <1>1, <1>3, <1>4, <1>5 DEF Going
<1>8. PICK n \in pending : graph.after[n] \cap pending = {}
  BY <1>7 DEF Ordered
<1>9. graph.after[n] # {}
  BY <1>2, <1>8 DEF PendingRoots, In
<1>10. graph.after[n] \subseteq Nodes(graph)
  BY <1>8, GraphsAssumption DEF TypedState, IsGraph
<1>11. \A m \in graph.after[n] : run.dag.state[m] \in Settled
  BY <1>3, <1>4, <1>5, <1>8, <1>10
<1>12. n \in Stuck(graph, run.dag)
  BY <1>8, <1>9, <1>11 DEF Stuck
<1> QED BY <1>6, <1>12

(* An active run of the first round that nothing will move any more and    *)
(* that has no ready node has a loop source at rest, in every graph and    *)
(* whatever failed, was skipped, was asked again or was recovered, unless  *)
(* a node waits that comes after nothing: no failure, skipped branch,      *)
(* correction or restart leaves a node pending for ever behind settled     *)
(* ones.  The exception is real: an iteration of a loop resets such a node *)
(* and reconcileSettledPendingNodes passes over it.                        *)
THEOREM LoopsAndRootsStall == Spec => [](Ordered(graph) => OnlyLoopsStall)
<1>1. TypedState /\ FirstRoundLive => (Ordered(graph) => OnlyLoopsStall)
  BY StallsAtLoops
<1> QED BY <1>1, TypedAlways, LiveAlways, PTL

(* In a graph none of whose first nodes is routed anything there is no     *)
(* such node: only loops stall.                                            *)
THEOREM LoopsStall == Spec => [](Ordered(graph) /\ Rooted(graph) => NothingElseStalls)
<1>1. ASSUME TypedState, FirstRoundLive, Ordered(graph), Rooted(graph) PROVE NothingElseStalls
  <2>1. CASE Active(run) /\ run.round = 1
    <3>1. run \in Fresh(graph, Prompted(executing))
      BY <1>1, <2>1 DEF FirstRoundLive, Live
    <3>2. run.dag \in Within(graph, Kept(run.dag, Prompted(executing)))
          /\ DOMAIN run.dag.state = Nodes(graph)
      BY <3>1, FreshFields
    <3>3. \A n \in Nodes(graph) : run.dag.state[n] = "PENDING" => n \in Linked(graph)
      BY <3>2 DEF Within, Kept
    <3>4. PendingRoots = {}
      BY <1>1, <3>2, <3>3 DEF PendingRoots, In, Linked, Rooted
    <3> QED BY <1>1, <3>4, StallsAtLoops DEF OnlyLoopsStall, NothingElseStalls
  <2>2. CASE ~(Active(run) /\ run.round = 1)
    BY <2>2 DEF NothingElseStalls
  <2> QED BY <2>1, <2>2
<1> QED BY <1>1, TypedAlways, LiveAlways, PTL

----------------------------------------------------------------------------
(* A round is scoped to its actors *)

(* Runs in which n has the result s, that no loop gateway takes back.      *)
Holding(g, K, n, s) == {r \in Sound(g, K) : r.dag.state[n] = s}

(* What ends a run settles what is not settled, and what is blamed.        *)
LEMMA EndingHolds ==
    ASSUME NEW g, NEW K, NEW n \in Nodes(g), NEW s \in Results, NEW r \in Holding(g, K, n, s)
    PROVE  /\ \A S : n \notin S => Abort(r, S).dag.state[n] = s
           /\ CancelRun(r).dag.state[n] = s
           /\ CompleteRun(r).dag.state[n] = s
           /\ ExpireRun(r).dag.state[n] = s
           /\ SkipStalled(r).dag.state[n] = s
<1>1. r \in Runs(g, K) /\ r.dag \in AnyEngines(g) /\ r.dag.state[n] = s
  BY DEF Holding, Sound, Runs
<1>2. \A S : S \cap Results = {} => n \notin In(r, S)
  BY <1>1 DEF In
<1>3. /\ n \notin In(r, {"PENDING"}) /\ n \notin In(r, {"READY", "RUNNING"})
      /\ n \notin In(r, {"READY", "RUNNING", "WAITING_FOR_COMMAND"})
      /\ n \notin In(r, {"WAITING_FOR_COMMAND"})
  BY <1>2 DEF Results
<1>4. \A d, S, t : n \in DOMAIN d.state /\ "state" \in DOMAIN d /\ n \notin S
                     => /\ SetState(d, S, t).state[n] = d.state[n]
                        /\ n \in DOMAIN SetState(d, S, t).state
                        /\ "state" \in DOMAIN SetState(d, S, t)
  BY DEF SetState
<1>5. n \in DOMAIN r.dag.state /\ "state" \in DOMAIN r.dag
  BY <1>1 DEF AnyEngines
<1>6. \A d : [r EXCEPT !.dag = d].dag = d
             /\ \A t : [r EXCEPT !.status = t, !.dag = d].dag = d
  BY <1>1 DEF Runs
<1>7. \A S : n \notin S => Abort(r, S).dag.state[n] = s
  BY <1>1, <1>3, <1>4, <1>5, <1>6 DEF Abort
<1>8. CancelRun(r).dag.state[n] = s
  BY <1>1, <1>3, <1>4, <1>5, <1>6 DEF CancelRun
<1>9. CompleteRun(r).dag.state[n] = s /\ ExpireRun(r).dag.state[n] = s
  BY <1>1, <1>3, <1>4, <1>5, <1>6 DEF CompleteRun, ExpireRun
<1>10. SkipStalled(r).dag.state[n] = s
  BY <1>1, <1>3, <1>4, <1>5, <1>6 DEF SkipStalled
<1> QED BY <1>7, <1>8, <1>9, <1>10

LEMMA ActiveHolds ==
    ASSUME NEW g, NEW K, NEW n, NEW s, NEW r \in ActiveRuns(g, K), r.dag.state[n] = s
    PROVE  r \in Holding(g, K, n, s)
BY ActiveIsSound DEF Holding

LEMMA FailureHolds ==
    ASSUME NEW g, NEW K, IsGraph(g), NEW n \in Nodes(g) \ Iterated(g), NEW s \in Results,
           NEW r \in Holding(g, K, n, s), NEW f \in Nodes(g) \ {n}
    PROVE  FailActiveRun(g, r, f) \in Holding(g, K, n, s)
<1> DEFINE q == [r EXCEPT !.dag = FailNode(g, r.dag, f)]
           p == SkipStalled(q)
<1>1. r \in Sound(g, K) /\ FailActiveRun(g, r, f) \in Sound(g, K)
  BY FailActiveRunSound DEF Holding
<1>2. CASE ~Active(r)
  BY <1>2 DEF FailActiveRun
<1>3. CASE Active(r)
  <2>1. r \in ActiveRuns(g, K) /\ r.dag \in Engines(g) /\ r.dag.state[n] = s
    BY <1>1, <1>3, ActiveIsSound, ActiveFields DEF Holding
  <2>2. q \in ActiveRuns(g, K) /\ q.dag = FailNode(g, r.dag, f)
    BY <2>1, FailNodeTyped, DagReplaced DEF ActiveRuns, Runs
  <2>3. q.dag.state[n] = s
    BY <2>1, <2>2, ResultKept
  <2> HIDE DEF q
  <2>4. q \in Holding(g, K, n, s) /\ p \in ActiveRuns(g, K)
    BY <2>2, <2>3, ActiveHolds, SkipStalledActive
  <2>5. p \in Holding(g, K, n, s)
    <3>1. p.dag.state[n] = s
      BY <2>4, EndingHolds
    <3> QED BY <2>4, <3>1, ActiveHolds
  <2> HIDE DEF p
  <2>6. [p EXCEPT !.status = "failed"].dag = p.dag
    BY <2>4 DEF ActiveRuns, Runs
  <2>7. AfterFailure(g, p, f).dag.state[n] = s
    BY <2>5, <2>6, EndingHolds DEF AfterFailure, Holding
  <2>8. FailActiveRun(g, r, f) = AfterFailure(g, p, f)
    BY <1>3 DEF FailActiveRun, p, q
  <2> QED BY <1>1, <2>7, <2>8 DEF Holding
<1> QED BY <1>2, <1>3

LEMMA HandoffHolds ==
    ASSUME NEW g, NEW K, IsGraph(g), NEW n \in Nodes(g) \ Iterated(g), NEW s \in Results,
           NEW r \in ActiveRuns(g, K), r.dag.state[n] = s, NEW f \in Nodes(g) \ {n},
           NEW port \in Ports
    PROVE  /\ CommitHandoff(g, r, f, port) \in Holding(g, K, n, s)
           /\ HandoffActiveRun(g, r, f, port) \in Holding(g, K, n, s)
<1> DEFINE q == CommitHandoff(g, r, f, port)
<1>0. q.dag = Handoff(g, r.dag, f, port)
  BY DEF CommitHandoff, ActiveRuns, Runs
<1>1. q \in ActiveRuns(g, K) /\ q.dag = Handoff(g, r.dag, f, port)
  BY <1>0, CommitHandoffActive
<1>2. q.dag.state[n] = s
  BY <1>1, ActiveFields, ResultKept
<1> HIDE DEF q
<1>3. q \in Holding(g, K, n, s) /\ r \in Holding(g, K, n, s)
  BY <1>1, <1>2, ActiveHolds
<1>4. Abort(r, {f}).dag.state[n] = s /\ AfterHandoff(g, q, f, port).dag.state[n] = s
  BY <1>3, EndingHolds DEF AfterHandoff, Holding
<1>5. HandoffActiveRun(g, r, f, port).dag.state[n] = s
  BY <1>4 DEF HandoffActiveRun, q
<1> QED BY <1>3, <1>5, HandoffSound DEF Holding, q

LEMMA CorrectHolds ==
    ASSUME NEW g, NEW K, IsGraph(g), NEW n \in Nodes(g) \ Iterated(g), NEW s \in Results,
           NEW r \in ActiveRuns(g, K), r.dag.state[n] = s, NEW f \in Nodes(g) \ {n},
           r.counters.corrections[f] < MaxCorrections
    PROVE  Correct(g, r, f) \in Holding(g, K, n, s)
<1> DEFINE e == ReopenSkipped(g, r.dag, f)
           d == [e EXCEPT !.state[f] = "READY", !.handed = @ \ {f}]
<1>1. e \in Engines(g) /\ e.state[n] = s
  BY ActiveFields, ReopenSkippedTyped, ResultKept
<1> HIDE DEF e
<1>2. d.state[n] = s
  BY <1>1 DEF Engines
<1>3. Correct(g, r, f).dag = d
  BY DEF Correct, e, ActiveRuns, Runs
<1> QED BY <1>2, <1>3, CorrectActive, ActiveHolds

LEMMA AppliedHolds ==
    ASSUME NEW g, NEW K, IsGraph(g), NEW n \in Nodes(g) \ Iterated(g), NEW s \in Results,
           NEW r \in Holding(g, K, n, s), Active(r), NEW f \in Nodes(g) \ {n},
           NEW port \in {"done", FailurePort, "rejected"}, NEW contract
    PROVE  Applied(g, r, f, port, contract) \in Holding(g, K, n, s)
<1>1. r \in ActiveRuns(g, K) /\ r.dag.state[n] = s
  BY ActiveIsSound DEF Holding
<1>2. FailActiveRun(g, r, f) \in Holding(g, K, n, s)
  BY FailureHolds
<1>3. \A t \in Ports : HandoffActiveRun(g, r, f, t) \in Holding(g, K, n, s)
  BY <1>1, HandoffHolds
<1>4. r.counters.corrections[f] < MaxCorrections => Correct(g, r, f) \in Holding(g, K, n, s)
  BY <1>1, CorrectHolds
<1>5. TryCorrect(g, r, f, contract) \in Holding(g, K, n, s)
  BY <1>2, <1>3, <1>4 DEF TryCorrect, Ports
<1>6. port # "rejected" => port \in Ports
  BY DEF Ports
<1> QED BY <1>3, <1>5, <1>6 DEF Applied

LEMMA GatewayHolds ==
    ASSUME NEW g, NEW K, IsGraph(g), NEW n \in Nodes(g) \ Iterated(g), NEW s \in Results,
           NEW r \in Holding(g, K, n, s), NEW f \in Nodes(g) \ {n}, NEW passed
    PROVE  ExecuteGateway(g, r, f, passed) \in Holding(g, K, n, s)
<1> DEFINE port == GatewayPort(g, r, f, passed)
           q == CountIteration(g, r, f, port)
<1>1. CASE ~Active(r)
  BY <1>1 DEF ExecuteGateway
<1>2. CASE Active(r)
  <2>1. r \in ActiveRuns(g, K) /\ r.dag.state[n] = s
    BY <1>2, ActiveIsSound DEF Holding
  <2>2. CloseRound(r, f).dag.state[n] = s
    BY <2>1 DEF CloseRound, ActiveRuns, Runs, AnyEngines
  <2>3. g.kind[f] = "await" => CloseRound(r, f) \in Holding(g, K, n, s)
    BY <2>1, <2>2, CloseRoundSound DEF Holding
  <2>4. port \in Ports
    BY DEF GatewayPort, Ports, FailurePort
  <2>5. q \in ActiveRuns(g, K) /\ q.dag.state[n] = s
    <3>1. q.dag.state = r.dag.state
      BY <2>1 DEF CountIteration, ActiveRuns, Runs, AnyEngines
    <3> QED BY <2>1, <3>1, CountIterationActive
  <2> HIDE DEF port, q
  <2>6. LeaveGateway(g, q, f, port) \in Holding(g, K, n, s)
    <3>1. q \in Holding(g, K, n, s)
      BY <2>5, ActiveHolds
    <3> QED BY <2>4, <2>5, <3>1, FailureHolds, HandoffHolds DEF LeaveGateway
  <2> QED BY <1>2, <2>3, <2>6 DEF ExecuteGateway, port, q
<1> QED BY <1>1, <1>2

LEMMA SendHolds ==
    ASSUME NEW g, NEW K, NEW n \in Nodes(g), NEW s, NEW r \in Holding(g, K, n, s), Active(r),
           NEW f \in Nodes(g) \ {n}
    PROVE  Send(r, f) \in Holding(g, K, n, s)
<1>1. r \in ActiveRuns(g, K) /\ r.dag.state[n] = s /\ r \in Sound(g, K)
  BY ActiveIsSound DEF Holding
<1>2. Send(r, f).dag.state[n] = s
  BY <1>1 DEF Send, ActiveRuns, Runs, AnyEngines
<1> QED BY <1>1, <1>2, SendSound DEF Holding

(* A pass dispatches only what was ready when it began.                    *)
LEMMA DispatchHolds ==
    ASSUME NEW g, NEW K \in SUBSET (1 .. MaxRounds), IsGraph(g),
           NEW n \in Nodes(g) \ Iterated(g), NEW s \in Results, NEW p \in PassStates(g, K),
           p.run \in Holding(g, K, n, s), NEW f \in Nodes(g) \ {n}, NEW outcome \in Outcomes(g, f)
    PROVE  DispatchNode(g, p, f, outcome).run \in Holding(g, K, n, s)
<1>1. CASE Gateway(g, f)
  <2> DEFINE r == ExecuteGateway(g, p.run, f, outcome = "passed")
  <2>1. r \in Holding(g, K, n, s)
    BY GatewayHolds
  <2> HIDE DEF r
  <2>2. [p EXCEPT !.run = r, !.done = ~Active(r)].run = r
    BY DEF PassStates
  <2> QED BY <1>1, <2>1, <2>2 DEF DispatchNode, r
<1>2. CASE ~Gateway(g, f)
  <2>1. FailActiveRun(g, p.run, f) \in Holding(g, K, n, s)
    BY FailureHolds
  <2>2. Active(p.run) => Send(p.run, f) \in Holding(g, K, n, s)
    BY SendHolds
  <2>3. outcome \in {"sent", "provisioning", "deferred", "failed"}
    BY <1>2 DEF Outcomes
  <2>4. \/ DispatchAgent(g, p, f, outcome).run \in {p.run, FailActiveRun(g, p.run, f)}
        \/ Active(p.run) /\ DispatchAgent(g, p, f, outcome).run = Send(p.run, f)
    BY <2>3 DEF DispatchAgent, PassStates
  <2> QED BY <1>2, <2>1, <2>2, <2>4 DEF DispatchNode
<1> QED BY <1>1, <1>2

LEMMA DispatchPassHolds ==
    ASSUME NEW g, NEW K \in SUBSET (1 .. MaxRounds), IsGraph(g), run \in Sound(g, K),
           provisioning \in SUBSET Agents(g), deferred \in SUBSET Agents(g),
           executing \in SUBSET Prompts(g), NEW outcome,
           \A m \in Ready(run.dag) : outcome[m] \in Outcomes(g, m),
           NEW n \in Nodes(g) \ Iterated(g), run.dag.state[n] \in Results
    PROVE  DispatchPass(g, outcome).run.dag.state[n] = run.dag.state[n]
<1> DEFINE s == run.dag.state[n]
           start == [run |-> run, prov |-> provisioning, wait |-> deferred,
                     sent |-> executing, done |-> FALSE]
           X == {p \in PassStates(g, K) : p.run \in Holding(g, K, n, s)}
           N == g.size
           Step(e, i) == IF i \in Ready(run.dag)
                         THEN IF e.done THEN e ELSE DispatchNode(g, e, i, outcome[i])
                         ELSE e
           F == [i \in 1 .. N |-> [e \in X |-> Step(e, i)]]
           Body(h) == [i \in 0 .. N |-> IF i = 0 THEN start ELSE Step(h[i - 1], i)]
           upTo == CHOOSE h : h = Body(h)
<1>1. N \in Nat /\ start \in X
  BY DEF IsGraph, PassStates, Holding
<1>2. IsStep(F, N, X)
  <2>1. n \notin Ready(run.dag) /\ s \in Results
    BY DEF Ready, Results
  <2>2. ASSUME NEW e \in X, NEW i \in 1 .. N PROVE Step(e, i) \in X
    <3> HIDE DEF s
    <3>1. CASE i \in Ready(run.dag) /\ ~e.done
      <4>1. i \in Nodes(g) \ {n} /\ outcome[i] \in Outcomes(g, i)
        BY <2>1, <3>1 DEF Nodes
      <4>2. DispatchNode(g, e, i, outcome[i]).run \in Holding(g, K, n, s)
        BY <2>1, <2>2, <4>1, DispatchHolds
      <4>3. DispatchNode(g, e, i, outcome[i]) \in PassStates(g, K)
        BY <2>2, <4>1, DispatchNodeSound
      <4> QED BY <3>1, <4>2, <4>3
    <3>2. CASE ~(i \in Ready(run.dag) /\ ~e.done)
      BY <2>2, <3>2
    <3> QED BY <3>1, <3>2
  <2> QED BY <2>2 DEF IsStep
<1>3. DispatchPass(g, outcome) = upTo[N]
  BY DEF DispatchPass, ForEach
<1> HIDE DEF Step, X, N, start
<1>4. ASSUME NEW f, IsIteration(f, F, N, X, start) PROVE Follows(upTo, F, N, X)
  <2>1. f = Body(f)
    <3> HIDE DEF F
    <3>1. \A i \in 1 .. N : F[i][f[i - 1]] = Step(f[i - 1], i)
      BY <1>1, <1>4, IterationUnfolds DEF F
    <3> QED BY <1>1, <1>4, <3>1, IterationUnfolds
  <2>2. upTo = Body(upTo)
    <3> HIDE DEF Body
    <3> QED BY <2>1
  <2> HIDE DEF upTo
  <2> QED BY <1>1, <2>2 DEF Follows
<1> HIDE DEF F, upTo
<1>5. upTo[N] \in X
  BY <1>1, <1>2, <1>4, Recursion
<1> QED BY <1>3, <1>5 DEF X, Holding

(* The recovery fails only what runs.                                      *)
LEMMA FailAllHolds ==
    ASSUME NEW g, NEW K, IsGraph(g), NEW n \in Nodes(g) \ Iterated(g), NEW s \in Results,
           NEW r \in ActiveRuns(g, K), r.dag.state[n] = s, NEW S, n \notin S
    PROVE  FailAll(g, r, S).dag.state[n] = s
<1> DEFINE N == g.size
           X == [i \in 0 .. N |-> {q \in ActiveRuns(g, K) : q.dag.state[n] = s}]
<1>1. N \in Nat
  BY DEF IsGraph
<1>2. PICK f : /\ FailAll(g, r, S) = f[N] /\ f[0] = r
               /\ \A i \in 1 .. N :
                     f[i] = IF i \in S
                            THEN [f[i - 1] EXCEPT !.dag = FailNode(g, f[i - 1].dag, i)]
                            ELSE f[i - 1]
  BY <1>1, FailAllIterates
<1>3. f[0] \in X[0]
  BY <1>1, <1>2
<1>4. ASSUME NEW i \in 1 .. N, f[i - 1] \in X[i - 1] PROVE f[i] \in X[i]
  <2> DEFINE e == f[i - 1]
             d == FailNode(g, e.dag, i)
  <2>1. e \in ActiveRuns(g, K) /\ e.dag.state[n] = s /\ e.dag \in Engines(g)
    BY <1>1, <1>4, ActiveFields
  <2>2. X[i] = {q \in ActiveRuns(g, K) : q.dag.state[n] = s} /\ i \in Nodes(g)
    BY <1>1 DEF Nodes
  <2>3. f[i] = IF i \in S THEN [e EXCEPT !.dag = d] ELSE e
    BY <1>2
  <2> HIDE DEF e, X
  <2>4. d \in Engines(g) /\ (i \in S => d.state[n] = s)
    BY <2>1, <2>2, FailNodeTyped, ResultKept
  <2> HIDE DEF d
  <2>5. [e EXCEPT !.dag = d] \in ActiveRuns(g, K) /\ [e EXCEPT !.dag = d].dag = d
    BY <2>1, <2>4, DagReplaced DEF ActiveRuns, Runs
  <2> QED BY <2>1, <2>2, <2>3, <2>4, <2>5
<1>5. X[N] = {q \in ActiveRuns(g, K) : q.dag.state[n] = s}
  BY <1>1
<1> HIDE DEF X, N
<1>6. f[N] \in X[N]
  BY <1>1, <1>3, <1>4, StaysStepwise
<1> QED BY <1>2, <1>5, <1>6

LEMMA ReconcileFailedHolds ==
    ASSUME NEW g, NEW K, IsGraph(g), NEW n \in Nodes(g) \ Iterated(g), NEW s \in Results,
           NEW r \in ActiveRuns(g, K), r.dag.state[n] = s
    PROVE  ReconcileFailed(g, r).dag.state[n] = s
<1> DEFINE X == {q \in ActiveRuns(g, K) : q.dag.state[n] = s}
           N == g.size
           Step(e, i) == IF i \in In(r, {"FAILED"})
                         THEN [e EXCEPT !.dag = SkipDependentsOfFailed(g, @, i)]
                         ELSE e
           F == [i \in 1 .. N |-> [e \in X |-> Step(e, i)]]
           Body(h) == [i \in 0 .. N |-> IF i = 0 THEN r ELSE Step(h[i - 1], i)]
           upTo == CHOOSE h : h = Body(h)
<1>1. N \in Nat /\ r \in X
  BY DEF IsGraph
<1>2. IsStep(F, N, X)
  <2>1. ASSUME NEW e \in X, NEW i \in 1 .. N PROVE Step(e, i) \in X
    <3> DEFINE d == SkipDependentsOfFailed(g, e.dag, i)
    <3>1. e \in ActiveRuns(g, K) /\ e.dag \in Engines(g) /\ e.dag.state[n] = s
      BY <2>1, ActiveFields
    <3>2. d \in Engines(g) /\ d.state[n] = s
      BY <3>1, SkipTyped, ResultKept
    <3> HIDE DEF d
    <3>3. [e EXCEPT !.dag = d] \in ActiveRuns(g, K) /\ [e EXCEPT !.dag = d].dag = d
      BY <3>1, <3>2, DagReplaced DEF ActiveRuns, Runs
    <3> QED BY <3>1, <3>2, <3>3 DEF d
  <2> QED BY <2>1 DEF IsStep
<1>3. ReconcileFailed(g, r) = upTo[N]
  BY DEF ReconcileFailed, ForEach
<1> HIDE DEF Step, X, N
<1>4. ASSUME NEW f, IsIteration(f, F, N, X, r) PROVE Follows(upTo, F, N, X)
  <2>1. f = Body(f)
    <3> HIDE DEF F
    <3>1. \A i \in 1 .. N : F[i][f[i - 1]] = Step(f[i - 1], i)
      BY <1>1, <1>4, IterationUnfolds DEF F
    <3> QED BY <1>1, <1>4, <3>1, IterationUnfolds
  <2>2. upTo = Body(upTo)
    <3> HIDE DEF Body
    <3> QED BY <2>1
  <2> HIDE DEF upTo
  <2> QED BY <1>1, <2>2 DEF Follows
<1> HIDE DEF F, upTo
<1>5. upTo[N] \in X
  BY <1>1, <1>2, <1>4, Recursion
<1> QED BY <1>3, <1>5 DEF X

LEMMA RecoverHolds ==
    ASSUME NEW g, NEW K, IsGraph(g), NEW n \in Nodes(g) \ Iterated(g), NEW s \in Results,
           NEW r \in Holding(g, K, n, s)
    PROVE  Recover(g, r).dag.state[n] = s
<1> DEFINE lost     == ReconcileFailed(g, FailAll(g, r, In(r, {"RUNNING"}) \ r.dag.loops))
           stranded == {m \in Nodes(g) : /\ RunningLoop(lost.dag, m)
                                         /\ m \notin LiveSources(g, lost)}
           before   == ReconcileFailed(g, FailAll(g, lost, stranded))
           settled  == SkipStalled(before)
           last     == [settled EXCEPT !.dag = ReconcileSettled(g, @)]
           Keeps(q) == q \in ActiveRuns(g, K) /\ q.dag.state[n] = s
<1>1. CASE ~Active(r)
  BY <1>1 DEF Recover, Holding
<1>2. CASE Active(r)
  <2>1. Keeps(r)
    BY <1>2, ActiveIsSound DEF Holding
  <2>2. ASSUME NEW q, Keeps(q), NEW S, n \notin S
        PROVE  Keeps(ReconcileFailed(g, FailAll(g, q, S)))
    <3>1. Keeps(FailAll(g, q, S))
      BY <2>2, FailAllActive, FailAllHolds
    <3> QED BY <3>1, ReconcileFailedActive, ReconcileFailedHolds
  <2>3. n \notin In(r, {"RUNNING"}) \ r.dag.loops
    BY <2>1 DEF In, Results
  <2>4. Keeps(lost)
    BY <2>1, <2>2, <2>3
  <2> HIDE DEF lost
  <2>5. n \notin stranded
    BY <2>4 DEF RunningLoop, Results
  <2>6. Keeps(before)
    BY <2>2, <2>4, <2>5
  <2> HIDE DEF before
  <2>7. Keeps(settled)
    <3>1. before \in Holding(g, K, n, s)
      BY <2>6, ActiveHolds
    <3>2. SkipStalled(before).dag.state[n] = s
      BY <3>1, EndingHolds
    <3> QED BY <2>6, <3>2, SkipStalledActive
  <2> HIDE DEF settled
  <2> DEFINE d == ReconcileSettled(g, settled.dag)
  <2>8. d \in Engines(g) /\ d.state[n] = s
    BY <2>7, ActiveFields, ReconcileSettledTyped, ResultKept
  <2>9. last = [settled EXCEPT !.dag = d]
    OBVIOUS
  <2> HIDE DEF d, last
  <2>10. Keeps(last)
    BY <2>7, <2>8, <2>9, DagReplaced DEF ActiveRuns, Runs
  <2>11. CompleteRun(last).dag.state[n] = s
    <3>1. last \in Holding(g, K, n, s)
      BY <2>10, ActiveHolds
    <3> QED BY <3>1, EndingHolds
  <2>12. [settled EXCEPT !.status = "failed"].dag = settled.dag
    BY <2>7 DEF ActiveRuns, Runs
  <2>13. Recover(g, r) = IF In(settled, {"FAILED"}) # {} /\ IsRunTerminal(settled.dag)
                         THEN [settled EXCEPT !.status = "failed"]
                         ELSE IF IsRunTerminal(last.dag) THEN CompleteRun(last)
                         ELSE last
    BY <1>2 DEF Recover, last, d, settled, before, lost
  <2> QED BY <2>7, <2>10, <2>11, <2>12, <2>13
<1> QED BY <1>1, <1>2

(* Besides the commanded actors a round takes in gateways alone, and of    *)
(* those only what comes after something.                                  *)
LEMMA RoundNodesGateways ==
    ASSUME NEW g, IsGraph(g), NEW r, NEW S \in SUBSET Nodes(g)
    PROVE  \A n \in RoundNodes(g, r, S) \ S : Gateway(g, n)
<1>1. PICK f : /\ RoundNodes(g, r, S) = f[g.size] /\ f[0] = S
               /\ \A i \in 1 .. g.size :
                     f[i] = RoundStep(g, In(r, {"WAITING_FOR_COMMAND"}), f[i - 1])
  BY RoundNodesIterate
<1> DEFINE only(T) == \A m \in T \ S : Gateway(g, m)
           B == {n \in Nat : n <= g.size => only(f[n])}
<1>2. g.size \in Nat
  BY DEF IsGraph
<1>3. 0 \in B
  BY <1>1
<1>4. ASSUME NEW n \in Nat, n \in B PROVE n + 1 \in B
  <2> SUFFICES ASSUME n + 1 <= g.size PROVE only(f[n + 1])
    OBVIOUS
  <2>1. n + 1 \in 1 .. g.size /\ (n + 1) - 1 = n /\ only(f[n])
    BY <1>2, <1>4
  <2>2. f[n + 1] = RoundStep(g, In(r, {"WAITING_FOR_COMMAND"}), f[n])
    BY <1>1, <2>1
  <2> QED BY <2>1, <2>2 DEF RoundStep
<1> HIDE DEF B
<1>5. g.size \in B
  BY <1>2, <1>3, <1>4, SetInduction
<1> QED BY <1>1, <1>2, <1>5 DEF B

LEMMA ResumeHolds ==
    ASSUME IsGraph(graph), NEW K, run \in Sound(graph, K), NEW S \in SUBSET Nodes(graph),
           S # {}, Resume(S), NEW n \in Nodes(graph) \ S, ~Gateway(graph, n),
           run.dag.state[n] \in Results
    PROVE  run'.dag.state[n] = run.dag.state[n]
<1> DEFINE nodes == RoundNodes(graph, run, S)
           carried == [m \in Nodes(graph) |-> Carried(graph, run, nodes, m)]
           d == ResetForRound(graph, run.dag, nodes, carried)
<1>1. run.status = "waiting" /\ run \in Runs(graph, K) /\ run.dag \in AnyEngines(graph)
      /\ \A m \in S : Reaches(graph, run, m)
  BY DEF Resume, Sound, Runs
<1>2. carried \in Mailboxes(graph)
  BY DEF Carried, Mailboxes, RouteSources, IsGraph, RoutesTo
<1>3. run'.dag = d
  <2> HIDE DEF d
  <2>1. run' = [run EXCEPT !.status = "active", !.round = @ + 1,
                           !.counters = InitialCounters(graph), !.seeded = @ \cup S,
                           !.commands = S, !.dag = d]
    BY DEF Resume, d
  <2> QED BY <1>1, <2>1 DEF Runs
<1> HIDE DEF carried
<1>4. \A m \in Nodes(graph) : run.dag.state[m] = "WAITING_FOR_COMMAND" => m \in nodes
  BY <1>1, RoundTakesWaiting
<1>5. n \notin nodes
  BY RoundNodesGateways
<1> HIDE DEF nodes
<1>6. d.state[n] = run.dag.state[n]
  BY <1>1, <1>2, <1>4, <1>5, ResetForRoundTyped
<1> QED BY <1>3, <1>6

(* A round is scoped to the actors it commands, in every graph and for any *)
(* commands, failures, corrections, late answers and restarts: no other    *)
(* agent that completed or failed changes, unless a loop gateway iterates  *)
(* it or a Worker is being provisioned for it.                             *)
THEOREM RoundsAreScoped == Spec => RoundScoped
<1> DEFINE Scoped(n) ==
              /\ run'.round > 1
              /\ ~Gateway(graph, n)
              /\ n \notin run.commands \cup run'.commands
              /\ run.dag.state[n] \in {"COMPLETED", "FAILED"}
              /\ run'.dag.state[n] # run.dag.state[n]
              => n \in Iterated(graph) \cup provisioning
<1>1. ASSUME TypedState, [Next]_vars, NEW n \in Nodes(graph) PROVE Scoped(n)
  <2> SUFFICES ASSUME run'.round > 1, ~Gateway(graph, n),
                      n \notin run.commands, n \notin run'.commands,
                      run.dag.state[n] \in Results, n \notin Iterated(graph),
                      n \notin provisioning
               PROVE  run'.dag.state[n] = run.dag.state[n]
    BY DEF Results
  <2> DEFINE s == run.dag.state[n]
             H == Holding(graph, {run.round}, n, s)
             Goal == run'.dag.state[n] = s
  <2> SUFFICES Goal
    OBVIOUS
  <2>1. /\ IsGraph(graph) /\ graph' = graph /\ run \in Sound(graph, {run.round})
        /\ {run.round} \in SUBSET (1 .. MaxRounds) /\ run.round \in Nat /\ run.round >= 1
        /\ provisioning \in SUBSET Agents(graph) /\ deferred \in SUBSET Agents(graph)
        /\ executing \in SUBSET Prompts(graph)
        /\ Agents(graph) \subseteq Nodes(graph)
        /\ \A e \in executing : e.node \in Nodes(graph)
    <3>1. run.round \in Rounds /\ run \in Sound(graph, {run.round})
      BY <1>1, RoundsOfSound DEF TypedState
    <3> QED BY <1>1, <3>1, TypedStep, GraphsAssumption, BoundsAssumption
            DEF TypedState, Agents, Prompts, Rounds
  <2>2. n \in Nodes(graph) \ Iterated(graph) /\ s \in Results /\ run \in H
    BY <2>1 DEF Holding
  <2> HIDE DEF s
  <2>3. ASSUME NEW f \in Nodes(graph), f # n PROVE FailActiveRun(graph, run, f).dag.state[n] = s
    BY <2>1, <2>2, <2>3, FailureHolds DEF Holding
  <2>4. run' \in Sound(graph, {run.round}) => run'.round = run.round
    BY DEF Sound, Runs
  <2>5. ASSUME run' = run PROVE Goal
    BY <2>2, <2>5 DEF Holding
  <2>6. CASE DispatchReadyNodes
    <3>1. PICK outcome :
             /\ \A m \in Ready(run.dag) : outcome[m] \in Outcomes(graph, m)
             /\ \E pass \in {DispatchPass(graph, outcome)} : run' = pass.run
      BY <2>6, Zenon DEF DispatchReadyNodes
    <3>2. DispatchPass(graph, outcome).run.dag.state[n] = s
      BY <2>1, <2>2, <3>1, DispatchPassHolds DEF s
    <3> QED BY <3>1, <3>2
  <2>7. ASSUME NEW m \in provisioning, Provisioned(m) PROVE Goal
    <3>1. m \in Nodes(graph) /\ m # n
      BY <2>1
    <3>2. Active(run) => Send(run, m).dag.state[n] = s
      BY <2>2, <3>1, SendHolds DEF Holding
    <3>3. \/ run' = run \/ run' = FailActiveRun(graph, run, m)
          \/ Active(run) /\ run' = Send(run, m)
      BY <2>7 DEF Provisioned
    <3> QED BY <2>3, <2>5, <3>1, <3>2, <3>3
  <2>8. ASSUME NEW m \in provisioning, ProvisioningFails(m) PROVE Goal
    <3>1. m \in Nodes(graph) /\ m # n
      BY <2>1
    <3> QED BY <2>3, <2>8, <3>1 DEF ProvisioningFails
  <2>9. CASE RetryDeferred \/ FirstWorkerRegisters
    BY <2>5, <2>9 DEF RetryDeferred, FirstWorkerRegisters
  <2>10. ASSUME NEW m \in Nodes(graph), WorkerLost(m) PROVE Goal
    <3>1. m # n
      BY <2>2, <2>10 DEF WorkerLost, Results, s
    <3> QED BY <2>3, <2>10, <3>1 DEF WorkerLost
  <2>11. ASSUME NEW e \in executing, Current(run, e), ~(\E S : Resume(S)) 
         PROVE  e.node \in Nodes(graph) \ {n}
    <3>1. run' \in Sound(graph, {run.round})
      BY <1>1, <2>11, TypedStep DEF Opens
    <3>2. run.round > 1
      BY <2>4, <3>1
    <3> QED BY <2>1, <2>11, <3>2 DEF Current
  <2>12. ASSUME NEW e \in executing, NEW port \in {"done", FailurePort, "rejected"},
                NEW contract, Answer(e, port, contract)
         PROVE  Goal
    <3>1. CASE ~Current(run, e)
      BY <2>5, <2>12, <3>1 DEF Answer
    <3>2. CASE Current(run, e)
      <4>1. ~(\E S : Resume(S))
        BY <3>2 DEF Current, Active, Resume
      <4>2. e.node \in Nodes(graph) \ {n} /\ Active(run)
        BY <2>11, <3>2, <4>1 DEF Current
      <4>3. Applied(graph, run, e.node, port, contract) \in H
        BY <2>1, <2>2, <4>2, AppliedHolds
      <4>4. run' = Applied(graph, run, e.node, port, contract)
        BY <2>12, <3>2 DEF Answer
      <4> QED BY <4>3, <4>4 DEF Holding
    <3> QED BY <3>1, <3>2
  <2>13. CASE Cancel \/ Complete \/ Expire
    <3>1. /\ CancelRun(run).dag.state[n] = s
          /\ CompleteRun(run).dag.state[n] = s
          /\ ExpireRun(run).dag.state[n] = s
      BY <2>2, EndingHolds
    <3> QED BY <2>13, <3>1 DEF Cancel, Complete, Expire
  <2>14. ASSUME NEW S \in SUBSET Nodes(graph), S # {}, Resume(S) PROVE Goal
    <3>1. run' = [run EXCEPT !.status = "active", !.round = run.round + 1,
                             !.counters = InitialCounters(graph),
                             !.seeded = run.seeded \cup S,
                             !.commands = S, !.dag = run'.dag]
      BY <2>1, <2>14 DEF Resume, Sound, Runs
    <3>2. run'.commands = S
      BY <2>1, <3>1 DEF Sound, Runs
    <3>3. n \in Nodes(graph) \ S
      BY <2>2, <3>2
    <3> QED BY <2>1, <2>2, <2>14, <3>3, ResumeHolds DEF s
  <2>15. ASSUME NEW r \in H, Restart(r) PROVE Goal
    BY <2>1, <2>2, <2>15, RecoverHolds DEF Restart
  <2>16. CASE Crash
    BY <2>2, <2>15, <2>16 DEF Crash
  <2>17. ASSUME NEW e \in executing, NEW port \in {"done", FailurePort},
                CrashAfterHandoff(e, port)
         PROVE  Goal
    <3>1. Current(run, e) /\ port \in Ports
      BY <2>17 DEF CrashAfterHandoff, Ports
    <3>2. ~(\E S : Resume(S))
      BY <3>1 DEF Current, Active, Resume
    <3>3. e.node \in Nodes(graph) \ {n} /\ run \in ActiveRuns(graph, {run.round})
      BY <2>1, <2>11, <3>1, <3>2, ActiveIsSound DEF Current
    <3>4. CommitHandoff(graph, run, e.node, port) \in H
      BY <2>1, <2>2, <3>1, <3>3, HandoffHolds DEF Holding
    <3> QED BY <2>15, <2>17, <3>4 DEF CrashAfterHandoff
  <2>18. CASE UNCHANGED vars
    BY <2>5, <2>18 DEF vars
  <2> QED BY <1>1, <2>6, <2>7, <2>8, <2>9, <2>10, <2>12, <2>13, <2>14, <2>16, <2>17, <2>18
          DEF Next
<1>2. TypedState /\ [Next]_vars => [\A n \in Nodes(graph) : Scoped(n)]_vars
  BY <1>1
<1> QED BY <1>2, TypedAlways, PTL DEF Spec, RoundScoped

----------------------------------------------------------------------------
(* Dependencies come first *)

(* Runs of the rounds of K whose commands are among C, in order as long as *)
(* they are active.                                                        *)
InLine(g, K, C, b) == {r \in Sound(g, K) : /\ r.commands \subseteq C
                                           /\ Active(r) => r.dag \in Orderly(g, b)}

LEMMA ActiveInLine ==
    ASSUME NEW g, NEW K, NEW C, NEW b, NEW r \in ActiveRuns(g, K), r.commands \subseteq C,
           r.dag \in Orderly(g, b)
    PROVE  r \in InLine(g, K, C, b)
BY ActiveIsSound DEF InLine

(* What ends a run takes no command back.                                  *)
LEMMA EndingCommands ==
    ASSUME NEW g, NEW K, NEW r \in Runs(g, K)
    PROVE  /\ \A S : Abort(r, S).commands = r.commands /\ ~Active(Abort(r, S))
           /\ CompleteRun(r).commands = r.commands /\ ~Active(CompleteRun(r))
           /\ SkipStalled(r).commands = r.commands
           /\ [r EXCEPT !.status = "failed"].commands = r.commands
           /\ ~Active([r EXCEPT !.status = "failed"])
BY DEF Runs, Abort, CompleteRun, SkipStalled, Active

LEMMA FailureInLine ==
    ASSUME NEW g, NEW K, IsGraph(g), NEW C, NEW b, NEW r \in ActiveRuns(g, K),
           r.commands \subseteq C, NEW f \in Nodes(g), f \notin b.busy \ b.loops,
           NEW d \in Orderly(g, b), Near(g, d, r.dag, f)
    PROVE  FailActiveRun(g, r, f) \in InLine(g, K, C, b)
<1> DEFINE q == [r EXCEPT !.dag = FailNode(g, r.dag, f)]
           p == SkipStalled(q)
<1>1. /\ r \in Runs(g, K) /\ r.dag \in Engines(g) /\ Active(r)
      /\ FailActiveRun(g, r, f) \in Sound(g, K)
  BY ActiveFields, ActiveIsSound, FailActiveRunSound
<1>2. FailNode(g, r.dag, f) \in Orderly(g, b)
  BY <1>1, FailNodeOrderly
<1>3. q \in ActiveRuns(g, K) /\ q.dag = FailNode(g, r.dag, f) /\ q.commands = r.commands
  BY <1>1, FailNodeTyped, DagReplaced DEF Runs
<1> HIDE DEF q
<1>4. p \in ActiveRuns(g, K) /\ p.commands = r.commands /\ p.dag \in Orderly(g, b)
  <2>1. q \in Runs(g, K) /\ q.dag \in Orderly(g, b) /\ q.dag \in Engines(g)
    BY <1>2, <1>3, ActiveFields
  <2>2. In(q, {"PENDING"}) \in SUBSET Open(g, q.dag)
    BY <2>1 DEF In, Open, Engines
  <2>3. SetState(q.dag, In(q, {"PENDING"}), "SKIPPED") \in Orderly(g, b)
    BY <2>1, <2>2, SkipsOrderly DEF Skips
  <2>4. p.dag \in Orderly(g, b)
    BY <2>1, <2>3 DEF SkipStalled, Runs
  <2>5. p \in ActiveRuns(g, K)
    BY <1>3, SkipStalledActive
  <2>6. p.commands = q.commands
    BY <2>1, EndingCommands
  <2> HIDE DEF p
  <2> QED BY <1>3, <2>4, <2>5, <2>6
<1> HIDE DEF p
<1>5. p \in Runs(g, K)
  BY <1>4, ActiveFields
<1>6. /\ AfterFailure(g, p, f).commands = r.commands
      /\ Active(AfterFailure(g, p, f)) => AfterFailure(g, p, f) = p
  BY <1>4, <1>5, EndingCommands DEF AfterFailure
<1>7. FailActiveRun(g, r, f) = AfterFailure(g, p, f)
  BY <1>1 DEF FailActiveRun, p, q
<1> QED BY <1>1, <1>4, <1>6, <1>7 DEF InLine

LEMMA HandoffInLine ==
    ASSUME NEW g, NEW K, IsGraph(g), NEW C, NEW b, NEW r \in ActiveRuns(g, K),
           r.commands \subseteq C, NEW f \in Nodes(g), NEW port \in Ports,
           f \notin b.busy \ b.loops, f \in b.concerned => f \in b.started,
           NEW d \in Orderly(g, b), Near(g, d, r.dag, f)
    PROVE  HandoffActiveRun(g, r, f, port) \in InLine(g, K, C, b)
<1> DEFINE q == CommitHandoff(g, r, f, port)
<1>1. /\ r \in Runs(g, K) /\ r.dag \in Engines(g)
      /\ HandoffActiveRun(g, r, f, port) \in Sound(g, K)
  BY ActiveFields, HandoffSound
<1>2. Handoff(g, r.dag, f, port) \in Orderly(g, b)
  BY <1>1, HandoffOrderly
<1>3. q.dag = Handoff(g, r.dag, f, port) /\ q.commands = r.commands \ {f}
  BY <1>1 DEF CommitHandoff, Runs
<1>4. q \in ActiveRuns(g, K)
  BY CommitHandoffActive
<1> HIDE DEF q
<1>5. q \in Runs(g, K) /\ q.dag \in Orderly(g, b) /\ q.commands \subseteq C
  BY <1>2, <1>3, <1>4, ActiveFields
<1>6. /\ AfterHandoff(g, q, f, port).commands = q.commands
      /\ Active(AfterHandoff(g, q, f, port)) => AfterHandoff(g, q, f, port) = q
      /\ Abort(r, {f}).commands \subseteq C /\ ~Active(Abort(r, {f}))
  BY <1>1, <1>5, EndingCommands DEF AfterHandoff
<1> QED BY <1>1, <1>5, <1>6 DEF InLine, HandoffActiveRun, q

(* A node that is asked again was asked in this round.                     *)
Asked(g, b, d, f) ==
    /\ f \in Agents(g) /\ f \in b.started /\ f \notin b.busy \ b.loops
    /\ f \in Iterated(g) \/ f \in d.loops \/ d.state[f] = "RUNNING"
    /\ \A n \in Nodes(g) : d.state[n] \in {"READY", "RUNNING"} => n \in b.started

LEMMA CorrectInLine ==
    ASSUME NEW g, NEW K, IsGraph(g), NEW C, NEW b, NEW r \in ActiveRuns(g, K),
           r.commands \subseteq C, r.dag \in Orderly(g, b), NEW f, Asked(g, b, r.dag, f),
           r.counters.corrections[f] < MaxCorrections
    PROVE  Correct(g, r, f) \in InLine(g, K, C, b)
<1> DEFINE opened == ReopenSkipped(g, r.dag, f)
           d == [opened EXCEPT !.state[f] = "READY", !.handed = @ \ {f}]
<1>1. f \in Nodes(g) /\ ~Gateway(g, f) /\ r \in Runs(g, K)
  BY ActiveFields DEF Asked, Agents
<1>2. d \in Orderly(g, b)
  <2> DEFINE o == opened
  <2>1. o = ReopenSkipped(g, r.dag, f)
    OBVIOUS
  <2> HIDE DEF o
  <2>2. [o EXCEPT !.state[f] = "READY", !.handed = @ \ {f}] \in Orderly(g, b)
    BY <1>1, <2>1, OrderlyCorrected DEF Asked
  <2> QED BY <2>2 DEF o
<1>3. Correct(g, r, f).dag = d /\ Correct(g, r, f).commands = r.commands
  BY <1>1 DEF Correct, Runs
<1>4. Correct(g, r, f) \in ActiveRuns(g, K)
  BY <1>1, CorrectActive
<1> QED BY <1>2, <1>3, <1>4, ActiveInLine

LEMMA NearItself ==
    ASSUME NEW g, NEW d, NEW f
    PROVE  Near(g, d, d, f)
BY DEF Near

LEMMA AppliedInLine ==
    ASSUME NEW g, NEW K, IsGraph(g), NEW C, NEW b, NEW r \in InLine(g, K, C, b), Active(r),
           NEW f, Asked(g, b, r.dag, f), NEW port \in {"done", FailurePort, "rejected"},
           NEW contract
    PROVE  Applied(g, r, f, port, contract) \in InLine(g, K, C, b)
<1>1. /\ r \in ActiveRuns(g, K) /\ r.commands \subseteq C /\ r.dag \in Orderly(g, b)
      /\ f \in Nodes(g) /\ f \in b.started /\ f \notin b.busy \ b.loops
      /\ Near(g, r.dag, r.dag, f)
  BY ActiveIsSound, NearItself DEF InLine, Asked, Agents
<1>2. FailActiveRun(g, r, f) \in InLine(g, K, C, b)
  BY <1>1, FailureInLine
<1>3. \A t \in Ports : HandoffActiveRun(g, r, f, t) \in InLine(g, K, C, b)
  BY <1>1, HandoffInLine
<1>4. r.counters.corrections[f] < MaxCorrections => Correct(g, r, f) \in InLine(g, K, C, b)
  BY <1>1, CorrectInLine
<1>5. TryCorrect(g, r, f, contract) \in InLine(g, K, C, b)
  BY <1>2, <1>3, <1>4 DEF TryCorrect, Ports
<1>6. port # "rejected" => port \in Ports
  BY DEF Ports
<1> QED BY <1>3, <1>5, <1>6 DEF Applied

(* A gateway decides when its turn has come.                               *)
LEMMA GatewayInLine ==
    ASSUME NEW g, NEW K, IsGraph(g), NEW C, NEW b, NEW r \in InLine(g, K, C, b),
           NEW f \in Nodes(g), Gateway(g, f), f \in b.started, f \notin b.busy \ b.loops,
           NEW passed
    PROVE  ExecuteGateway(g, r, f, passed) \in InLine(g, K, C, b)
<1> DEFINE port == GatewayPort(g, r, f, passed)
           q == CountIteration(g, r, f, port)
<1>1. CASE ~Active(r)
  BY <1>1 DEF ExecuteGateway
<1>2. CASE Active(r)
  <2>1. /\ r \in ActiveRuns(g, K) /\ r \in Runs(g, K) /\ r.dag \in Engines(g)
        /\ r.commands \subseteq C /\ r.dag \in Orderly(g, b)
    BY <1>2, ActiveIsSound, ActiveFields DEF InLine
  <2>2. g.kind[f] = "await" => CloseRound(r, f) \in InLine(g, K, C, b)
    <3>1. CloseRound(r, f).commands = r.commands
          /\ (Active(CloseRound(r, f)) => CloseRound(r, f) = r)
      BY <2>1 DEF CloseRound, Runs, Active
    <3> QED BY <2>1, <3>1, CloseRoundSound DEF InLine
  <2>3. port \in Ports
    BY DEF GatewayPort, Ports, FailurePort
  <2>4. q \in ActiveRuns(g, K)
    BY <2>1, CountIterationActive
  <2>5. q.commands = r.commands /\ Near(g, r.dag, q.dag, f)
    <3>1. q.dag \in {r.dag, [r.dag EXCEPT !.loops = @ \ {f}]} /\ q.commands = r.commands
      BY <2>1 DEF CountIteration, Runs
    <3>2. Near(g, r.dag, [r.dag EXCEPT !.loops = @ \ {f}], f)
      BY <2>1 DEF Near, Engines
    <3> QED BY <3>1, <3>2, NearItself
  <2> HIDE DEF port, q
  <2>6. LeaveGateway(g, q, f, port) \in InLine(g, K, C, b)
    BY <2>1, <2>3, <2>4, <2>5, FailureInLine, HandoffInLine DEF LeaveGateway
  <2> QED BY <1>2, <2>2, <2>6 DEF ExecuteGateway, port, q
<1> QED BY <1>1, <1>2

(* The nodes whose turn comes in the round of r: all in the first, the     *)
(* commanded actors in a later one; not those a loop gateway iterates.     *)
Concerned(g, r) == (IF r.round = 1 THEN Nodes(g) ELSE r.commands) \ Iterated(g)
PromptedIn(E, k) == {e.node : e \in {q \in E : q.round = k}}

(* The order in a handler that began with the run r and has sent E so far. *)
Rest(g, r, E) ==
    [loops     |-> Resting(g, r.dag),
     concerned |-> Concerned(g, r),
     started   |-> In(r, {"READY", "RUNNING"}) \cup PromptedIn(E, r.round),
     busy      |-> PromptedIn(E, r.round) \cap Concerned(g, r)]

(* Between handlers all that is ready or runs has started.  A Worker is    *)
(* asked for only when the node has none, unless it is a loop source.      *)
Steady(g, r, E, P) ==
    Active(r) => /\ r.dag \in Orderly(g, Rest(g, r, E))
                 /\ \A n \in Concerned(g, r) \cap PromptedIn(E, r.round) :
                       n \in P => n \in Resting(g, r.dag)

InTurn(g, r, s, n) ==
    /\ s.round = 1 \/ n \in r.commands
    /\ r.dag.state[n] = "PENDING" /\ s.dag.state[n] = "READY"
    => (\A m \in g.after[n] : Over(g, s.dag, m)) \/ n \in Iterated(g)

LEMMA QuietNotReady ==
    ASSUME NEW g, NEW K, NEW r \in Sound(g, K), ~Active(r), NEW n \in Nodes(g)
    PROVE  r.dag.state[n] # "READY"
<1>1. CASE Ended(r)
  BY <1>1 DEF Sound, EndedQuiet, Settled, RunningLoop
<1>2. CASE r.status = "waiting"
  <2>1. DOMAIN r.dag.state = Nodes(g)
    BY DEF Sound, Runs, AnyEngines
  <2> QED BY <1>2, <2>1 DEF Sound, WaitingQuiet, Quiescent, Settled
<1>3. Ended(r) \/ r.status = "waiting"
  BY DEF Sound, Runs, RunStates, Ended, Active
<1> QED BY <1>1, <1>2, <1>3

LEMMA ConcernedAreNodes ==
    ASSUME NEW g, NEW K, NEW r \in Sound(g, K)
    PROVE  /\ Concerned(g, r) \subseteq Nodes(g)
           /\ \A s \in Sound(g, {r.round}) : s.commands \subseteq r.commands =>
                 s.round = r.round /\ Concerned(g, s) \subseteq Concerned(g, r)
BY DEF Sound, Runs, Concerned, Agents

LEMMA PromptedAreAgents ==
    ASSUME NEW g, NEW E \in SUBSET Prompts(g), NEW k
    PROVE  PromptedIn(E, k) \subseteq Agents(g)
BY DEF Prompts, PromptedIn

(* A handler that began with r leaves s in order, and what it promoted had *)
(* its turn.                                                               *)
LEMMA TurnTaken ==
    ASSUME NEW g, IsGraph(g), NEW r, r \in Sound(g, {r.round}), NEW b,
           NEW s \in InLine(g, {r.round}, r.commands, b),
           NEW E \in SUBSET Prompts(g), NEW P,
           b.concerned = Concerned(g, r),
           PromptedIn(E, r.round) \subseteq b.started,
           b.started \subseteq In(r, {"READY", "RUNNING"}) \cup Agents(g),
           PromptedIn(E, r.round) \cap Concerned(g, r) \subseteq b.busy,
           \A n \in PromptedIn(E, r.round) \cap Concerned(g, r) : n \in P => n \in b.loops
    PROVE  Steady(g, s, E, P) /\ \A n \in Nodes(g) : InTurn(g, r, s, n)
<1>1. /\ s \in Sound(g, {r.round}) /\ s.commands \subseteq r.commands
      /\ Concerned(g, s) \subseteq Concerned(g, r) /\ s.round = r.round
      /\ Concerned(g, r) \subseteq Nodes(g)
      /\ Active(s) => s.dag \in Orderly(g, b)
  BY ConcernedAreNodes DEF InLine
<1>2. ASSUME Active(s) PROVE s.dag \in Orderly(g, Rest(g, s, E)) /\ b.loops = Resting(g, s.dag)
  <2> DEFINE c == Rest(g, s, E)
  <2>1. s.dag \in Orderly(g, b) /\ b.loops = Resting(g, s.dag)
    BY <1>1, <1>2 DEF Orderly
  <2>2. DOMAIN s.dag.state = Nodes(g)
    BY <1>1 DEF Sound, Runs, AnyEngines
  <2>3. /\ c.concerned \subseteq b.concerned /\ c.busy \subseteq b.busy /\ c.loops = b.loops
    BY <1>1, <2>1 DEF Rest
  <2>4. /\ \A n \in Nodes(g) : s.dag.state[n] \in {"READY", "RUNNING"} => n \in c.started
        /\ \A n \in c.started : n \in b.started \/ s.dag.state[n] \in {"READY", "RUNNING"}
    BY <1>1, <2>2 DEF Rest, In
  <2> HIDE DEF c
  <2>5. s.dag \in Orderly(g, c)
    BY <2>1, <2>3, <2>4, OrderlyResettled
  <2> QED BY <2>1, <2>5 DEF c
<1>3. Steady(g, s, E, P)
  BY <1>1, <1>2 DEF Steady
<1>4. ASSUME NEW n \in Nodes(g), s.round = 1 \/ n \in r.commands, n \notin Iterated(g),
             r.dag.state[n] = "PENDING", s.dag.state[n] = "READY"
      PROVE  \A m \in g.after[n] : Over(g, s.dag, m)
  <2>1. Active(s)
    BY <1>1, <1>4, QuietNotReady
  <2>2. n \in b.concerned
    BY <1>1, <1>4 DEF Concerned
  <2>3. n \notin b.started \/ ~Gateway(g, n)
    BY <1>4 DEF In, Agents
  <2> QED BY <1>1, <1>4, <2>1, <2>2, <2>3, OrderlyReady
<1> QED BY <1>3, <1>4 DEF InTurn

(* A dispatch pass that began with r and has reached the node i: no prompt *)
(* of this round was sent to a node that it has yet to dispatch.           *)
Passing(g, r, i, p) ==
    /\ p \in PassStates(g, {r.round})
    /\ p.run \in InLine(g, {r.round}, r.commands, Rest(g, r, p.sent))
    /\ \A e \in p.sent : e.round <= r.round
    /\ \A n \in PromptedIn(p.sent, r.round) \cap Concerned(g, r) :
          n \in Resting(g, r.dag) \/ (n \notin p.prov /\ (n \in Ready(r.dag) => n <= i))

(* What is behind a pass stays behind it.                                  *)
LEMMA PassingOn ==
    ASSUME NEW g, NEW r, r \in Sound(g, {r.round}), NEW i \in Nodes(g), i \in Ready(r.dag),
           NEW p, Passing(g, r, i - 1, p)
    PROVE  /\ \A n \in PromptedIn(p.sent, r.round) \cap Concerned(g, r) :
                 \/ n \in Resting(g, r.dag)
                 \/ n # i /\ n \notin p.prov /\ (n \in Ready(r.dag) => n <= i)
           /\ \A e \in p.sent : e.round <= r.round
<1>1. ASSUME NEW n \in PromptedIn(p.sent, r.round) \cap Concerned(g, r)
      PROVE  \/ n \in Resting(g, r.dag)
             \/ n # i /\ n \notin p.prov /\ (n \in Ready(r.dag) => n <= i)
  <2>1. n \in Resting(g, r.dag) \/ (n \notin p.prov /\ (n \in Ready(r.dag) => n <= i - 1))
    BY DEF Passing
  <2>2. n \in Nodes(g)
    BY ConcernedAreNodes
  <2>3. n <= i - 1 => n # i /\ n <= i
    BY <2>2 DEF Nodes
  <2> QED BY <2>1, <2>3
<1> QED BY <1>1 DEF Passing

LEMMA DispatchAgentPassing ==
    ASSUME NEW g, IsGraph(g), NEW r, r \in Sound(g, {r.round}), r.round \in 1 .. MaxRounds,
           NEW i \in Agents(g), i \in Ready(r.dag), NEW p, Passing(g, r, i - 1, p),
           NEW outcome \in {"sent", "provisioning", "deferred", "failed"}
    PROVE  Passing(g, r, i, DispatchAgent(g, p, i, outcome))
<1> DEFINE K == {r.round}
           b == Rest(g, r, p.sent)
           a == DispatchAgent(g, p, i, outcome)
<1>1. /\ p \in PassStates(g, K) /\ p.run \in InLine(g, K, r.commands, b)
      /\ p.run \in Sound(g, K) /\ i \in Nodes(g) /\ i \in Nat /\ K \in SUBSET (1 .. MaxRounds)
      /\ DOMAIN p = {"run", "prov", "wait", "sent", "done"}
      /\ p.sent \in SUBSET Prompts(g) /\ p.run.round = r.round
  BY DEF Passing, PassStates, Agents, Nodes, Sound, Runs
<1>2. a \in PassStates(g, K)
  BY <1>1, DispatchAgentSound
<1>3. /\ \A n \in PromptedIn(p.sent, r.round) \cap Concerned(g, r) :
            \/ n \in Resting(g, r.dag)
            \/ n # i /\ n \notin p.prov /\ (n \in Ready(r.dag) => n <= i)
      /\ \A e \in p.sent : e.round <= r.round
  BY <1>1, PassingOn
<1>4. i \notin b.busy \ b.loops
  BY <1>3 DEF Rest
<1>5. FailActiveRun(g, p.run, i) \in InLine(g, K, r.commands, b)
  <2>1. CASE ~Active(p.run)
    BY <1>1, <2>1, InactiveKept
  <2>2. CASE Active(p.run)
    <3>1. /\ p.run \in ActiveRuns(g, K) /\ p.run.commands \subseteq r.commands
          /\ p.run.dag \in Orderly(g, b)
      BY <1>1, <2>2, ActiveIsSound DEF InLine
    <3> HIDE DEF b, K
    <3> QED BY <1>1, <1>4, <3>1, NearItself, FailureInLine
  <2> QED BY <2>1, <2>2
<1>6. \/ /\ a.run \in {p.run, FailActiveRun(g, p.run, i)} /\ a.sent = p.sent
         /\ a.prov \subseteq p.prov \cup {i}
      \/ /\ Active(p.run) /\ p.run.dag.state[i] = "READY" /\ i \notin p.prov
         /\ a.run = Send(p.run, i) /\ a.sent = p.sent \cup {Prompt(p.run, i)}
         /\ a.prov = p.prov
  BY <1>1 DEF DispatchAgent
<1> HIDE DEF a, K
<1>7. ASSUME a.run \in {p.run, FailActiveRun(g, p.run, i)}, a.sent = p.sent,
             a.prov \subseteq p.prov \cup {i}
      PROVE  Passing(g, r, i, a)
  <2>1. a.run \in InLine(g, K, r.commands, Rest(g, r, a.sent))
    BY <1>1, <1>5, <1>7
  <2>2. \A n \in PromptedIn(a.sent, r.round) \cap Concerned(g, r) :
           n \in Resting(g, r.dag) \/ (n \notin a.prov /\ (n \in Ready(r.dag) => n <= i))
    BY <1>3, <1>7
  <2> QED BY <1>2, <1>3, <1>7, <2>1, <2>2 DEF Passing, K
<1>8. ASSUME Active(p.run), p.run.dag.state[i] = "READY", i \notin p.prov,
             a.run = Send(p.run, i), a.sent = p.sent \cup {Prompt(p.run, i)},
             a.prov = p.prov
      PROVE  Passing(g, r, i, a)
  <2> DEFINE c == Rest(g, r, a.sent)
  <2>1. Prompt(p.run, i).node = i /\ Prompt(p.run, i).round = r.round
    BY <1>1 DEF Prompt
  <2>2. PromptedIn(a.sent, r.round) = PromptedIn(p.sent, r.round) \cup {i}
    BY <1>8, <2>1 DEF PromptedIn
  <2>3. a.run \in InLine(g, K, r.commands, c)
    <3>1. /\ p.run \in ActiveRuns(g, K) /\ p.run.commands \subseteq r.commands
          /\ p.run.dag \in Orderly(g, b) /\ p.run \in Runs(g, K)
      BY <1>1, <1>8, ActiveIsSound, ActiveFields DEF InLine
    <3>2. /\ c.loops = b.loops /\ c.concerned = b.concerned
          /\ c.started = b.started \cup {i} /\ c.busy \subseteq b.busy \cup {i}
      BY <2>2 DEF Rest
    <3> HIDE DEF b, c
    <3>3. ~Gateway(g, i)
      BY DEF Agents
    <3>4. [p.run.dag EXCEPT !.state[i] = "RUNNING"] \in Orderly(g, c)
      BY <1>1, <1>8, <3>1, <3>2, <3>3, OrderlySend
    <3>5. /\ Send(p.run, i).dag = [p.run.dag EXCEPT !.state[i] = "RUNNING"]
          /\ Send(p.run, i).commands = p.run.commands
      BY <3>1 DEF Send, Runs
    <3>6. Send(p.run, i) \in Sound(g, K)
      BY <1>1, <1>8, SendSound
    <3> QED BY <1>8, <3>1, <3>4, <3>5, <3>6 DEF InLine
  <2>4. \A n \in PromptedIn(a.sent, r.round) \cap Concerned(g, r) :
           n \in Resting(g, r.dag) \/ (n \notin a.prov /\ (n \in Ready(r.dag) => n <= i))
    <3>1. i <= i
      BY <1>1
    <3> QED BY <1>3, <1>8, <2>2, <3>1
  <2>5. \A e \in a.sent : e.round <= r.round
    <3>1. r.round <= r.round
      OBVIOUS
    <3> QED BY <1>3, <1>8, <2>1, <3>1
  <2> QED BY <1>2, <2>3, <2>4, <2>5 DEF Passing, K
<1>9. Passing(g, r, i, a)
  BY <1>6, <1>7, <1>8
<1> QED BY <1>9 DEF a

LEMMA DispatchNodePassing ==
    ASSUME NEW g, IsGraph(g), NEW r, r \in Sound(g, {r.round}), r.round \in 1 .. MaxRounds,
           NEW i \in Nodes(g), i \in Ready(r.dag), NEW p, Passing(g, r, i - 1, p),
           NEW outcome \in Outcomes(g, i)
    PROVE  Passing(g, r, i, DispatchNode(g, p, i, outcome))
<1>1. CASE Gateway(g, i)
  <2> DEFINE K == {r.round}
             b == Rest(g, r, p.sent)
             q == ExecuteGateway(g, p.run, i, outcome = "passed")
             a == [p EXCEPT !.run = q, !.done = ~Active(q)]
  <2>1. /\ p \in PassStates(g, K) /\ p.run \in InLine(g, K, r.commands, b)
        /\ p.sent \in SUBSET Prompts(g) /\ i \in Nat
    BY DEF Passing, PassStates, Nodes
  <2>2. i \in b.started /\ i \notin b.busy \ b.loops
    <3>1. PromptedIn(p.sent, r.round) \subseteq Agents(g)
      BY <2>1, PromptedAreAgents
    <3> QED BY <1>1, <3>1 DEF Rest, In, Ready, Agents
  <2> HIDE DEF b, K
  <2>3. q \in InLine(g, K, r.commands, b)
    BY <1>1, <2>1, <2>2, GatewayInLine
  <2> HIDE DEF q
  <2>4. /\ a \in PassStates(g, K) /\ a.run = q /\ a.sent = p.sent /\ a.prov = p.prov
    BY <2>1, <2>3 DEF PassStates, InLine, Active
  <2> HIDE DEF a
  <2>5. Passing(g, r, i, a)
    BY <2>3, <2>4, PassingOn DEF Passing, b, K
  <2> QED BY <1>1, <2>5 DEF DispatchNode, a, q
<1>2. CASE ~Gateway(g, i)
  BY <1>2, DispatchAgentPassing DEF DispatchNode, Outcomes, Agents
<1> QED BY <1>1, <1>2

(* The nodes of a dispatch pass, one after the other.                      *)
PassesBy(g, outcome, f) ==
    /\ DispatchPass(g, outcome) = f[g.size]
    /\ f[0] = [run |-> run, prov |-> provisioning, wait |-> deferred,
               sent |-> executing, done |-> FALSE]
    /\ \A i \in 1 .. g.size :
          f[i] = IF i \in Ready(run.dag) /\ ~f[i - 1].done
                 THEN DispatchNode(g, f[i - 1], i, outcome[i])
                 ELSE f[i - 1]

LEMMA DispatchPassIterates ==
    ASSUME NEW g, NEW K \in SUBSET (1 .. MaxRounds), IsGraph(g), run \in Sound(g, K),
           provisioning \in SUBSET Agents(g), deferred \in SUBSET Agents(g),
           executing \in SUBSET Prompts(g), NEW outcome,
           \A n \in Ready(run.dag) : outcome[n] \in Outcomes(g, n)
    PROVE  \E f : PassesBy(g, outcome, f)
<1> DEFINE start == [run |-> run, prov |-> provisioning, wait |-> deferred,
                     sent |-> executing, done |-> FALSE]
           X == PassStates(g, K)
           N == g.size
           Step(e, i) == IF i \in Ready(run.dag)
                         THEN IF e.done THEN e ELSE DispatchNode(g, e, i, outcome[i])
                         ELSE e
           F == [i \in 1 .. N |-> [e \in X |-> Step(e, i)]]
           Body(h) == [i \in 0 .. N |-> IF i = 0 THEN start ELSE Step(h[i - 1], i)]
           upTo == CHOOSE h : h = Body(h)
<1>1. N \in Nat /\ start \in X
  BY DEF IsGraph, PassStates
<1>2. IsStep(F, N, X)
  BY DispatchNodeSound DEF IsStep, Nodes
<1>3. DispatchPass(g, outcome) = upTo[N]
  BY DEF DispatchPass, ForEach
<1> HIDE DEF Step, X, N, start
<1>4. PICK f : IsIteration(f, F, N, X, start)
  <2> HIDE DEF F
  <2> QED BY <1>1, <1>2, Iterates
<1>5. f = Body(f)
  <2> HIDE DEF F
  <2>1. \A i \in 1 .. N : F[i][f[i - 1]] = Step(f[i - 1], i)
    BY <1>1, <1>4, IterationUnfolds DEF F
  <2> QED BY <1>1, <1>4, <2>1, IterationUnfolds
<1>6. upTo = Body(upTo)
  <2> HIDE DEF Body
  <2> QED BY <1>5
<1> HIDE DEF upTo
<1>7. upTo[0] = start /\ \A i \in 1 .. N : upTo[i] = Step(upTo[i - 1], i)
  BY <1>1, <1>6
<1> QED BY <1>3, <1>7 DEF PassesBy, Step, N, start

LEMMA DispatchPassPassing ==
    ASSUME IsGraph(graph), run \in Sound(graph, {run.round}), run.round \in 1 .. MaxRounds,
           provisioning \in SUBSET Agents(graph), deferred \in SUBSET Agents(graph),
           executing \in SUBSET Prompts(graph), NEW outcome,
           \A n \in Ready(run.dag) : outcome[n] \in Outcomes(graph, n),
           Active(run), Steady(graph, run, executing, provisioning),
           \A e \in executing : e.round <= run.round
    PROVE  Passing(graph, run, graph.size, DispatchPass(graph, outcome))
<1> DEFINE N == graph.size
           start == [run |-> run, prov |-> provisioning, wait |-> deferred,
                     sent |-> executing, done |-> FALSE]
           all == PassStates(graph, {run.round})
           X == [i \in 0 .. N |-> {p \in all : Passing(graph, run, i, p)}]
<1>1. N \in Nat /\ {run.round} \in SUBSET (1 .. MaxRounds)
  BY DEF IsGraph
<1>2. PICK f : PassesBy(graph, outcome, f)
  BY <1>1, DispatchPassIterates
<1>3. /\ DispatchPass(graph, outcome) = f[N]
      /\ f[0] = start
      /\ \A i \in 1 .. N :
            f[i] = IF i \in Ready(run.dag) /\ ~f[i - 1].done
                   THEN DispatchNode(graph, f[i - 1], i, outcome[i])
                   ELSE f[i - 1]
  BY <1>2 DEF PassesBy
<1>4. f[0] \in X[0]
  <2> DEFINE b == Rest(graph, run, executing)
  <2>1. /\ start \in all /\ start.run = run /\ start.sent = executing
        /\ start.prov = provisioning
    BY DEF PassStates
  <2> HIDE DEF start
  <2>2. run.dag \in Orderly(graph, b)
    BY DEF Steady
  <2>3. run \in InLine(graph, {run.round}, run.commands, b)
    BY <2>2 DEF InLine
  <2>4. ASSUME NEW n \in PromptedIn(executing, run.round) \cap Concerned(graph, run),
               n \notin Resting(graph, run.dag)
        PROVE  n \notin provisioning /\ n \notin Ready(run.dag)
    <3>1. InOrder(graph, b, run.dag, n) /\ n \in b.busy \ b.loops
      BY <2>2, <2>4 DEF Orderly, Rest
    <3>2. run.dag.state[n] = "RUNNING"
      BY <3>1 DEF InOrder
    <3> QED BY <2>4, <3>2 DEF Ready, Steady
  <2>5. Passing(graph, run, 0, start)
    BY <2>1, <2>3, <2>4 DEF Passing, b
  <2> QED BY <1>1, <1>3, <2>1, <2>5
<1>5. ASSUME NEW i \in 1 .. N, f[i - 1] \in X[i - 1] PROVE f[i] \in X[i]
  <2>1. Passing(graph, run, i - 1, f[i - 1]) /\ i \in Nodes(graph)
    BY <1>1, <1>5 DEF Nodes
  <2>2. Passing(graph, run, i, f[i])
    <3>1. CASE i \in Ready(run.dag) /\ ~f[i - 1].done
      BY <1>3, <2>1, <3>1, DispatchNodePassing
    <3>2. CASE ~(i \in Ready(run.dag) /\ ~f[i - 1].done)
      <4>1. Passing(graph, run, i, f[i - 1])
        <5> DEFINE p == f[i - 1]
        <5> HIDE DEF p
        <5>1. Passing(graph, run, i - 1, p)
          BY <2>1 DEF p
        <5>2. \A n \in Concerned(graph, run) : n <= i - 1 => n <= i
          BY <2>1, ConcernedAreNodes DEF Nodes
        <5>3. Passing(graph, run, i, p)
          BY <5>1, <5>2 DEF Passing
        <5> QED BY <5>3 DEF p
      <4> QED BY <1>3, <3>2, <4>1
    <3> QED BY <3>1, <3>2
  <2>3. X[i] = {p \in all : Passing(graph, run, i, p)}
    BY <1>1
  <2>4. f[i] \in all
    BY <2>2 DEF Passing
  <2> HIDE DEF X, all
  <2> QED BY <2>2, <2>3, <2>4
<1>6. X[N] = {p \in all : Passing(graph, run, N, p)}
  BY <1>1
<1> HIDE DEF X, N, all
<1>7. f[N] \in X[N]
  BY <1>1, <1>4, <1>5, StaysStepwise
<1> QED BY <1>3, <1>6, <1>7 DEF N

(* A node whose prompt is answered, or whose Worker is lost, has its turn. *)
LEMMA AnsweredAsked ==
    ASSUME NEW g, NEW r, r \in Sound(g, {r.round}), Active(r), NEW E \in SUBSET Prompts(g),
           Steady(g, r, E, {}), NEW f \in PromptedIn(E, r.round),
           r.round = 1 \/ f \in r.commands,
           NEW b, b = [Rest(g, r, E) EXCEPT !.busy = @ \ {f}]
    PROVE  r.dag \in Orderly(g, b) /\ Asked(g, b, r.dag, f)
<1> DEFINE c == Rest(g, r, E)
<1>1. r.dag \in Orderly(g, c) /\ DOMAIN r.dag.state = Nodes(g)
  BY DEF Steady, Sound, Runs, AnyEngines
<1>2. /\ b.concerned = c.concerned /\ b.loops = c.loops /\ b.started = c.started
      /\ b.busy = c.busy \ {f}
  BY DEF Rest
<1>3. \A n \in Nodes(g) : r.dag.state[n] \in {"READY", "RUNNING"} => n \in c.started
  BY <1>1 DEF Rest, In
<1>4. f \in Agents(g) /\ f \in c.started /\ f \in Nodes(g)
  BY PromptedAreAgents DEF Rest, Agents
<1>5. f \in Iterated(g) \/ f \in r.dag.loops \/ r.dag.state[f] = "RUNNING"
  <2>1. ASSUME f \notin Iterated(g) PROVE f \in r.dag.loops \/ r.dag.state[f] = "RUNNING"
    <3>1. f \in c.concerned /\ f \in c.busy
      BY <1>4, <2>1 DEF Rest, Concerned
    <3>2. InOrder(g, c, r.dag, f)
      BY <1>1, <3>1 DEF Orderly
    <3> QED BY <3>1, <3>2 DEF InOrder, Rest, Resting
  <2> QED BY <2>1
<1> HIDE DEF c
<1>6. r.dag \in Orderly(g, b)
  BY <1>1, <1>2, <1>3, OrderlyResettled
<1> QED BY <1>2, <1>3, <1>4, <1>5, <1>6 DEF Asked

(* The nodes of a round are reset in order.                                *)
LEMMA ResumeInLine ==
    ASSUME NEW S \in SUBSET Nodes(graph), IsGraph(graph), run \in Sound(graph, {run.round}),
           run.round \in 1 .. MaxRounds, executing \in SUBSET Prompts(graph),
           \A e \in executing : e.round <= run.round,
           S # {}, Resume(S)
    PROVE  /\ \A P : Steady(graph, run', executing, P)
           /\ \A n \in Nodes(graph) : InTurn(graph, run, run', n)
           /\ run'.round = run.round + 1
<1> DEFINE nodes == RoundNodes(graph, run, S)
           carried == [n \in Nodes(graph) |-> Carried(graph, run, nodes, n)]
           d == ResetForRound(graph, run.dag, nodes, carried)
           b == [loops |-> Resting(graph, run.dag), concerned |-> S \ Iterated(graph),
                 started |-> {}, busy |-> {}]
           c == Rest(graph, run', executing)
<1>1. /\ run.status = "waiting" /\ run \in Runs(graph, {run.round})
      /\ \A n \in S : Reaches(graph, run, n)
      /\ run' \in ActiveRuns(graph, {run.round + 1})
      /\ run.dag \in AnyEngines(graph) /\ DOMAIN run.dag.state = Nodes(graph)
  BY ResumeSound DEF Resume, Sound, Runs, AnyEngines
<1>2. carried \in Mailboxes(graph)
  BY DEF Carried, Mailboxes, RouteSources, IsGraph, RoutesTo
<1>3. run'.dag = d /\ run'.commands = S
  <2> HIDE DEF d
  <2>1. run' = [run EXCEPT !.status = "active", !.round = @ + 1,
                           !.counters = InitialCounters(graph), !.seeded = @ \cup S,
                           !.commands = S, !.dag = d]
    BY DEF Resume, d
  <2> QED BY <1>1, <2>1 DEF Runs
<1>4. run'.round = run.round + 1 /\ Active(run') /\ DOMAIN run'.dag.state = Nodes(graph)
      /\ run'.round # 1
  <2>1. /\ run'.round = run.round + 1 /\ Active(run')
        /\ DOMAIN run'.dag.state = Nodes(graph)
    BY <1>1, ActiveFields DEF Runs
  <2> QED BY <2>1
<1> HIDE DEF carried
<1>5. /\ \A n \in Nodes(graph) : run.dag.state[n] = "WAITING_FOR_COMMAND" => n \in nodes
      /\ S \subseteq nodes
  BY <1>1, RoundTakesWaiting, RoundNodesCover
<1> HIDE DEF nodes
<1>6. \A n \in Nodes(graph) : \/ n \in nodes /\ run.dag.state[n] # "PENDING"
                              \/ run.dag.state[n] \in Settled
  BY <1>1, <1>5 DEF Sound, WaitingQuiet, Quiescent, Settled
<1>7. Afresh(graph, run.dag, nodes, b)
  BY <1>5 DEF Afresh
<1> HIDE DEF b
<1>8. d \in Orderly(graph, b)
  BY <1>1, <1>2, <1>6, <1>7, ResetOrderly
<1> HIDE DEF d
<1>9. PromptedIn(executing, run'.round) = {}
  <2>1. \A e \in executing : e.round \in Nat
    BY DEF Prompts
  <2> QED BY <1>4, <2>1 DEF PromptedIn
<1>10. run'.dag \in Orderly(graph, c)
  <2>1. /\ c.concerned \subseteq b.concerned /\ c.busy \subseteq b.busy
        /\ c.loops = b.loops
    BY <1>3, <1>4, <1>8, <1>9 DEF Rest, Concerned, b, Orderly
  <2>2. /\ \A n \in Nodes(graph) : d.state[n] \in {"READY", "RUNNING"} => n \in c.started
        /\ \A n \in c.started : n \in b.started \/ d.state[n] \in {"READY", "RUNNING"}
    BY <1>3, <1>4, <1>9 DEF Rest, In
  <2> HIDE DEF c
  <2> QED BY <1>3, <1>8, <2>1, <2>2, OrderlyResettled
<1>11. \A n \in Nodes(graph) : run.dag.state[n] # "PENDING"
  BY <1>6 DEF Settled
<1> QED BY <1>4, <1>9, <1>10, <1>11 DEF Steady, InTurn

LEMMA NoRestart ==
    ASSUME TypedState, [Next]_vars, restarts' = 0
    PROVE  restarts = 0 /\ ~(\E r : Restart(r))
<1>1. restarts \in Nat
  BY BoundsAssumption DEF TypedState
<1>2. ASSUME NEW r, Restart(r) PROVE restarts' # 0
  BY <1>1, <1>2 DEF Restart
<1>3. CASE UNCHANGED vars
  BY <1>2, <1>3 DEF vars
<1>4. CASE Next
  <2>1. ~Crash /\ \A e, port : ~CrashAfterHandoff(e, port)
    BY <1>2 DEF Crash, CrashAfterHandoff
  <2>2. DispatchReadyNodes \/ RetryDeferred \/ FirstWorkerRegisters => restarts' = restarts
    BY DEF DispatchReadyNodes, RetryDeferred, FirstWorkerRegisters
  <2>3. \A n : Provisioned(n) \/ ProvisioningFails(n) \/ WorkerLost(n) => restarts' = restarts
    BY DEF Provisioned, ProvisioningFails, WorkerLost
  <2>4. \A e, port, contract : Answer(e, port, contract) => restarts' = restarts
    BY DEF Answer
  <2>5. Cancel \/ Complete \/ Expire => restarts' = restarts
    BY DEF Cancel, Complete, Expire
  <2>6. \A S : Resume(S) => restarts' = restarts
    BY DEF Resume
  <2> QED BY <1>2, <1>4, <2>1, <2>2, <2>3, <2>4, <2>5, <2>6 DEF Next
<1> QED BY <1>2, <1>3, <1>4

(* Until the Manager restarts every handler leaves the run in order, and   *)
(* promotes only those whose turn has come.                                *)
OrderKept ==
    restarts = 0 => /\ \A e \in executing : e.round <= run.round
                    /\ Steady(graph, run, executing, provisioning)

LEMMA OrderStep ==
    ASSUME TypedState, PassesOfActive, OrderKept, [Next]_vars, restarts' = 0
    PROVE  /\ OrderKept'
           /\ \A n \in Nodes(graph) : InTurn(graph, run, run', n)
<1> DEFINE k == run.round
           b == Rest(graph, run, executing)
           Line(c) == InLine(graph, {k}, run.commands, c)
           Goal == /\ \A e \in executing' : e.round <= run'.round
                   /\ Steady(graph, run', executing', provisioning')
                   /\ \A n \in Nodes(graph) : InTurn(graph, run, run', n)
<1>1. /\ IsGraph(graph) /\ graph' = graph /\ run \in Sound(graph, {k})
      /\ k \in 1 .. MaxRounds /\ k <= k
      /\ provisioning \in SUBSET Agents(graph) /\ deferred \in SUBSET Agents(graph)
      /\ executing \in SUBSET Prompts(graph) /\ executing' \in SUBSET Prompts(graph)
      /\ Agents(graph) \subseteq Nodes(graph)
      /\ \A e \in executing : e.node \in Agents(graph) /\ e.round \in Nat
  <2>1. k \in Rounds /\ run \in Sound(graph, {k})
    BY RoundsOfSound DEF TypedState
  <2>2. TypedState' /\ graph' = graph
    BY TypedStep
  <2> QED BY <2>1, <2>2, GraphsAssumption, BoundsAssumption
          DEF TypedState, Agents, Prompts, Rounds
<1>2. restarts = 0 /\ ~(\E r : Restart(r))
  BY NoRestart
<1>3. /\ \A e \in executing : e.round <= k
      /\ Steady(graph, run, executing, provisioning)
      /\ Concerned(graph, run) \subseteq Nodes(graph)
  BY <1>1, <1>2, ConcernedAreNodes DEF OrderKept
<1> SUFFICES Goal
  BY <1>1 DEF OrderKept
<1>4. ASSUME NEW c, run' \in Line(c), c.concerned = Concerned(graph, run),
             PromptedIn(executing', k) \subseteq c.started,
             c.started \subseteq In(run, {"READY", "RUNNING"}) \cup Agents(graph),
             PromptedIn(executing', k) \cap Concerned(graph, run) \subseteq c.busy,
             \A n \in PromptedIn(executing', k) \cap Concerned(graph, run) :
                n \in provisioning' => n \in c.loops,
             \A e \in executing' : e.round <= k
      PROVE  Goal
  <2>1. run'.round = k
    BY <1>4 DEF InLine, Sound, Runs
  <2>2. Steady(graph, run', executing', provisioning')
        /\ \A n \in Nodes(graph) : InTurn(graph, run, run', n)
    <3> DEFINE s == run'
               E == executing'
               P == provisioning'
    <3>1. /\ s \in InLine(graph, {run.round}, run.commands, c) /\ E \in SUBSET Prompts(graph)
          /\ PromptedIn(E, run.round) \subseteq c.started
          /\ PromptedIn(E, run.round) \cap Concerned(graph, run) \subseteq c.busy
          /\ \A n \in PromptedIn(E, run.round) \cap Concerned(graph, run) :
                n \in P => n \in c.loops
      BY <1>1, <1>4
    <3> HIDE DEF s, E, P
    <3>2. Steady(graph, s, E, P) /\ \A n \in Nodes(graph) : InTurn(graph, run, s, n)
      BY <1>1, <1>4, <3>1, TurnTaken
    <3> QED BY <3>2 DEF s, E, P
  <2> QED BY <1>4, <2>1, <2>2
<1>5. ASSUME Active(run)
      PROVE  /\ run \in Line(b) /\ run \in ActiveRuns(graph, {k})
             /\ \A f, c : c = [b EXCEPT !.busy = @ \ {f}] => run \in Line(c)
  <2>1. run \in ActiveRuns(graph, {k}) /\ run.dag \in Orderly(graph, b)
        /\ DOMAIN run.dag.state = Nodes(graph)
    BY <1>1, <1>3, <1>5, ActiveIsSound, ActiveFields DEF Steady
  <2>2. ASSUME NEW f, NEW c, c = [b EXCEPT !.busy = @ \ {f}]
        PROVE  run.dag \in Orderly(graph, c)
    <3>1. /\ c.concerned = b.concerned /\ c.loops = b.loops /\ c.started = b.started
          /\ c.busy \subseteq b.busy
      BY <2>2 DEF Rest
    <3>2. \A n \in Nodes(graph) : run.dag.state[n] \in {"READY", "RUNNING"} => n \in b.started
      BY <2>1 DEF Rest, In
    <3> HIDE DEF b
    <3> QED BY <2>1, <3>1, <3>2, OrderlyResettled
  <2> QED BY <1>1, <2>1, <2>2 DEF InLine
<1>6. ASSUME Active(run), executing' \subseteq executing, provisioning' \subseteq provisioning,
             NEW c, run' \in Line(c), c.concerned = b.concerned, c.loops = b.loops,
             c.started = b.started,
             PromptedIn(executing', k) \cap Concerned(graph, run) \subseteq c.busy
      PROVE  Goal
  <2>1. PromptedIn(executing', k) \subseteq PromptedIn(executing, k)
    BY <1>6 DEF PromptedIn
  <2>2. PromptedIn(executing, k) \subseteq Agents(graph)
    BY <1>1, PromptedAreAgents
  <2>3. /\ b.concerned = Concerned(graph, run) /\ b.loops = Resting(graph, run.dag)
        /\ b.started = In(run, {"READY", "RUNNING"}) \cup PromptedIn(executing, k)
    BY DEF Rest
  <2>4. \A n \in PromptedIn(executing, k) \cap Concerned(graph, run) :
           n \in provisioning => n \in c.loops
    BY <1>3, <1>6, <2>3 DEF Steady
  <2>5. \A e \in executing' : e.round <= k
    BY <1>3, <1>6
  <2> HIDE DEF b, Line, Goal, k
  <2> QED BY <1>4, <1>6, <2>1, <2>2, <2>3, <2>4, <2>5
<1>7. ASSUME run' = run, executing' \subseteq executing, provisioning' \subseteq provisioning
       PROVE  Goal
  <2>1. CASE ~Active(run)
    BY <1>3, <1>7, <2>1 DEF Steady, InTurn
  <2>2. CASE Active(run)
    <3>1. PromptedIn(executing', k) \cap Concerned(graph, run) \subseteq b.busy
      BY <1>7 DEF PromptedIn, Rest
    <3>2. run' \in Line(b)
      BY <1>5, <1>7, <2>2
    <3> HIDE DEF b, Line, Goal, k
    <3> QED BY <1>6, <1>7, <2>2, <3>1, <3>2
  <2> QED BY <2>1, <2>2
<1>8. ASSUME run' \in Sound(graph, {k}), ~Active(run'), executing' = executing
      PROVE  Goal
  <2>1. run'.round = k
    BY <1>8 DEF Sound, Runs
  <2>2. \A n \in Nodes(graph) : run'.dag.state[n] # "READY"
    BY <1>8, QuietNotReady
  <2> QED BY <1>3, <1>8, <2>1, <2>2 DEF Steady, InTurn
<1> HIDE DEF Goal
<1>9. CASE DispatchReadyNodes
  <2>1. PICK outcome :
           /\ \A n \in Ready(run.dag) : outcome[n] \in Outcomes(graph, n)
           /\ \E pass \in {DispatchPass(graph, outcome)} :
                /\ run' = pass.run
                /\ provisioning' = pass.prov
                /\ executing' = pass.sent
    BY <1>9, Zenon DEF DispatchReadyNodes
  <2> DEFINE p == DispatchPass(graph, outcome)
             c == Rest(graph, run, p.sent)
  <2>2. Active(run)
    BY <1>9 DEF DispatchReadyNodes, PassesOfActive
  <2>3. Passing(graph, run, graph.size, p)
    BY <1>1, <1>3, <2>1, <2>2, DispatchPassPassing
  <2>4. run' = p.run /\ provisioning' = p.prov /\ executing' = p.sent
    BY <2>1
  <2> HIDE DEF p
  <2>5. run' \in Line(c) /\ \A e \in executing' : e.round <= k
    BY <2>3, <2>4 DEF Passing
  <2>6. PromptedIn(executing', k) \subseteq Agents(graph)
    BY <1>1, PromptedAreAgents
  <2>7. /\ c.concerned = Concerned(graph, run) /\ c.loops = Resting(graph, run.dag)
        /\ c.busy = PromptedIn(executing', k) \cap Concerned(graph, run)
        /\ c.started = In(run, {"READY", "RUNNING"}) \cup PromptedIn(executing', k)
    BY <2>4 DEF Rest
  <2>8. \A n \in PromptedIn(executing', k) \cap Concerned(graph, run) :
           n \in provisioning' => n \in c.loops
    BY <2>3, <2>4, <2>7 DEF Passing
  <2> HIDE DEF c, Line, k
  <2> QED BY <1>4, <2>5, <2>6, <2>7, <2>8
<1>10. ASSUME NEW n \in provisioning, run' = FailActiveRun(graph, run, n),
              executing' = executing, provisioning' \subseteq provisioning
       PROVE  Goal
  <2>1. CASE ~Active(run)
    BY <1>10, <1>7, <2>1, InactiveKept
  <2>2. CASE Active(run)
    <3>1. n \in Nodes(graph) /\ n \notin b.busy \ b.loops
      BY <1>1, <1>3, <2>2 DEF Steady, Rest
    <3>2. run \in ActiveRuns(graph, {k}) /\ run.dag \in Orderly(graph, b)
      BY <1>5, <2>2 DEF InLine
    <3>3. PromptedIn(executing', k) \cap Concerned(graph, run) \subseteq b.busy
      BY <1>10 DEF Rest
    <3> DEFINE C == run.commands
    <3>4. C \subseteq C
      OBVIOUS
    <3> HIDE DEF b, k, C
    <3>5. run' \in InLine(graph, {k}, C, b)
      BY <1>1, <1>10, <3>1, <3>2, <3>4, NearItself, FailureInLine DEF C
    <3>6. executing' \subseteq executing
      BY <1>10
    <3> QED BY <1>6, <1>10, <2>2, <3>3, <3>5, <3>6 DEF C
  <2> QED BY <2>1, <2>2
<1>11. ASSUME NEW n \in provisioning, Active(run), run.dag.state[n] = "READY",
              run' = Send(run, n), executing' = executing \cup {Prompt(run, n)},
              provisioning' = provisioning \ {n}
       PROVE  Goal
  <2> DEFINE c == Rest(graph, run, executing')
             d == [run.dag EXCEPT !.state[n] = "RUNNING"]
  <2>1. Prompt(run, n).node = n /\ Prompt(run, n).round = k
    BY DEF Prompt
  <2>2. PromptedIn(executing', k) = PromptedIn(executing, k) \cup {n}
    BY <1>11, <2>1 DEF PromptedIn
  <2>3. /\ run \in ActiveRuns(graph, {k}) /\ run.dag \in Orderly(graph, b)
        /\ run \in Runs(graph, {k}) /\ n \in Nodes(graph) /\ ~Gateway(graph, n)
    BY <1>1, <1>5, <1>11, ActiveFields DEF InLine, Agents
  <2>4. /\ c.loops = b.loops /\ c.concerned = b.concerned
        /\ c.started = b.started \cup {n} /\ c.busy \subseteq b.busy \cup {n}
        /\ c.busy = PromptedIn(executing', k) \cap Concerned(graph, run)
        /\ c.started = In(run, {"READY", "RUNNING"}) \cup PromptedIn(executing', k)
        /\ c.concerned = Concerned(graph, run) /\ c.loops = Resting(graph, run.dag)
    BY <2>2 DEF Rest
  <2>5. \A m \in PromptedIn(executing', k) \cap Concerned(graph, run) :
           m \in provisioning' => m \in c.loops
    BY <1>3, <1>11, <2>2, <2>4 DEF Steady
  <2>6. PromptedIn(executing', k) \subseteq Agents(graph)
    BY <1>1, PromptedAreAgents
  <2>7. \A e \in executing' : e.round <= k
    BY <1>1, <1>3, <1>11, <2>1
  <2>8. Send(run, n).dag = d /\ Send(run, n).commands = run.commands
    BY <2>3 DEF Send, Runs
  <2>9. Send(run, n) \in Sound(graph, {k})
    BY <1>1, <1>11, <2>3, SendSound
  <2> HIDE DEF b, c, k
  <2>10. d \in Orderly(graph, c)
    BY <1>1, <1>11, <2>3, <2>4, OrderlySend
  <2> HIDE DEF d
  <2>11. run' \in Line(c)
    BY <1>11, <2>8, <2>9, <2>10 DEF InLine
  <2> HIDE DEF Line
  <2> QED BY <1>4, <2>4, <2>5, <2>6, <2>7, <2>11
<1>12. ASSUME NEW n \in provisioning, Provisioned(n) \/ ProvisioningFails(n) PROVE Goal
  <2>1. /\ provisioning' = provisioning \ {n}
        /\ \/ /\ Active(run) /\ run.dag.state[n] = "READY" /\ run' = Send(run, n)
              /\ executing' = executing \cup {Prompt(run, n)}
           \/ run' = run /\ executing' = executing
           \/ run' = FailActiveRun(graph, run, n) /\ executing' = executing
    BY <1>12 DEF Provisioned, ProvisioningFails
  <2> QED BY <1>10, <1>11, <1>7, <2>1
<1>13. CASE RetryDeferred \/ FirstWorkerRegisters \/ UNCHANGED vars
  BY <1>13, <1>7 DEF RetryDeferred, FirstWorkerRegisters, vars
<1>14. ASSUME NEW n \in Nodes(graph), WorkerLost(n) PROVE Goal
  <2> DEFINE c == [b EXCEPT !.busy = @ \ {n}]
             C == run.commands
  <2>1. /\ Active(run) /\ run' = FailActiveRun(graph, run, n)
        /\ executing' = {e \in executing : e.node # n} /\ provisioning' = provisioning
    BY <1>14 DEF WorkerLost
  <2>2. run \in ActiveRuns(graph, {k}) /\ run.dag \in Orderly(graph, c)
    BY <1>5, <2>1 DEF InLine
  <2>3. /\ c.concerned = b.concerned /\ c.loops = b.loops /\ c.started = b.started
        /\ n \notin c.busy \ c.loops
        /\ PromptedIn(executing', k) \cap Concerned(graph, run) \subseteq c.busy
    BY <2>1 DEF Rest, PromptedIn
  <2>4. C \subseteq C
    OBVIOUS
  <2> HIDE DEF b, c, k, C
  <2>5. run' \in InLine(graph, {k}, C, c)
    BY <1>1, <2>1, <2>2, <2>3, <2>4, NearItself, FailureInLine DEF C
  <2>6. executing' \subseteq executing /\ provisioning' \subseteq provisioning
    BY <2>1
  <2> QED BY <1>6, <2>1, <2>3, <2>5, <2>6 DEF C
<1>15. ASSUME NEW e \in executing, NEW port \in {"done", FailurePort, "rejected"},
              NEW contract, Answer(e, port, contract)
       PROVE  Goal
  <2>1. executing' = executing \ {e} /\ provisioning' = provisioning
        /\ executing' \subseteq executing /\ provisioning' \subseteq provisioning
    BY <1>15 DEF Answer, manager
  <2>2. CASE ~Current(run, e)
    <3>1. run' = run
      BY <1>15, <2>2 DEF Answer
    <3> QED BY <1>7, <2>1, <3>1
  <2>3. CASE Current(run, e)
    <3> DEFINE f == e.node
               c == [b EXCEPT !.busy = @ \ {f}]
               C == run.commands
    <3>1. /\ Active(run) /\ e.round = k /\ (k > 1 => f \in run.commands)
          /\ run' = Applied(graph, run, f, port, contract)
      BY <1>15, <2>3 DEF Answer, Current
    <3>2. k = 1 \/ f \in run.commands
      BY <1>1, <3>1, BoundsAssumption
    <3>3. f \in PromptedIn(executing, k)
      BY <3>1 DEF PromptedIn
    <3>4. Steady(graph, run, executing, {})
      BY <1>3 DEF Steady
    <3>5. Asked(graph, c, run.dag, f)
      BY <1>1, <3>1, <3>2, <3>3, <3>4, AnsweredAsked
    <3>6. /\ c.concerned = b.concerned /\ c.loops = b.loops /\ c.started = b.started
          /\ PromptedIn(executing', k) \cap Concerned(graph, run) \subseteq c.busy
      <4>1. ASSUME NEW q \in executing \ {e}, q.round = k PROVE q.node # f
        BY <1>1, <1>15, <3>1, <4>1 DEF Prompts
      <4> QED BY <2>1, <4>1 DEF Rest, PromptedIn
    <3>7. run \in InLine(graph, {k}, C, c)
      BY <1>5, <3>1
    <3> HIDE DEF b, c, k, C, f
    <3>8. run' \in InLine(graph, {k}, C, c)
      BY <1>1, <1>15, <3>1, <3>5, <3>7, AppliedInLine
    <3> QED BY <1>6, <2>1, <3>1, <3>6, <3>8 DEF C
  <2> QED BY <2>2, <2>3
<1>16. CASE Cancel \/ Complete \/ Expire
  <2>1. "status" \in DOMAIN run
    BY <1>1 DEF Sound, Runs
  <2>2. ~Active(CancelRun(run)) /\ ~Active(CompleteRun(run)) /\ ~Active(ExpireRun(run))
    BY <2>1 DEF CancelRun, CompleteRun, ExpireRun, Active
  <2>3. ~Active(run') /\ executing' = executing /\ ~Opens
    <3>1. ~Active(run') /\ executing' = executing
      BY <1>16, <2>2 DEF Cancel, Complete, Expire
    <3>2. ASSUME NEW S, Resume(S) PROVE FALSE
      <4>1. run' = [run EXCEPT !.status = "active", !.round = run'.round,
                               !.counters = run'.counters, !.seeded = run'.seeded,
                               !.commands = run'.commands, !.dag = run'.dag]
        BY <1>1, <3>2 DEF Resume, Sound, Runs
      <4> QED BY <3>1, <4>1, <2>1 DEF Active
    <3> QED BY <3>1, <3>2 DEF Opens
  <2> QED BY <1>8, <2>3, TypedStep
<1>17. ASSUME NEW S \in SUBSET Nodes(graph), S # {}, Resume(S) PROVE Goal
  <2>1. /\ \A P : Steady(graph, run', executing, P)
        /\ \A n \in Nodes(graph) : InTurn(graph, run, run', n)
        /\ run'.round = k + 1
    BY <1>1, <1>3, <1>17, ResumeInLine
  <2>2. executing' = executing
    BY <1>17 DEF Resume
  <2>3. \A e \in executing : e.round <= k + 1
    BY <1>1, <1>3
  <2> QED BY <2>1, <2>2, <2>3 DEF Goal
<1>18. ~Crash /\ \A e, port : ~CrashAfterHandoff(e, port)
  BY <1>2 DEF Crash, CrashAfterHandoff
<1> QED BY <1>9, <1>12, <1>13, <1>14, <1>15, <1>16, <1>17, <1>18 DEF Next

LEMMA OrderInit == Init => OrderKept
<1> SUFFICES ASSUME Init PROVE OrderKept
  OBVIOUS
<1> DEFINE b == Rest(graph, run, executing)
<1>1. /\ IsGraph(graph) /\ run \in ActiveRuns(graph, {1}) /\ executing = {}
      /\ run.dag = NewEngine(graph)
  <2>1. IsGraph(graph) /\ run \in ActiveRuns(graph, {1})
    BY InitSound
  <2> QED BY <2>1 DEF Init, NewRun
<1>2. run.dag \in Engines(graph) /\ DOMAIN run.dag.state = Nodes(graph)
  BY <1>1, ActiveFields
<1>3. /\ b.loops = Resting(graph, run.dag) /\ b.busy = {}
      /\ b.concerned = Concerned(graph, run)
      /\ b.started = In(run, {"READY", "RUNNING"})
      /\ b.concerned \subseteq Nodes(graph) \ Iterated(graph)
  <2>1. PromptedIn(executing, run.round) = {}
    BY <1>1 DEF PromptedIn
  <2>2. run \in Sound(graph, {1})
    BY <1>1, ActiveIsSound
  <2> QED BY <2>1, <2>2, ConcernedAreNodes DEF Rest, Concerned
<1>4. ASSUME NEW n \in Nodes(graph)
      PROVE  /\ run.dag.state[n] = IF graph.after[n] = {} THEN "READY" ELSE "PENDING"
             /\ run.dag.after[n] = {}
  BY <1>1 DEF NewEngine
<1> HIDE DEF b
<1>5. ASSUME NEW n \in b.concerned PROVE InOrder(graph, b, run.dag, n)
  <2>1. n \in Nodes(graph) /\ n \notin Iterated(graph) /\ run.dag.after[n] = {}
    BY <1>3, <1>4
  <2>2. n \in b.started \/ run.dag.state[n] \in {"READY", "RUNNING"} =>
           n \in b.started /\ graph.after[n] = {}
    BY <1>2, <1>3, <1>4, <2>1 DEF In
  <2> QED BY <1>3, <2>1, <2>2 DEF InOrder
<1>6. run.dag \in Orderly(graph, b)
  BY <1>2, <1>3, <1>5 DEF Orderly
<1>7. PromptedIn(executing, run.round) = {} /\ \A e \in executing : e.round <= run.round
  BY <1>1 DEF PromptedIn
<1> QED BY <1>6, <1>7 DEF OrderKept, Steady, b

LEMMA OrderAlways == Spec => []OrderKept
<1>1. OrderKept /\ TypedState /\ PassesOfActive /\ [Next]_vars => OrderKept'
  <2> SUFFICES ASSUME OrderKept, TypedState, PassesOfActive, [Next]_vars PROVE OrderKept'
    OBVIOUS
  <2>1. CASE restarts' = 0
    BY <2>1, OrderStep
  <2>2. CASE restarts' # 0
    BY <2>2 DEF OrderKept
  <2> QED BY <2>1, <2>2
<1>2. Spec => []PassesOfActive
  BY PassesInit, PassesStep, PTL DEF Spec
<1> QED BY <1>1, <1>2, OrderInit, TypedAlways, PTL DEF Spec

(* A node becomes ready only when all that it comes after has settled, in  *)
(* whatever order answers, errors, corrections, lost Workers and rounds    *)
(* come, for every graph, all limits and any number of rounds.  It is said *)
(* of the runs whose Manager has not restarted and, from the second round  *)
(* on, of the actors the round commands; what a loop gateway iterates and  *)
(* loop sources are the exceptions the property names.                     *)
THEOREM DependenciesComeFirst == Spec => DependenciesFirst
<1> DEFINE Turn(n) ==
              /\ restarts' = 0
              /\ run'.round = 1 \/ n \in run.commands
              /\ run.dag.state[n] = "PENDING" /\ run'.dag.state[n] = "READY"
              => \/ \A m \in graph.after[n] : \/ run'.dag.state[m] \in Settled
                                             \/ m \in run'.dag.loops
                                             \/ m \in Iterated(graph)
                 \/ n \in Iterated(graph)
<1>1. ASSUME TypedState, PassesOfActive, OrderKept, [Next]_vars, NEW n \in Nodes(graph)
      PROVE  Turn(n)
  <2>1. restarts' = 0 => InTurn(graph, run, run', n)
    BY <1>1, OrderStep
  <2> QED BY <2>1 DEF InTurn, Over
<1>2. TypedState /\ PassesOfActive /\ OrderKept /\ [Next]_vars
         => [\A n \in Nodes(graph) : Turn(n)]_vars
  BY <1>1
<1>3. Spec => []PassesOfActive
  BY PassesInit, PassesStep, PTL DEF Spec
<1> QED BY <1>2, <1>3, OrderAlways, TypedAlways, PTL DEF Spec, DependenciesFirst

----------------------------------------------------------------------------
(* A vote is heard *)

(* Graphs without loops.                                                   *)
Straight(g) == /\ IsGraph(g) /\ LoopSources(g) = {} /\ Iterated(g) = {}
               /\ \A n \in Nodes(g) : ~LoopGateway(g, n)

(* Runs that did not end badly have heard the votes of their joins, and an *)
(* await node never hands off.                                             *)
Standing(r) == r.status \in {"active", "waiting", "completed"}
Spoken(g, r) == \A h \in r.history : ~Await(g, h[1])
Voting(g, K) == {r \in Sound(g, K) : /\ Spoken(g, r)
                                     /\ Standing(r) => VotesHeard(g, r.dag)}

LEMMA ActiveVoting ==
    ASSUME NEW g, NEW K
    PROVE  /\ \A r \in ActiveRuns(g, K) : Spoken(g, r) /\ r.dag \in Voted(g) => r \in Voting(g, K)
           /\ \A r \in Voting(g, K) :
                 Active(r) => r \in ActiveRuns(g, K) /\ r.dag \in Voted(g) /\ Spoken(g, r)
<1>1. \A r \in ActiveRuns(g, K) : r \in Sound(g, K) /\ r.dag \in Engines(g)
  BY ActiveIsSound, ActiveFields
<1>2. \A r \in Voting(g, K) : Active(r) => r \in ActiveRuns(g, K) /\ Standing(r)
  BY ActiveIsSound DEF Voting, Active, Standing
<1> QED BY <1>1, <1>2 DEF Voting, Voted

(* What ends a run badly leaves no vote to be heard.                       *)
LEMMA EndingVotes ==
    ASSUME NEW g, NEW K, NEW r \in ActiveRuns(g, K), Spoken(g, r)
    PROVE  /\ \A S : Abort(r, S) \in Voting(g, K)
           /\ IsRunTerminal(r.dag) => [r EXCEPT !.status = "failed"] \in Voting(g, K)
<1>1. r \in Sound(g, K) /\ r \in Runs(g, K) /\ Active(r)
  BY ActiveIsSound, ActiveFields
<1>2. ASSUME NEW S PROVE Abort(r, S) \in Voting(g, K)
  <2>1. Abort(r, S).status = "failed" /\ Abort(r, S).history = r.history
    BY <1>1 DEF Abort, Runs
  <2>2. Abort(r, S) \in Sound(g, K)
    BY <1>1, AbortSound
  <2> QED BY <2>1, <2>2 DEF Voting, Standing, Spoken
<1>3. ASSUME IsRunTerminal(r.dag) PROVE [r EXCEPT !.status = "failed"] \in Voting(g, K)
  <2>1. [r EXCEPT !.status = "failed"] \in Sound(g, K)
    BY <1>3, TerminalFails
  <2>2. [r EXCEPT !.status = "failed"].status = "failed"
        /\ [r EXCEPT !.status = "failed"].history = r.history
    BY <1>1 DEF Runs
  <2> QED BY <2>1, <2>2 DEF Voting, Standing, Spoken
<1> QED BY <1>2, <1>3

(* What completes a run completes await nodes alone.                       *)
LEMMA CompleteVotes ==
    ASSUME NEW g, NEW K, Straight(g), NEW r \in Voting(g, K), Standing(r),
           CompleteRun(r) \in Sound(g, K)
    PROVE  CompleteRun(r) \in Voting(g, K)
<1> DEFINE waits == In(r, {"WAITING_FOR_COMMAND"})
           e == SetState(r.dag, waits, "COMPLETED")
<1>1. /\ r \in Runs(g, K) /\ r.dag \in AnyEngines(g) /\ DOMAIN r.dag.state = Nodes(g)
      /\ WaitsAtAwait(g, r) /\ Spoken(g, r) /\ VotesHeard(g, r.dag) /\ IsGraph(g)
  BY DEF Voting, Sound, Runs, AnyEngines, Straight
<1>2. /\ e.loops = r.dag.loops /\ e.handed = r.dag.handed
      /\ e.after = r.dag.after /\ e.input = r.dag.input
      /\ \A n \in Nodes(g) : e.state[n] = IF n \in waits THEN "COMPLETED" ELSE r.dag.state[n]
  BY <1>1 DEF SetState, AnyEngines
<1>3. CompleteRun(r).dag = e /\ CompleteRun(r).history = r.history
  BY <1>1 DEF CompleteRun, Runs
<1> HIDE DEF e
<1>4. \A n \in waits : Await(g, n)
  BY <1>1 DEF In, WaitsAtAwait, Await
<1> HIDE DEF waits
<1>5. VotesHeard(g, e)
  BY <1>1, <1>2, <1>4, VotesAwait
<1> QED BY <1>1, <1>3, <1>5 DEF Voting, Spoken

(* What a failure skips unheard, it skips because nothing is left to do:   *)
(* the run has failed.                                                     *)
LEMMA SkipStalledEnds ==
    ASSUME NEW g, NEW K, NEW r \in ActiveRuns(g, K)
    PROVE  SkipStalled(r) = r \/ (IsRunTerminal(SkipStalled(r).dag) /\ SkipStalled(r).history = r.history)
<1> DEFINE e == SetState(r.dag, In(r, {"PENDING"}), "SKIPPED")
<1>1. r \in Runs(g, K) /\ r.dag \in Engines(g) /\ DOMAIN r.dag.state = Nodes(g)
  BY ActiveFields
<1>2. ASSUME In(r, {"READY", "RUNNING", "WAITING_FOR_COMMAND"}) = {} PROVE IsRunTerminal(e)
  <2>1. /\ DOMAIN e.state = Nodes(g)
        /\ \A n \in Nodes(g) : e.state[n] = IF r.dag.state[n] = "PENDING" THEN "SKIPPED"
                                             ELSE r.dag.state[n]
    BY <1>1 DEF SetState, Engines, In
  <2>2. \A n \in Nodes(g) : r.dag.state[n] \in Settled \cup {"PENDING"}
    BY <1>1, <1>2 DEF In, Engines, NodeStates, Settled
  <2> HIDE DEF e
  <2> QED BY <2>1, <2>2 DEF IsRunTerminal, Settled
<1> HIDE DEF e
<1>3. [r EXCEPT !.dag = e].dag = e /\ [r EXCEPT !.dag = e].history = r.history
  BY <1>1 DEF Runs
<1>4. \/ SkipStalled(r) = r
      \/ /\ In(r, {"READY", "RUNNING", "WAITING_FOR_COMMAND"}) = {}
         /\ SkipStalled(r) = [r EXCEPT !.dag = e]
  BY DEF SkipStalled, e
<1> QED BY <1>2, <1>3, <1>4

LEMMA FailureVotes ==
    ASSUME NEW g, NEW K, Straight(g), NEW r \in Voting(g, K), NEW f \in Nodes(g), ~Await(g, f)
    PROVE  FailActiveRun(g, r, f) \in Voting(g, K)
<1> DEFINE d == FailNode(g, r.dag, f)
           q == [r EXCEPT !.dag = d]
           p == SkipStalled(q)
<1>1. CASE ~Active(r)
  BY <1>1 DEF FailActiveRun
<1>2. CASE Active(r)
  <2>1. /\ r \in ActiveRuns(g, K) /\ r \in Runs(g, K) /\ r.dag \in Engines(g)
        /\ r.dag \in Voted(g) /\ Spoken(g, r) /\ IsGraph(g) /\ Iterated(g) = {}
    BY <1>2, ActiveVoting, ActiveFields DEF Straight
  <2>2. d \in Voted(g) /\ d \in Engines(g)
    BY <2>1, FailNodeVoted DEF Voted
  <2> HIDE DEF d
  <2>3. q \in ActiveRuns(g, K) /\ q.dag = d /\ q.history = r.history
    BY <2>1, <2>2, DagReplaced DEF Runs
  <2> HIDE DEF q
  <2>4. p \in ActiveRuns(g, K) /\ Spoken(g, p) /\ (p = q \/ IsRunTerminal(p.dag))
    BY <2>1, <2>3, SkipStalledActive, SkipStalledEnds DEF Spoken
  <2>5. p = q => p \in Voting(g, K)
    BY <2>2, <2>3, <2>4, ActiveVoting
  <2> HIDE DEF p
  <2>6. AfterFailure(g, p, f) \in Voting(g, K)
    BY <2>4, <2>5, EndingVotes DEF AfterFailure
  <2> QED BY <1>2, <2>6 DEF FailActiveRun, p, q, d
<1> QED BY <1>1, <1>2

LEMMA HandoffVotes ==
    ASSUME NEW g, NEW K, Straight(g), NEW r \in Voting(g, K), Active(r), NEW f \in Nodes(g),
           ~Await(g, f), r.dag.state[f] \notin Settled, NEW port \in Ports
    PROVE  HandoffActiveRun(g, r, f, port) \in Voting(g, K)
<1> DEFINE q == CommitHandoff(g, r, f, port)
<1>1. /\ r \in ActiveRuns(g, K) /\ r \in Runs(g, K) /\ r.dag \in Voted(g) /\ Spoken(g, r)
      /\ IsGraph(g) /\ Iterated(g) = {}
  BY ActiveVoting, ActiveFields DEF Straight
<1>2. Handoff(g, r.dag, f, port) \in Voted(g)
  BY <1>1, HandoffVoted
<1>3. q \in ActiveRuns(g, K)
  BY <1>1, CommitHandoffActive
<1>4. q.dag = Handoff(g, r.dag, f, port) /\ q.history = r.history \cup {<<f, port>>}
  BY <1>1 DEF CommitHandoff, Runs
<1> HIDE DEF q
<1>5. q \in Voting(g, K) /\ Spoken(g, q) /\ Standing(q)
  <2>1. Spoken(g, q)
    BY <1>1, <1>4 DEF Spoken
  <2> QED BY <1>2, <1>3, <1>4, <2>1, ActiveVoting, ActiveFields DEF Standing
<1>6. AfterHandoff(g, q, f, port) \in Voting(g, K)
  BY <1>3, <1>5, EndingVotes, CompleteSound, CompleteVotes DEF AfterHandoff
<1> QED BY <1>1, <1>6, EndingVotes DEF HandoffActiveRun, q

LEMMA CorrectVotes ==
    ASSUME NEW g, NEW K, Straight(g), NEW r \in Voting(g, K), Active(r), NEW f \in Nodes(g),
           r.dag.state[f] = "RUNNING", r.counters.corrections[f] < MaxCorrections
    PROVE  Correct(g, r, f) \in Voting(g, K)
<1> DEFINE o == ReopenSkipped(g, r.dag, f)
           d == [o EXCEPT !.state[f] = "READY", !.handed = @ \ {f}]
<1>1. /\ r \in ActiveRuns(g, K) /\ r \in Runs(g, K) /\ r.dag \in Voted(g) /\ Spoken(g, r)
      /\ IsGraph(g)
  BY ActiveVoting, ActiveFields DEF Straight
<1>2. Correct(g, r, f).dag = d /\ Correct(g, r, f).history = r.history
  BY <1>1 DEF Correct, Runs
<1>3. o = ReopenSkipped(g, r.dag, f)
  OBVIOUS
<1> HIDE DEF o
<1>4. d \in Voted(g)
  BY <1>1, <1>3, VotedCorrected, Zenon
<1>5. Correct(g, r, f) \in ActiveRuns(g, K)
  BY <1>1, CorrectActive
<1> HIDE DEF d
<1> QED BY <1>1, <1>2, <1>4, <1>5, ActiveVoting DEF Spoken

LEMMA AppliedVotes ==
    ASSUME NEW g, NEW K, Straight(g), NEW r \in Voting(g, K), Active(r), NEW f \in Agents(g),
           r.dag.state[f] = "RUNNING", NEW port \in {"done", FailurePort, "rejected"},
           NEW contract
    PROVE  Applied(g, r, f, port, contract) \in Voting(g, K)
<1>1. f \in Nodes(g) /\ ~Await(g, f) /\ r.dag.state[f] \notin Settled
  BY DEF Agents, Gateway, Await, Settled
<1>2. FailActiveRun(g, r, f) \in Voting(g, K)
  BY <1>1, FailureVotes
<1>3. \A t \in Ports : HandoffActiveRun(g, r, f, t) \in Voting(g, K)
  BY <1>1, HandoffVotes
<1>4. r.counters.corrections[f] < MaxCorrections => Correct(g, r, f) \in Voting(g, K)
  BY <1>1, CorrectVotes
<1>5. TryCorrect(g, r, f, contract) \in Voting(g, K)
  BY <1>2, <1>3, <1>4 DEF TryCorrect, Ports
<1>6. port # "rejected" => port \in Ports
  BY DEF Ports
<1> QED BY <1>3, <1>5, <1>6 DEF Applied

LEMMA GatewayVotes ==
    ASSUME NEW g, NEW K, Straight(g), NEW r \in Voting(g, K), NEW f \in Nodes(g),
           Gateway(g, f), NEW passed
    PROVE  ExecuteGateway(g, r, f, passed) \in Voting(g, K)
<1> DEFINE port == GatewayPort(g, r, f, passed)
           q == CloseRound(r, f)
<1>1. CASE ~Active(r)
  BY <1>1 DEF ExecuteGateway
<1>2. CASE Active(r) /\ g.kind[f] = "await"
  <2>1. /\ r \in ActiveRuns(g, K) /\ r \in Runs(g, K) /\ r.dag \in AnyEngines(g)
        /\ Spoken(g, r) /\ VotesHeard(g, r.dag) /\ IsGraph(g)
    BY <1>2, ActiveVoting, ActiveFields, EnginesAny DEF Straight, Voted
  <2>2. q \in Sound(g, K)
    BY <1>2, <2>1, CloseRoundSound
  <2>3. /\ q.history = r.history
        /\ q.dag.loops = r.dag.loops /\ q.dag.handed = r.dag.handed
        /\ q.dag.after = r.dag.after /\ q.dag.input = r.dag.input
        /\ \A n \in Nodes(g) : \/ q.dag.state[n] = r.dag.state[n]
                               \/ n = f /\ q.dag.state[n] = "WAITING_FOR_COMMAND"
    BY <2>1 DEF CloseRound, Runs, AnyEngines
  <2> HIDE DEF q
  <2>4. VotesHeard(g, q.dag)
    BY <1>2, <2>1, <2>3, VotesAwait DEF Await
  <2>5. ExecuteGateway(g, r, f, passed) = q
    BY <1>2 DEF ExecuteGateway, q
  <2> QED BY <2>1, <2>2, <2>3, <2>4, <2>5 DEF Voting, Spoken
<1>3. CASE Active(r) /\ g.kind[f] # "await"
  <2>1. ~Await(g, f) /\ CountIteration(g, r, f, port) = r
    BY <1>3 DEF Await, CountIteration, Straight
  <2>2. port \in Ports
    BY DEF GatewayPort, Ports, FailurePort
  <2>3. ExecuteGateway(g, r, f, passed) = LeaveGateway(g, r, f, port)
    BY <1>3, <2>1 DEF ExecuteGateway
  <2> HIDE DEF port
  <2> QED BY <1>3, <2>1, <2>2, <2>3, FailureVotes, HandoffVotes DEF LeaveGateway
<1> QED BY <1>1, <1>2, <1>3

LEMMA SendVotes ==
    ASSUME NEW g, NEW K, Straight(g), NEW r \in Voting(g, K), Active(r), NEW f \in Nodes(g),
           r.dag.state[f] = "READY"
    PROVE  Send(r, f) \in Voting(g, K)
<1> DEFINE d == [r.dag EXCEPT !.state[f] = "RUNNING"]
<1>1. /\ r \in ActiveRuns(g, K) /\ r \in Runs(g, K) /\ r.dag \in Voted(g) /\ Spoken(g, r)
      /\ IsGraph(g)
  BY ActiveVoting, ActiveFields DEF Straight
<1>2. d \in Voted(g) /\ d \in Engines(g)
  BY <1>1, VotedSend DEF Voted
<1>3. Send(r, f) = [r EXCEPT !.dag = d]
  BY DEF Send
<1> HIDE DEF d
<1>4. [r EXCEPT !.dag = d] \in ActiveRuns(g, K)
  BY <1>1, <1>2, DagReplaced
<1>5. [r EXCEPT !.dag = d].dag = d /\ [r EXCEPT !.dag = d].history = r.history
  BY <1>1 DEF Runs
<1> QED BY <1>1, <1>2, <1>3, <1>4, <1>5, ActiveVoting DEF Spoken

LEMMA DispatchVotes ==
    ASSUME NEW g, NEW K \in SUBSET (1 .. MaxRounds), Straight(g), NEW p \in PassStates(g, K),
           p.run \in Voting(g, K), NEW f \in Nodes(g), NEW outcome \in Outcomes(g, f)
    PROVE  DispatchNode(g, p, f, outcome).run \in Voting(g, K)
<1>1. CASE Gateway(g, f)
  <2> DEFINE r == ExecuteGateway(g, p.run, f, outcome = "passed")
  <2>1. r \in Voting(g, K)
    BY <1>1, GatewayVotes
  <2> HIDE DEF r
  <2>2. [p EXCEPT !.run = r, !.done = ~Active(r)].run = r
    BY DEF PassStates
  <2> QED BY <1>1, <2>1, <2>2 DEF DispatchNode, r
<1>2. CASE ~Gateway(g, f)
  <2>1. FailActiveRun(g, p.run, f) \in Voting(g, K)
    BY <1>2, FailureVotes DEF Gateway, Await
  <2>2. Active(p.run) /\ p.run.dag.state[f] = "READY" => Send(p.run, f) \in Voting(g, K)
    BY SendVotes
  <2>3. outcome \in {"sent", "provisioning", "deferred", "failed"}
    BY <1>2 DEF Outcomes
  <2>4. \/ DispatchAgent(g, p, f, outcome).run \in {p.run, FailActiveRun(g, p.run, f)}
        \/ /\ Active(p.run) /\ p.run.dag.state[f] = "READY"
           /\ DispatchAgent(g, p, f, outcome).run = Send(p.run, f)
    BY <2>3 DEF DispatchAgent, PassStates
  <2> QED BY <1>2, <2>1, <2>2, <2>4 DEF DispatchNode
<1> QED BY <1>1, <1>2

LEMMA DispatchPassVotes ==
    ASSUME NEW g, NEW K \in SUBSET (1 .. MaxRounds), Straight(g), run \in Voting(g, K),
           provisioning \in SUBSET Agents(g), deferred \in SUBSET Agents(g),
           executing \in SUBSET Prompts(g), NEW outcome,
           \A m \in Ready(run.dag) : outcome[m] \in Outcomes(g, m)
    PROVE  DispatchPass(g, outcome).run \in Voting(g, K)
<1> DEFINE start == [run |-> run, prov |-> provisioning, wait |-> deferred,
                     sent |-> executing, done |-> FALSE]
           X == {p \in PassStates(g, K) : p.run \in Voting(g, K)}
           N == g.size
           Step(e, i) == IF i \in Ready(run.dag)
                         THEN IF e.done THEN e ELSE DispatchNode(g, e, i, outcome[i])
                         ELSE e
           F == [i \in 1 .. N |-> [e \in X |-> Step(e, i)]]
           Body(h) == [i \in 0 .. N |-> IF i = 0 THEN start ELSE Step(h[i - 1], i)]
           upTo == CHOOSE h : h = Body(h)
<1>0. IsGraph(g)
  BY DEF Straight
<1>1. N \in Nat /\ start \in X
  BY <1>0 DEF IsGraph, PassStates, Voting
<1>2. IsStep(F, N, X)
  <2>1. ASSUME NEW e \in X, NEW i \in 1 .. N PROVE Step(e, i) \in X
    <3>1. CASE i \in Ready(run.dag) /\ ~e.done
      <4>1. i \in Nodes(g) /\ outcome[i] \in Outcomes(g, i)
        BY <3>1 DEF Nodes
      <4>2. DispatchNode(g, e, i, outcome[i]).run \in Voting(g, K)
        BY <2>1, <4>1, DispatchVotes
      <4>3. DispatchNode(g, e, i, outcome[i]) \in PassStates(g, K)
        BY <1>0, <2>1, <4>1, DispatchNodeSound
      <4> QED BY <3>1, <4>2, <4>3
    <3>2. CASE ~(i \in Ready(run.dag) /\ ~e.done)
      BY <2>1, <3>2
    <3> QED BY <3>1, <3>2
  <2> QED BY <2>1 DEF IsStep
<1>3. DispatchPass(g, outcome) = upTo[N]
  BY DEF DispatchPass, ForEach
<1> HIDE DEF Step, X, N, start
<1>4. ASSUME NEW f, IsIteration(f, F, N, X, start) PROVE Follows(upTo, F, N, X)
  <2>1. f = Body(f)
    <3> HIDE DEF F
    <3>1. \A i \in 1 .. N : F[i][f[i - 1]] = Step(f[i - 1], i)
      BY <1>1, <1>4, IterationUnfolds DEF F
    <3> QED BY <1>1, <1>4, <3>1, IterationUnfolds
  <2>2. upTo = Body(upTo)
    <3> HIDE DEF Body
    <3> QED BY <2>1
  <2> HIDE DEF upTo
  <2> QED BY <1>1, <2>2 DEF Follows
<1> HIDE DEF F, upTo
<1>5. upTo[N] \in X
  BY <1>1, <1>2, <1>4, Recursion
<1> QED BY <1>3, <1>5 DEF X

(* A cancelled run and one that expired have not succeeded.                *)
LEMMA StoppedVotes ==
    ASSUME NEW g, NEW K, NEW r \in Voting(g, K)
    PROVE  /\ r.status \in {"active", "waiting"} => CancelRun(r) \in Voting(g, K)
           /\ r.status = "waiting" => ExpireRun(r) \in Voting(g, K)
<1>1. r \in Sound(g, K) /\ r \in Runs(g, K) /\ Spoken(g, r)
  BY DEF Voting, Sound
<1>2. /\ CancelRun(r).status = "cancelled" /\ CancelRun(r).history = r.history
      /\ ExpireRun(r).status = "failed" /\ ExpireRun(r).history = r.history
  BY <1>1 DEF CancelRun, ExpireRun, Runs
<1>3. r.status \in {"active", "waiting"} => CancelRun(r) \in Sound(g, K)
  BY <1>1, CancelSound
<1>4. ASSUME r.status = "waiting" PROVE ExpireRun(r) \in Sound(g, K)
  <2>1. ASSUME NEW s \in {"COMPLETED", "FAILED"}, NEW t \in {"completed", "failed"}
        PROVE  [r EXCEPT !.status = t,
                         !.dag = SetState(@, In(r, {"WAITING_FOR_COMMAND"}), s)] \in Sound(g, K)
    BY <1>1, <1>4, <2>1, WaitingEnds, Zenon
  <2> QED BY <2>1 DEF ExpireRun
<1> QED BY <1>1, <1>2, <1>3, <1>4 DEF Voting, Standing, Spoken

(* A round takes in every gateway behind what it opens.                    *)
LEMMA RoundNodesClosed ==
    ASSUME NEW g, IsGraph(g), NEW r, NEW S \in SUBSET Nodes(g)
    PROVE  /\ RoundNodes(g, r, S) \in SUBSET Nodes(g)
           /\ \A n \in Nodes(g) :
                 /\ Gateway(g, n)
                 /\ Predecessors(g, n) \cap (RoundNodes(g, r, S) \ In(r, {"WAITING_FOR_COMMAND"})) # {}
                 => n \in RoundNodes(g, r, S)
<1> DEFINE waits == In(r, {"WAITING_FOR_COMMAND"})
           F == [T \in SUBSET Nodes(g) |-> RoundStep(g, waits, T)]
<1>1. PICK f : /\ RoundNodes(g, r, S) = f[g.size] /\ f[0] = S
               /\ \A i \in 1 .. g.size : f[i] = RoundStep(g, waits, f[i - 1])
  BY RoundNodesIterate
<1>2. /\ F \in [SUBSET Nodes(g) -> SUBSET Nodes(g)]
      /\ \A T \in SUBSET Nodes(g) : T \subseteq F[T] /\ F[T] = RoundStep(g, waits, T)
  BY DEF RoundStep
<1> HIDE DEF F, waits
<1>3. \A i \in 1 .. g.size : f[i - 1] \in SUBSET Nodes(g) => f[i] = F[f[i - 1]]
  BY <1>1, <1>2
<1>4. f[g.size] \in SUBSET Nodes(g) /\ F[f[g.size]] = f[g.size]
  BY <1>1, <1>2, <1>3, GrowthEnds
<1>5. RoundStep(g, waits, f[g.size]) = f[g.size]
  BY <1>2, <1>4
<1> QED BY <1>1, <1>4, <1>5 DEF RoundStep, waits

(* Nothing is iterated where there is no loop gateway.                     *)
LEMMA LooplessStraight ==
    ASSUME NEW g, IsGraph(g), Loopless(g)
    PROVE  Straight(g)
<1>1. LoopSources(g) = {} /\ \A n \in Nodes(g) : ~LoopGateway(g, n)
  BY DEF Loopless
<1>2. \A r \in g.routes : LoopGateway(g, r.from) \/ r.from \in {} => r.to \in {}
  BY <1>1 DEF IsGraph
<1>3. Iterated(g) = {}
  <2>1. {} \in SUBSET Nodes(g)
    OBVIOUS
  <2>2. \A n \in Iterated(g) : n \in {}
    BY <1>2, <2>1, Zenon DEF Iterated
  <2> QED BY <2>2
<1> QED BY <1>1, <1>3 DEF Straight

(* The round that is opened has yet to hear the votes it asks for, and has *)
(* heard the others.                                                       *)
LEMMA ResumeVotes ==
    ASSUME NEW S \in SUBSET Nodes(graph), Straight(graph), NEW K, run \in Voting(graph, K),
           S # {}, Resume(S)
    PROVE  run' \in Voting(graph, {run.round + 1})
<1> DEFINE waits == In(run, {"WAITING_FOR_COMMAND"})
           nodes == RoundNodes(graph, run, S)
           carried == [n \in Nodes(graph) |-> Carried(graph, run, nodes, n)]
           d == ResetForRound(graph, run.dag, nodes, carried)
<1>1. /\ IsGraph(graph) /\ run \in Sound(graph, K)
      /\ run.status = "waiting" /\ run \in Runs(graph, K) /\ Spoken(graph, run)
      /\ \A n \in S : ~Gateway(graph, n) /\ Reaches(graph, run, n)
      /\ run.dag \in AnyEngines(graph) /\ DOMAIN run.dag.state = Nodes(graph)
      /\ VotesHeard(graph, run.dag) /\ WaitsAtAwait(graph, run) /\ WaitingQuiet(graph, run)
  BY DEF Resume, Voting, Standing, Sound, Runs, AnyEngines, Straight
<1>2. run' \in ActiveRuns(graph, {run.round + 1})
  BY <1>1, ResumeSound
<1>3. run'.dag = d /\ run'.history = run.history
  <2> HIDE DEF d
  <2>1. run' = [run EXCEPT !.status = "active", !.round = @ + 1,
                           !.counters = InitialCounters(graph), !.seeded = @ \cup S,
                           !.commands = S, !.dag = d]
    BY DEF Resume, d
  <2> QED BY <1>1, <2>1 DEF Runs
<1>4. carried \in Mailboxes(graph)
  BY <1>1 DEF Carried, Mailboxes, RouteSources, IsGraph, RoutesTo
<1>5. \A n \in Nodes(graph) : \A m \in carried[n] : ~Await(graph, m)
  BY <1>1 DEF Carried, Spoken
<1> HIDE DEF carried
<1>6. \A n \in Nodes(graph) : run.dag.state[n] = "WAITING_FOR_COMMAND" => n \in nodes
  BY <1>1, RoundTakesWaiting
<1>7. \A n \in Nodes(graph) : n \in nodes \/ run.dag.state[n] \in Settled
  BY <1>1, <1>6 DEF WaitingQuiet, Quiescent
<1>8. \A n \in Joins(graph) : \A m \in graph.after[n] \cap nodes : Await(graph, m) \/ n \in nodes
  <2> SUFFICES ASSUME NEW n \in Joins(graph), NEW m \in graph.after[n] \cap nodes,
                      ~Await(graph, m)
               PROVE  n \in nodes
    OBVIOUS
  <2>1. n \in Nodes(graph) /\ Gateway(graph, n) /\ graph.after[n] \subseteq Nodes(graph)
    BY <1>1 DEF Joins, Gateway, IsGraph
  <2>2. m \notin waits
    BY <1>1, <2>1 DEF In, WaitsAtAwait, Await
  <2>3. m \in Predecessors(graph, n) \cap (nodes \ waits)
    BY <2>2 DEF Predecessors
  <2> HIDE DEF waits, nodes
  <2> QED BY <1>1, <2>1, <2>3, RoundNodesClosed DEF waits, nodes
<1> HIDE DEF nodes
<1>9. d \in Voted(graph)
  BY <1>1, <1>4, <1>5, <1>7, <1>8, VotedReset
<1> HIDE DEF d
<1> QED BY <1>1, <1>2, <1>3, <1>9, ActiveVoting DEF Spoken

(* Until the Manager restarts the votes are heard.                         *)
VotesKept ==
    restarts = 0 /\ Loopless(graph) => run \in Voting(graph, {run.round})

LEMMA VotesInit == Init => VotesKept
<1> SUFFICES ASSUME Init, Loopless(graph) PROVE run \in Voting(graph, {run.round})
  BY DEF VotesKept
<1>1. IsGraph(graph) /\ run \in ActiveRuns(graph, {1})
  BY InitSound
<1>2. run.dag = NewEngine(graph) /\ run.history = {} /\ run.round = 1
  BY DEF Init, NewRun
<1>3. run.dag \in Voted(graph)
  BY <1>1, <1>2, NewEngineVoted DEF Loopless
<1> QED BY <1>1, <1>2, <1>3, ActiveVoting DEF Spoken

LEMMA VotesStep ==
    ASSUME TypedState, PassesOfActive, OrderKept, VotesKept, [Next]_vars, restarts' = 0,
           Loopless(graph)
    PROVE  graph' = graph /\ run' \in Voting(graph, {run'.round})
<1> DEFINE k == run.round
           Here == Voting(graph, {k})
           Goal == run' \in Voting(graph, {run'.round})
<1>1. /\ graph' = graph /\ IsGraph(graph) /\ Straight(graph)
      /\ run \in Sound(graph, {k}) /\ k \in 1 .. MaxRounds /\ {k} \in SUBSET (1 .. MaxRounds)
      /\ provisioning \in SUBSET Agents(graph) /\ deferred \in SUBSET Agents(graph)
      /\ executing \in SUBSET Prompts(graph)
      /\ \A n \in Agents(graph) : n \in Nodes(graph) /\ ~Await(graph, n)
  <2>1. k \in Rounds /\ run \in Sound(graph, {k})
    BY RoundsOfSound DEF TypedState
  <2>2. IsGraph(graph)
    BY GraphsAssumption DEF TypedState
  <2>3. \A n \in Agents(graph) : n \in Nodes(graph) /\ ~Await(graph, n)
    BY DEF Agents, Gateway, Await
  <2> QED BY <2>1, <2>2, <2>3, TypedStep, LooplessStraight DEF TypedState, Rounds
<1>2. restarts = 0 /\ ~(\E r : Restart(r))
  BY NoRestart
<1>3. run \in Here
  BY <1>2 DEF VotesKept
<1> SUFFICES Goal
  BY <1>1
<1>4. ASSUME run' \in Here PROVE Goal
  <2>1. run'.round = k
    BY <1>4 DEF Voting, Sound, Runs
  <2> QED BY <1>4, <2>1
<1> HIDE DEF Goal
<1>5. ASSUME NEW n \in Agents(graph), run' = FailActiveRun(graph, run, n) PROVE Goal
  BY <1>1, <1>3, <1>4, <1>5, FailureVotes
<1>6. CASE DispatchReadyNodes
  <2>1. PICK outcome :
           /\ \A m \in Ready(run.dag) : outcome[m] \in Outcomes(graph, m)
           /\ \E pass \in {DispatchPass(graph, outcome)} : run' = pass.run
    BY <1>6, Zenon DEF DispatchReadyNodes
  <2>2. DispatchPass(graph, outcome).run \in Here
    BY <1>1, <1>3, <2>1, DispatchPassVotes
  <2>3. run' = DispatchPass(graph, outcome).run
    BY <2>1
  <2> HIDE DEF Here
  <2> QED BY <1>4, <2>2, <2>3
<1>7. ASSUME NEW n \in provisioning, Provisioned(n) \/ ProvisioningFails(n) PROVE Goal
  <2>1. n \in Agents(graph) /\ n \in Nodes(graph)
    BY <1>1
  <2>2. \/ run' = run \/ run' = FailActiveRun(graph, run, n)
        \/ Active(run) /\ run.dag.state[n] = "READY" /\ run' = Send(run, n)
    BY <1>7 DEF Provisioned, ProvisioningFails
  <2>3. Active(run) /\ run.dag.state[n] = "READY" => Send(run, n) \in Here
    BY <1>1, <1>3, <2>1, SendVotes
  <2> QED BY <1>3, <1>4, <1>5, <2>1, <2>2, <2>3
<1>8. CASE RetryDeferred \/ FirstWorkerRegisters \/ UNCHANGED vars
  BY <1>3, <1>4, <1>8 DEF RetryDeferred, FirstWorkerRegisters, vars
<1>9. ASSUME NEW n \in Nodes(graph), WorkerLost(n) PROVE Goal
  <2>1. run' = FailActiveRun(graph, run, n) /\ Active(run) /\ run.dag.state[n] = "RUNNING"
    BY <1>9 DEF WorkerLost
  <2> QED BY <1>5, <1>9, <2>1 DEF WorkerLost, Agents
(* Nothing comes back to a node that has not been sent what it answers.    *)
<1>10. ASSUME NEW e \in executing, NEW port \in {"done", FailurePort, "rejected"},
              NEW contract, Answer(e, port, contract)
       PROVE  Goal
  <2>1. CASE ~Current(run, e)
    BY <1>3, <1>4, <1>10, <2>1 DEF Answer
  <2>2. CASE Current(run, e)
    <3> DEFINE f == e.node
               c == [Rest(graph, run, executing) EXCEPT !.busy = @ \ {f}]
    <3>1. /\ Active(run) /\ e.round = k /\ (k > 1 => f \in run.commands)
          /\ run' = Applied(graph, run, f, port, contract) /\ f \in Agents(graph)
      BY <1>1, <1>10, <2>2 DEF Answer, Current, Prompts
    <3>2. k = 1 \/ f \in run.commands
      BY <1>1, <3>1, BoundsAssumption
    <3>3. f \in PromptedIn(executing, k)
      BY <3>1 DEF PromptedIn
    <3>4. Steady(graph, run, executing, {})
      BY <1>2 DEF OrderKept, Steady
    <3>5. Asked(graph, c, run.dag, f)
      BY <1>1, <3>1, <3>2, <3>3, <3>4, AnsweredAsked
    <3>6. run.dag.loops = {} /\ Iterated(graph) = {}
      BY <1>1, <1>3, <3>1, ActiveVoting DEF Voted, VotesHeard, Straight
    <3>7. run.dag.state[f] = "RUNNING"
      BY <3>5, <3>6 DEF Asked
    <3> HIDE DEF f, c, k
    <3>8. Applied(graph, run, f, port, contract) \in Here
      BY <1>1, <1>3, <3>1, <3>7, AppliedVotes
    <3> QED BY <1>4, <3>1, <3>8
  <2> QED BY <2>1, <2>2
<1>11. CASE Cancel
  <2>1. CancelRun(run) \in Here
    BY <1>3, <1>11, StoppedVotes DEF Cancel
  <2> QED BY <1>4, <1>11, <2>1 DEF Cancel
<1>12. CASE Expire
  <2>1. ExpireRun(run) \in Here
    BY <1>3, <1>12, StoppedVotes DEF Expire
  <2> QED BY <1>4, <1>12, <2>1 DEF Expire
<1>13. CASE Complete
  <2>1. run.status = "waiting" /\ run' = CompleteRun(run) /\ Standing(run)
    BY <1>13 DEF Complete, Standing
  <2> DEFINE K == {k}
  <2>2. run \in Sound(graph, K)
    BY <1>1
  <2> HIDE DEF K
  <2>3. ASSUME NEW s \in {"COMPLETED", "FAILED"}, NEW t \in {"completed", "failed"}
        PROVE  [run EXCEPT !.status = t,
                           !.dag = SetState(@, In(run, {"WAITING_FOR_COMMAND"}), s)]
                  \in Sound(graph, K)
    BY <2>1, <2>2, <2>3, WaitingEnds, Zenon
  <2>4. CompleteRun(run) \in Sound(graph, K)
    BY <2>3 DEF CompleteRun
  <2>5. CompleteRun(run) \in Here
    BY <1>1, <1>3, <2>1, <2>4, CompleteVotes DEF K
  <2> QED BY <1>4, <2>1, <2>5
<1>14. ASSUME NEW S \in SUBSET Nodes(graph), S # {}, Resume(S) PROVE Goal
  <2>1. run' \in Voting(graph, {k + 1})
    BY <1>1, <1>3, <1>14, ResumeVotes
  <2>2. run'.round = k + 1
    BY <2>1 DEF Voting, Sound, Runs
  <2> QED BY <2>1, <2>2 DEF Goal
<1>15. ~Crash /\ \A e, port : ~CrashAfterHandoff(e, port)
  BY <1>2 DEF Crash, CrashAfterHandoff
<1> HIDE DEF Here, k
<1> QED BY <1>6, <1>7, <1>8, <1>9, <1>10, <1>11, <1>12, <1>13, <1>14, <1>15 DEF Next

LEMMA VotesAlways == Spec => []VotesKept
<1>1. VotesKept /\ TypedState /\ PassesOfActive /\ OrderKept /\ [Next]_vars => VotesKept'
  <2> SUFFICES ASSUME VotesKept, TypedState, PassesOfActive, OrderKept, [Next]_vars,
                      restarts' = 0, Loopless(graph')
               PROVE  run' \in Voting(graph', {run'.round})
    BY DEF VotesKept
  <2>1. graph' = graph
    BY TypedStep
  <2> QED BY <2>1, VotesStep
<1>2. Spec => []PassesOfActive
  BY PassesInit, PassesStep, PTL DEF Spec
<1> QED BY <1>1, <1>2, VotesInit, OrderAlways, TypedAlways, PTL DEF Spec

(* A vote is heard: no join of any of its inputs is skipped once a node    *)
(* that succeeded has voted for it, in whatever order answers, failures,   *)
(* corrections, lost Workers, decisions and rounds come, for every graph   *)
(* without loops, all limits and any number of rounds, until the Manager   *)
(* restarts.                                                               *)
THEOREM VotesAreHeard == Spec => []SuccessVotes
<1>1. ASSUME TypedState, VotesKept PROVE SuccessVotes
  <2> SUFFICES ASSUME NEW n \in Nodes(graph), run.status \in {"active", "waiting", "completed"},
                      graph.kind[n] = "join_any", run.dag.state[n] = "SKIPPED",
                      NEW m \in graph.after[n] \cap run.dag.input[n],
                      run.dag.state[m] = "COMPLETED", ~(restarts > 0), Loopless(graph)
               PROVE  FALSE
    BY DEF SuccessVotes
  <2>1. restarts = 0
    BY <1>1, BoundsAssumption DEF TypedState
  <2>2. VotesHeard(graph, run.dag)
    BY <1>1, <2>1 DEF VotesKept, Voting, Standing
  <2>3. n \in Joins(graph)
    BY DEF Joins
  <2>4. Heard(graph, run.dag, n) /\ ~Await(graph, m)
    BY <2>2, <2>3 DEF VotesHeard
  <2> QED BY <2>4 DEF Heard
<1>2. TypedState /\ VotesKept => SuccessVotes
  BY <1>1
<1> QED BY <1>2, TypedAlways, VotesAlways, PTL
----------------------------------------------------------------------------
(* The limit on parallelism *)

Front(k, Q, W) == [first |-> k = 1, ready |-> Q, running |-> W]

(* Runs in round k of a graph without loops in which, as long as they are  *)
(* active, the nodes of Q are ready and no others than those of W run.     *)
Crewed(g, k, Q, W) ==
    {r \in Sound(g, {k}) : /\ r.dag.loops = {}
                           /\ r.status = "waiting" => Q = {}
                           /\ Active(r) => r.dag \in Leading(g, Front(k, Q, W))}

LEMMA ActiveCrewed ==
    ASSUME NEW g, NEW k, NEW Q, NEW W
    PROVE  /\ \A r \in ActiveRuns(g, {k}) :
                 r.dag \in Leading(g, Front(k, Q, W)) => r \in Crewed(g, k, Q, W)
           /\ \A r \in Crewed(g, k, Q, W) :
                 Active(r) => /\ r \in ActiveRuns(g, {k}) /\ r \in Runs(g, {k})
                              /\ r.dag \in Leading(g, Front(k, Q, W))
                              /\ DOMAIN r.dag.state = Nodes(g)
                              /\ \A n \in Q \cap Nodes(g) : r.dag.state[n] = "READY"
                              /\ \A n \in Nodes(g) : r.dag.state[n] = "RUNNING" => n \in W
<1>1. \A r \in ActiveRuns(g, {k}) : /\ r \in Sound(g, {k}) /\ r \in Runs(g, {k})
                                    /\ r.status = "active" /\ DOMAIN r.dag.state = Nodes(g)
  BY ActiveIsSound, ActiveFields
<1>2. ASSUME NEW r \in Crewed(g, k, Q, W), Active(r)
      PROVE  /\ r \in ActiveRuns(g, {k}) /\ r.dag \in Leading(g, Front(k, Q, W))
  BY <1>2, ActiveIsSound DEF Crewed
<1>3. \A d \in Leading(g, Front(k, Q, W)) :
         /\ d.loops = {}
         /\ \A n \in Q \cap Nodes(g) : d.state[n] = "READY"
         /\ \A n \in Nodes(g) : d.state[n] = "RUNNING" => n \in W
  BY DEF Leading, Leads, Front
<1> QED BY <1>1, <1>2, <1>3 DEF Crewed

(* Fewer nodes to keep ready; and the nodes that run are those that run.   *)
LEMMA CrewedLess ==
    ASSUME NEW g, NEW k, NEW Q, NEW W, NEW r \in Crewed(g, k, Q, W), NEW P \in SUBSET Q, NEW V,
           Active(r) => \A n \in Nodes(g) : r.dag.state[n] = "RUNNING" => n \in V
    PROVE  r \in Crewed(g, k, P, V)
<1>1. ASSUME Active(r) PROVE r.dag \in Leading(g, Front(k, P, V))
  <2>1. r.dag \in Leading(g, Front(k, Q, W))
    BY <1>1 DEF Crewed
  <2>2. /\ Front(k, P, V).first = Front(k, Q, W).first
        /\ Front(k, P, V).ready \subseteq Front(k, Q, W).ready
        /\ \A n \in Nodes(g) : r.dag.state[n] = "RUNNING" => n \in Front(k, P, V).running
    BY <1>1 DEF Front
  <2> QED BY <2>1, <2>2, LeadingLess
<1>2. r.status = "waiting" => P = {}
  BY DEF Crewed
<1> QED BY <1>1, <1>2 DEF Crewed

(* What ends a run or skips what is left of it touches no loop.            *)
LEMMA EndingLoops ==
    ASSUME NEW g, NEW K, NEW r \in Runs(g, K)
    PROVE  /\ \A S : Active(r) => Abort(r, S).dag.loops = r.dag.loops
                                  /\ Abort(r, S).status = "failed"
           /\ CompleteRun(r).dag.loops = r.dag.loops /\ CompleteRun(r).status = "completed"
           /\ ExpireRun(r).dag.loops = r.dag.loops /\ ExpireRun(r).status = "failed"
           /\ CancelRun(r).dag.loops = r.dag.loops /\ CancelRun(r).status = "cancelled"
           /\ SkipStalled(r).dag.loops = r.dag.loops
           /\ [r EXCEPT !.status = "failed"].dag.loops = r.dag.loops
           /\ [r EXCEPT !.status = "failed"].status = "failed"
<1>1. r.dag \in AnyEngines(g)
  BY DEF Runs
<1>2. \A d \in AnyEngines(g) : \A S, s : SetState(d, S, s).loops = d.loops
  BY DEF SetState, AnyEngines
<1>3. \A d \in AnyEngines(g) : \A S : \A s \in NodeStates : SetState(d, S, s) \in AnyEngines(g)
  BY SetStateIs
<1>4. {"FAILED", "CANCELLED", "SKIPPED", "COMPLETED"} \subseteq NodeStates
  BY DEF NodeStates
<1>5. \A s, d : /\ [r EXCEPT !.status = s, !.dag = d].dag = d
                /\ [r EXCEPT !.status = s, !.dag = d].status = s
                /\ [r EXCEPT !.dag = d].dag = d
                /\ [r EXCEPT !.status = s].dag = r.dag
                /\ [r EXCEPT !.status = s].status = s
  BY DEF Runs
<1>6. ASSUME NEW S, Active(r)
      PROVE  Abort(r, S).dag.loops = r.dag.loops /\ Abort(r, S).status = "failed"
  <2> DEFINE failed == SetState(r.dag, S, "FAILED")
             live   == In(r, {"READY", "RUNNING"}) \ S
             cancelled == SetState(failed, live, "CANCELLED")
             d == SetState(cancelled, In(r, {"PENDING"}) \ S, "SKIPPED")
  <2>1. failed \in AnyEngines(g) /\ failed.loops = r.dag.loops
    BY <1>1, <1>2, <1>3, <1>4
  <2> HIDE DEF failed
  <2>2. cancelled \in AnyEngines(g) /\ cancelled.loops = r.dag.loops
    BY <1>2, <1>3, <1>4, <2>1
  <2> HIDE DEF cancelled
  <2>3. d.loops = r.dag.loops
    BY <1>2, <2>2
  <2> HIDE DEF d
  <2>4. Abort(r, S) = [r EXCEPT !.status = "failed", !.dag = d]
    BY <1>6 DEF Abort, d, cancelled, failed
  <2> QED BY <1>5, <2>3, <2>4
<1>7. CancelRun(r).dag.loops = r.dag.loops /\ CancelRun(r).status = "cancelled"
  <2> DEFINE cancelled == SetState(r.dag, In(r, {"READY", "RUNNING", "WAITING_FOR_COMMAND"}),
                                   "CANCELLED")
             d == SetState(cancelled, In(r, {"PENDING"}), "SKIPPED")
  <2>1. cancelled \in AnyEngines(g) /\ cancelled.loops = r.dag.loops
    BY <1>1, <1>2, <1>3, <1>4
  <2> HIDE DEF cancelled
  <2>2. d.loops = r.dag.loops
    BY <1>2, <2>1
  <2> HIDE DEF d
  <2>3. CancelRun(r) = [r EXCEPT !.status = "cancelled", !.dag = d]
    BY DEF CancelRun, d, cancelled
  <2> QED BY <1>5, <2>2, <2>3
<1>8. /\ CompleteRun(r).dag.loops = r.dag.loops /\ CompleteRun(r).status = "completed"
      /\ ExpireRun(r).dag.loops = r.dag.loops /\ ExpireRun(r).status = "failed"
      /\ SkipStalled(r).dag.loops = r.dag.loops
  BY <1>1, <1>2, <1>5 DEF CompleteRun, ExpireRun, SkipStalled
<1> QED BY <1>5, <1>6, <1>7, <1>8

LEMMA EndedCrewed ==
    ASSUME NEW g, NEW k, NEW r \in Sound(g, {k}), r.dag.loops = {}, Ended(r)
    PROVE  \A Q, W : r \in Crewed(g, k, Q, W)
BY StatusesDiffer DEF Crewed

LEMMA EndingCrewed ==
    ASSUME NEW g, NEW k, NEW r \in ActiveRuns(g, {k}), r.dag.loops = {}, NEW Q, NEW W
    PROVE  /\ \A S : Abort(r, S) \in Crewed(g, k, Q, W)
           /\ IsRunTerminal(r.dag) => /\ [r EXCEPT !.status = "failed"] \in Crewed(g, k, Q, W)
                                      /\ CompleteRun(r) \in Crewed(g, k, Q, W)
<1> DEFINE K == {k}
<1>1. r \in ActiveRuns(g, K) /\ r \in Sound(g, K) /\ r \in Runs(g, K) /\ Active(r)
  BY ActiveIsSound, ActiveFields
<1>2. /\ \A S : Abort(r, S) \in Sound(g, K)
      /\ IsRunTerminal(r.dag) => /\ [r EXCEPT !.status = "failed"] \in Sound(g, K)
                                 /\ CompleteRun(r) \in Sound(g, K)
  <2> HIDE DEF K
  <2> QED BY <1>1, AbortSound, TerminalFails, CompleteSound
<1>3. /\ \A S : Abort(r, S).dag.loops = {} /\ Abort(r, S).status = "failed"
      /\ CompleteRun(r).dag.loops = {} /\ CompleteRun(r).status = "completed"
      /\ [r EXCEPT !.status = "failed"].dag.loops = {}
      /\ [r EXCEPT !.status = "failed"].status = "failed"
  BY <1>1, EndingLoops
<1> QED BY <1>2, <1>3, EndedCrewed DEF Ended

(* A cancelled, completed or expired run.                                  *)
LEMMA StoppedCrewed ==
    ASSUME NEW g, NEW k, NEW Q, NEW W, NEW r \in Crewed(g, k, Q, W)
    PROVE  /\ r.status \in {"active", "waiting"} => CancelRun(r) \in Crewed(g, k, Q, W)
           /\ r.status = "waiting" => /\ CompleteRun(r) \in Crewed(g, k, Q, W)
                                      /\ ExpireRun(r) \in Crewed(g, k, Q, W)
<1> DEFINE K == {k}
<1>1. r \in Sound(g, K) /\ r \in Runs(g, K) /\ r.dag.loops = {}
  BY DEF Crewed, Sound
<1>2. r.status \in {"active", "waiting"} => CancelRun(r) \in Sound(g, K)
  <2> HIDE DEF K
  <2> QED BY <1>1, CancelSound
<1>3. ASSUME r.status = "waiting" PROVE CompleteRun(r) \in Sound(g, K) /\ ExpireRun(r) \in Sound(g, K)
  <2> HIDE DEF K
  <2>1. ASSUME NEW s \in {"COMPLETED", "FAILED"}, NEW t \in {"completed", "failed"}
        PROVE  [r EXCEPT !.status = t,
                         !.dag = SetState(@, In(r, {"WAITING_FOR_COMMAND"}), s)] \in Sound(g, K)
    BY <1>1, <1>3, <2>1, WaitingEnds, Zenon
  <2> QED BY <2>1 DEF CompleteRun, ExpireRun
<1>4. /\ CompleteRun(r).dag.loops = {} /\ CompleteRun(r).status = "completed"
      /\ ExpireRun(r).dag.loops = {} /\ ExpireRun(r).status = "failed"
      /\ CancelRun(r).dag.loops = {} /\ CancelRun(r).status = "cancelled"
  BY <1>1, EndingLoops
<1> QED BY <1>2, <1>3, <1>4, EndedCrewed DEF Ended

LEMMA FailureCrewed ==
    ASSUME NEW g, Straight(g), Routed(g), NEW k, NEW Q, NEW W, NEW r \in Crewed(g, k, Q, W),
           NEW f \in Nodes(g) \ Q, Active(r) => r.dag.state[f] \notin Settled
    PROVE  FailActiveRun(g, r, f) \in Crewed(g, k, Q, W)
<1> DEFINE d == FailNode(g, r.dag, f)
           q == [r EXCEPT !.dag = d]
           p == SkipStalled(q)
<1>1. CASE ~Active(r)
  BY <1>1 DEF FailActiveRun
<1>2. CASE Active(r)
  <2>1. /\ r \in ActiveRuns(g, {k}) /\ r \in Runs(g, {k})
        /\ r.dag \in Leading(g, Front(k, Q, W)) /\ IsGraph(g) /\ Iterated(g) = {}
        /\ f \notin Front(k, Q, W).ready /\ f \in Nodes(g)
    BY <1>2, ActiveCrewed DEF Straight, Front
  <2>2. d \in Leading(g, Front(k, Q, W))
    BY <1>2, <2>1, FailNodeLeading
  <2>3. d \in Engines(g) /\ d.loops = {}
    BY <2>2 DEF Leading
  <2> HIDE DEF d
  <2>4. q \in ActiveRuns(g, {k}) /\ q.dag = d
    BY <2>1, <2>3, DagReplaced DEF Runs
  <2> HIDE DEF q
  <2>5. q \in Runs(g, {k}) /\ p \in ActiveRuns(g, {k}) /\ (p = q \/ IsRunTerminal(p.dag))
    BY <2>4, ActiveFields, SkipStalledActive, SkipStalledEnds
  <2>6. p.dag.loops = {}
    BY <2>3, <2>4, <2>5, EndingLoops
  <2>7. p = q => p \in Crewed(g, k, Q, W)
    BY <2>2, <2>4, ActiveCrewed
  <2> HIDE DEF p
  <2>8. AfterFailure(g, p, f) \in Crewed(g, k, Q, W)
    BY <2>5, <2>6, <2>7, EndingCrewed DEF AfterFailure
  <2> QED BY <1>2, <2>8 DEF FailActiveRun, p, q, d
<1> QED BY <1>1, <1>2

LEMMA HandoffCrewed ==
    ASSUME NEW g, Straight(g), Routed(g), NEW k, NEW Q, NEW W, NEW r \in Crewed(g, k, Q, W),
           Active(r), NEW f \in Nodes(g) \ Q, r.dag.state[f] \notin Settled, NEW port \in Ports
    PROVE  HandoffActiveRun(g, r, f, port) \in Crewed(g, k, Q, W)
<1> DEFINE q == CommitHandoff(g, r, f, port)
<1>1. /\ r \in ActiveRuns(g, {k}) /\ r \in Runs(g, {k}) /\ r.dag.loops = {}
      /\ r.dag \in Leading(g, Front(k, Q, W)) /\ IsGraph(g) /\ Iterated(g) = {}
      /\ f \notin Front(k, Q, W).ready /\ f \in Nodes(g)
  BY ActiveCrewed DEF Straight, Front, Crewed
<1>2. Handoff(g, r.dag, f, port) \in Leading(g, Front(k, Q, W))
  BY <1>1, HandoffLeading
<1>3. q \in ActiveRuns(g, {k})
  BY <1>1, CommitHandoffActive
<1>4. q.dag = Handoff(g, r.dag, f, port)
  BY <1>1 DEF CommitHandoff, Runs
<1>5. q.dag.loops = {}
  BY <1>2, <1>4 DEF Leading
<1> HIDE DEF q
<1>6. q \in Crewed(g, k, Q, W)
  BY <1>2, <1>3, <1>4, ActiveCrewed
<1>7. AfterHandoff(g, q, f, port) \in Crewed(g, k, Q, W)
  BY <1>3, <1>5, <1>6, EndingCrewed DEF AfterHandoff
<1> QED BY <1>1, <1>7, EndingCrewed DEF HandoffActiveRun, q

LEMMA CorrectCrewed ==
    ASSUME NEW g, Straight(g), Routed(g), NEW k, k = 1, NEW Q, NEW W,
           NEW r \in Crewed(g, k, Q, W), Active(r), NEW f \in Nodes(g),
           r.dag.state[f] = "RUNNING", r.counters.corrections[f] < MaxCorrections
    PROVE  Correct(g, r, f) \in Crewed(g, k, Q, W)
<1> DEFINE o == ReopenSkipped(g, r.dag, f)
           d == [o EXCEPT !.state[f] = "READY", !.handed = @ \ {f}]
<1>1. /\ r \in ActiveRuns(g, {k}) /\ r \in Runs(g, {k})
      /\ r.dag \in Leading(g, Front(k, Q, W)) /\ IsGraph(g) /\ Front(k, Q, W).first
  BY ActiveCrewed DEF Straight, Front
<1>2. Correct(g, r, f).dag = d
  BY <1>1 DEF Correct, Runs
<1>3. o = ReopenSkipped(g, r.dag, f)
  OBVIOUS
<1> HIDE DEF o
<1>4. d \in Leading(g, Front(k, Q, W))
  BY <1>1, <1>3, LeadingCorrected, Zenon
<1>5. Correct(g, r, f) \in ActiveRuns(g, {k})
  BY <1>1, CorrectActive
<1> HIDE DEF d
<1> QED BY <1>2, <1>4, <1>5, ActiveCrewed

LEMMA AppliedCrewed ==
    ASSUME NEW g, Straight(g), Routed(g), NEW k, k = 1 \/ MaxCorrections = 0, NEW Q, NEW W,
           NEW r \in Crewed(g, k, Q, W), Active(r), NEW f \in Agents(g),
           r.dag.state[f] = "RUNNING", NEW port \in {"done", FailurePort, "rejected"},
           NEW contract
    PROVE  Applied(g, r, f, port, contract) \in Crewed(g, k, Q, W)
<1>1. f \in Nodes(g) \ Q /\ r.dag.state[f] \notin Settled /\ r \in Runs(g, {k})
  BY ActiveCrewed DEF Agents, Settled
<1>2. FailActiveRun(g, r, f) \in Crewed(g, k, Q, W)
  BY <1>1, FailureCrewed
<1>3. \A t \in Ports : HandoffActiveRun(g, r, f, t) \in Crewed(g, k, Q, W)
  BY <1>1, HandoffCrewed
<1>4. r.counters.corrections[f] \in 0 .. MaxCorrections
  BY <1>1 DEF Runs, Counters
<1>5. r.counters.corrections[f] < MaxCorrections => k = 1
  BY <1>4
<1>6. r.counters.corrections[f] < MaxCorrections => Correct(g, r, f) \in Crewed(g, k, Q, W)
  BY <1>1, <1>5, CorrectCrewed
<1>7. TryCorrect(g, r, f, contract) \in Crewed(g, k, Q, W)
  BY <1>2, <1>3, <1>6 DEF TryCorrect, Ports
<1>8. port # "rejected" => port \in Ports
  BY DEF Ports
<1> QED BY <1>3, <1>7, <1>8 DEF Applied

(* A round closes only when nothing else is ready.                         *)
LEMMA GatewayCrewed ==
    ASSUME NEW g, Straight(g), Routed(g), NEW k, NEW Q \in SUBSET Nodes(g), NEW W,
           NEW r \in Crewed(g, k, Q, W), NEW f \in Nodes(g) \ Q, Gateway(g, f),
           Active(r) => r.dag.state[f] \notin Settled, NEW passed
    PROVE  ExecuteGateway(g, r, f, passed) \in Crewed(g, k, Q, W)
<1> DEFINE port == GatewayPort(g, r, f, passed)
           q == [r EXCEPT !.status = "waiting", !.dag.state[f] = "WAITING_FOR_COMMAND"]
<1>1. CASE ~Active(r)
  BY <1>1 DEF ExecuteGateway
<1>2. CASE Active(r) /\ g.kind[f] = "await"
  <2>1. /\ r \in ActiveRuns(g, {k}) /\ r \in Runs(g, {k}) /\ r.dag.loops = {}
        /\ DOMAIN r.dag.state = Nodes(g) /\ \A n \in Q : r.dag.state[n] = "READY"
    <3>1. r.dag.loops = {}
      BY DEF Crewed
    <3>2. Active(r)
      BY <1>2
    <3>3. r \in ActiveRuns(g, {k}) /\ r.dag \in Leading(g, Front(k, Q, W))
      BY <3>2, ActiveCrewed
    <3>4. r \in Runs(g, {k}) /\ DOMAIN r.dag.state = Nodes(g)
      BY <3>3, ActiveFields
    <3>5. ASSUME NEW n \in Q PROVE r.dag.state[n] = "READY"
      BY <3>3 DEF Leading, Leads, Front
    <3> QED BY <3>1, <3>3, <3>4, <3>5
  <2>2. CloseRound(r, f) \in Sound(g, {k})
    BY <1>2, <2>1, CloseRoundSound
  <2>3. q.dag.loops = {} /\ q.status = "waiting"
    BY <2>1 DEF Runs, AnyEngines
  <2>4. Quiescent(r, f) => Q = {}
    BY <2>1 DEF Quiescent, Settled
  <2>5. CloseRound(r, f) = (IF Quiescent(r, f) THEN q ELSE r)
    BY DEF CloseRound
  <2> HIDE DEF q
  <2>6. CloseRound(r, f) \in Crewed(g, k, Q, W)
    BY <2>2, <2>3, <2>4, <2>5 DEF Crewed, Active
  <2> QED BY <1>2, <2>6 DEF ExecuteGateway
<1>3. CASE Active(r) /\ g.kind[f] # "await"
  <2>1. CountIteration(g, r, f, port) = r
    BY DEF CountIteration, Straight
  <2>2. port \in Ports
    BY DEF GatewayPort, Ports, FailurePort
  <2>3. ExecuteGateway(g, r, f, passed) = LeaveGateway(g, r, f, port)
    BY <1>3, <2>1 DEF ExecuteGateway
  <2> HIDE DEF port
  <2> QED BY <1>3, <2>2, <2>3, HandoffCrewed DEF LeaveGateway
<1> QED BY <1>1, <1>2, <1>3

LEMMA SendCrewed ==
    ASSUME NEW g, Straight(g), NEW k, NEW Q, NEW W, NEW r \in Crewed(g, k, Q, W), Active(r),
           NEW f \in Nodes(g), r.dag.state[f] = "READY"
    PROVE  Send(r, f) \in Crewed(g, k, Q \ {f}, W \cup {f})
<1> DEFINE d == [r.dag EXCEPT !.state[f] = "RUNNING"]
           b == Front(k, Q, W)
           c == Front(k, Q \ {f}, W \cup {f})
<1>1. r \in ActiveRuns(g, {k}) /\ r \in Runs(g, {k}) /\ r.dag \in Leading(g, b) /\ IsGraph(g)
  BY ActiveCrewed DEF Straight
<1>2. c.first = b.first /\ c.ready = b.ready \ {f} /\ c.running = b.running \cup {f}
  BY DEF Front
<1> HIDE DEF b, c
<1>3. d \in Leading(g, c)
  BY <1>1, <1>2, LeadingSend
<1>4. Send(r, f) = [r EXCEPT !.dag = d]
  BY DEF Send
<1>5. d \in Engines(g)
  BY <1>3 DEF Leading
<1> HIDE DEF d
<1>6. [r EXCEPT !.dag = d] \in ActiveRuns(g, {k}) /\ [r EXCEPT !.dag = d].dag = d
  BY <1>1, <1>5, DagReplaced DEF Runs
<1>7. [r EXCEPT !.dag = d] \in Crewed(g, k, Q \ {f}, W \cup {f})
  <2> DEFINE s == [r EXCEPT !.dag = d]
  <2>1. s \in ActiveRuns(g, {k}) /\ s.dag \in Leading(g, Front(k, Q \ {f}, W \cup {f}))
    BY <1>3, <1>6 DEF c
  <2> HIDE DEF s
  <2>2. s \in Crewed(g, k, Q \ {f}, W \cup {f})
    BY <2>1, ActiveCrewed, Zenon
  <2> QED BY <2>2 DEF s
<1> QED BY <1>4, <1>7

(* What takes up a place: nothing new but X, when what gets a Worker is    *)
(* ready.                                                                  *)
LEMMA OccupiedLess ==
    ASSUME NEW g, NEW r, NEW s, NEW P, NEW R, NEW X,
           \A n \in Nodes(g) : s.dag.state[n] = "RUNNING" => r.dag.state[n] = "RUNNING" \/ n \in X,
           \A n \in R \ X : n \in P /\ (n \in Nodes(g) => r.dag.state[n] = "READY")
    PROVE  Occupied(g, s, R) \subseteq Occupied(g, r, P) \cup X
BY DEF Occupied

LEMMA PlacesTaken ==
    ASSUME NEW g, IsGraph(g), NEW A \in SUBSET Nodes(g), NEW B \in SUBSET Nodes(g), NEW n,
           Cardinality(A) <= MaxParallelism
    PROVE  /\ B \subseteq A => Cardinality(B) <= MaxParallelism
           /\ B \subseteq A \cup {n} /\ (n \in A \/ Cardinality(A) < MaxParallelism)
                 => Cardinality(B) <= MaxParallelism
<1>1. IsFiniteSet(A) /\ IsFiniteSet(A \cup {n}) /\ IsFiniteSet(B)
  <2>1. IsFiniteSet(Nodes(g))
    BY NodesFinite
  <2> QED BY <2>1, FS_Subset, FS_AddElement
<1>2. Cardinality(A) \in Nat /\ Cardinality(B) \in Nat /\ MaxParallelism \in Nat
      /\ Cardinality(A \cup {n}) \in Nat
  BY <1>1, FS_CardinalityType, LimitsAssumption
<1>3. B \subseteq A => Cardinality(B) <= Cardinality(A)
  BY <1>1, FS_Subset
<1>4. B \subseteq A \cup {n} => Cardinality(B) <= Cardinality(A \cup {n})
  BY <1>1, FS_Subset
<1>5. Cardinality(A \cup {n}) = IF n \in A THEN Cardinality(A) ELSE Cardinality(A) + 1
  BY <1>1, FS_AddElement
<1> QED BY <1>2, <1>3, <1>4, <1>5

Manned(g, r, P) == Active(r) => Cardinality(Occupied(g, r, P)) <= MaxParallelism
Admits(g, r, P, X) == X = {} \/ \E n : X = {n} /\ HasCapacity(g, r, P, n)

(* A step takes at most the place of a node that the limit admitted: what  *)
(* gets a Worker is ready, and stays so until it is sent.                  *)
LEMMA PlacesKept ==
    ASSUME NEW g, IsGraph(g), NEW k, NEW Q, NEW W, NEW r \in Crewed(g, k, Q, W),
           NEW P \in SUBSET Q, Manned(g, r, P), NEW X, NEW V, V = In(r, {"RUNNING"}) \cup X,
           NEW Z, NEW s \in Crewed(g, k, Z, V), NEW R, R \subseteq P \cup X,
           Active(s) => Active(r),
           Admits(g, r, P, X)
    PROVE  Manned(g, s, R)
<1> SUFFICES ASSUME Active(s) PROVE Cardinality(Occupied(g, s, R)) <= MaxParallelism
  BY DEF Manned
<1>1. Active(r) /\ Cardinality(Occupied(g, r, P)) <= MaxParallelism
  BY DEF Manned
<1>2. s.dag \in Leading(g, Front(k, Z, V))
  BY DEF Crewed
<1>3. \A n \in Nodes(g) : s.dag.state[n] = "RUNNING" => n \in V
  BY <1>2 DEF Leading, Leads, Front
<1>4. \A n \in Nodes(g) : s.dag.state[n] = "RUNNING" => r.dag.state[n] = "RUNNING" \/ n \in X
  BY <1>3 DEF In
<1>5. r.dag \in Leading(g, Front(k, Q, W))
  BY <1>1 DEF Crewed
<1>6. \A n \in P : n \in Nodes(g) => r.dag.state[n] = "READY"
  BY <1>5 DEF Leading, Leads, Front
<1>7. Occupied(g, s, R) \subseteq Occupied(g, r, P) \cup X
  <2>1. \A n \in R \ X : n \in P /\ (n \in Nodes(g) => r.dag.state[n] = "READY")
    BY <1>6
  <2> QED BY <1>4, <2>1, OccupiedLess
<1>8. Occupied(g, s, R) \in SUBSET Nodes(g) /\ Occupied(g, r, P) \in SUBSET Nodes(g)
  BY DEF Occupied
<1>9. CASE X = {}
  BY <1>1, <1>7, <1>8, <1>9, PlacesTaken
<1>10. ASSUME NEW n, X = {n}, HasCapacity(g, r, P, n)
       PROVE  Cardinality(Occupied(g, s, R)) <= MaxParallelism
  <2>1. n \in Occupied(g, r, P) \/ Cardinality(Occupied(g, r, P)) < MaxParallelism
    BY <1>10 DEF HasCapacity
  <2> QED BY <1>1, <1>7, <1>8, <1>10, <2>1, PlacesTaken
<1> QED BY <1>9, <1>10 DEF Admits

(* A dispatch pass of round k that began with the nodes of R ready and has *)
(* reached the node i: those it has yet to dispatch are still ready.       *)
Crewing(g, k, R, i, p) ==
    /\ p \in PassStates(g, {k})
    /\ p.run \in Crewed(g, k, p.prov \cup {n \in R : n > i}, In(p.run, {"RUNNING"}))
    /\ Manned(g, p.run, p.prov)

LEMMA CrewingOn ==
    ASSUME NEW g, IsGraph(g), NEW k, NEW R, NEW i, NEW j, NEW p, Crewing(g, k, R, j, p),
           NEW a \in PassStates(g, {k}), NEW X, NEW V, V = In(p.run, {"RUNNING"}) \cup X, NEW Y,
           a.run \in Crewed(g, k, Y, V),
           a.prov \cup {n \in R : n > i} \subseteq Y, a.prov \subseteq p.prov \cup X,
           Active(a.run) => Active(p.run),
           Admits(g, p.run, p.prov, X)
    PROVE  Crewing(g, k, R, i, a)
<1> DEFINE s == a.run
           Z == a.prov \cup {n \in R : n > i}
           Q == p.prov \cup {n \in R : n > j}
<1>1. s \in Sound(g, {k}) /\ DOMAIN s.dag.state = Nodes(g)
  BY DEF PassStates, Sound, Runs, AnyEngines
<1>2. Active(s) => \A n \in Nodes(g) : s.dag.state[n] = "RUNNING" => n \in In(s, {"RUNNING"})
  BY <1>1 DEF In
<1>3. /\ p.run \in Crewed(g, k, Q, In(p.run, {"RUNNING"})) /\ p.prov \in SUBSET Q
      /\ Manned(g, p.run, p.prov)
  BY DEF Crewing
<1>4. s \in Crewed(g, k, Y, V) /\ Z \in SUBSET Y
  OBVIOUS
<1>5. s \in Crewed(g, k, Z, In(s, {"RUNNING"})) /\ Manned(g, s, a.prov) => Crewing(g, k, R, i, a)
  BY DEF Crewing
<1> HIDE DEF Z, Q
<1>6. s \in Crewed(g, k, Z, In(s, {"RUNNING"}))
  <2> DEFINE U == In(s, {"RUNNING"})
  <2>1. Active(s) => \A n \in Nodes(g) : s.dag.state[n] = "RUNNING" => n \in U
    BY <1>2
  <2> HIDE DEF U, s
  <2> QED BY <1>4, <2>1, CrewedLess DEF U
<1>7. Manned(g, s, a.prov)
  <2>1. Active(s) => Active(p.run)
    OBVIOUS
  <2> HIDE DEF s
  <2> QED BY <1>3, <1>4, <2>1, PlacesKept
<1> QED BY <1>5, <1>6, <1>7

LEMMA DispatchAgentCrewing ==
    ASSUME NEW g, Straight(g), Routed(g), NEW k \in 1 .. MaxRounds, NEW R \in SUBSET Nodes(g),
           NEW i \in Agents(g), i \in R, NEW p, Crewing(g, k, R, i - 1, p),
           NEW outcome \in {"sent", "provisioning", "deferred", "failed"}
    PROVE  Crewing(g, k, R, i, DispatchAgent(g, p, i, outcome))
<1> DEFINE K == {k}
           W == In(p.run, {"RUNNING"})
           later == {n \in R : n > i}
           Q == p.prov \cup {n \in R : n > i - 1}
           a == DispatchAgent(g, p, i, outcome)
           waits == [p EXCEPT !.wait = @ \cup {i}]
           left  == [p EXCEPT !.wait = @ \ {i}]
           sent  == [left EXCEPT !.run = Send(p.run, i), !.sent = @ \cup {Prompt(p.run, i)}]
           asked == [left EXCEPT !.prov = @ \cup {i}]
           lost  == [left EXCEPT !.run = FailActiveRun(g, p.run, i)]
<1>1. /\ IsGraph(g) /\ i \in Nodes(g) /\ i \in Nat /\ K \in SUBSET (1 .. MaxRounds)
      /\ p \in PassStates(g, K) /\ p.run \in Crewed(g, k, Q, W) /\ Manned(g, p.run, p.prov)
      /\ DOMAIN p = {"run", "prov", "wait", "sent", "done"}
      /\ R \subseteq Nat
  BY DEF Crewing, PassStates, Agents, Nodes, Straight
<1>2. i \in Q /\ p.prov \cup later \subseteq Q /\ i \notin later
  <2>1. \A n \in R : (n > i => n > i - 1 /\ n # i) /\ i > i - 1
    BY <1>1
  <2> QED BY <2>1
<1> HIDE DEF Q, W, later
<1>3. a \in PassStates(g, K)
  BY <1>1, DispatchAgentSound
<1>4. Active(p.run) => /\ p.run.dag.state[i] = "READY" /\ p.run.dag.state[i] \notin Settled
                       /\ \A n \in Nodes(g) : p.run.dag.state[n] = "RUNNING" => n \in W
  <2>1. Active(p.run) => p.run.dag \in Leading(g, Front(k, Q, W))
    BY <1>1 DEF Crewed
  <2> QED BY <1>1, <1>2, <2>1 DEF Leading, Leads, Front, Settled
<1>5. /\ waits.run = p.run /\ waits.prov = p.prov /\ left.run = p.run /\ left.prov = p.prov
      /\ sent.run = Send(p.run, i) /\ sent.prov = p.prov
      /\ asked.run = p.run /\ asked.prov = p.prov \cup {i}
      /\ lost.run = FailActiveRun(g, p.run, i) /\ lost.prov = p.prov
  BY <1>1
<1>6. \/ a.run = p.run /\ a.prov = p.prov
      \/ /\ HasCapacity(g, p.run, p.prov, i) /\ Active(p.run) /\ i \notin p.prov
         /\ a \in {sent, asked, lost}
  <2> DEFINE inert == [p EXCEPT !.run = FailActiveRun(g, p.run, i)]
  <2>1. \/ a \in {p, left, waits}
        \/ ~(Active(p.run) /\ p.run.dag.state[i] = "READY") /\ a = inert
        \/ /\ HasCapacity(g, p.run, p.prov, i) /\ Active(p.run) /\ i \notin p.prov
           /\ a \in {sent, asked, lost}
    BY DEF DispatchAgent
  <2>2. ~Active(p.run) => inert.run = p.run /\ inert.prov = p.prov
    BY <1>1, InactiveKept
  <2> HIDE DEF a, waits, left, sent, asked, lost, inert
  <2> QED BY <1>4, <1>5, <2>1, <2>2
<1> HIDE DEF a, waits, left, sent, asked, lost
<1>7. ASSUME NEW X, X = {} \/ (X = {i} /\ HasCapacity(g, p.run, p.prov, i)), NEW Y,
             NEW V, V = W \cup X, a.run \in Crewed(g, k, Y, V),
             a.prov \cup later \subseteq Y, a.prov \subseteq p.prov \cup X,
             Active(a.run) => Active(p.run)
      PROVE  Crewing(g, k, R, i, a)
  <2>1. Admits(g, p.run, p.prov, X)
    BY <1>7 DEF Admits
  <2>2. V = In(p.run, {"RUNNING"}) \cup X /\ a.prov \cup {n \in R : n > i} \subseteq Y
    BY <1>7 DEF W, later
  <2> QED BY <1>1, <1>3, <1>7, <2>1, <2>2, CrewingOn
<1>8. ASSUME a.run = p.run, a.prov = p.prov PROVE Crewing(g, k, R, i, a)
  <2>1. a.run \in Crewed(g, k, Q, W) /\ a.prov \cup later \subseteq Q
        /\ a.prov \subseteq p.prov \cup {} /\ (Active(a.run) => Active(p.run))
    BY <1>1, <1>2, <1>8
  <2>2. W = W \cup {}
    OBVIOUS
  <2> QED BY <1>7, <2>1, <2>2
<1>9. ASSUME HasCapacity(g, p.run, p.prov, i), Active(p.run), i \notin p.prov,
             a \in {sent, asked, lost}
      PROVE  Crewing(g, k, R, i, a)
  <2>1. p.prov \cup later \subseteq Q \ {i}
    BY <1>2, <1>9
  <2>2. ASSUME a = sent PROVE Crewing(g, k, R, i, a)
    <3>1. a.run \in Crewed(g, k, Q \ {i}, W \cup {i}) /\ a.prov = p.prov
      BY <1>1, <1>4, <1>5, <1>9, <2>2, SendCrewed
    <3>2. a.prov \cup later \subseteq Q \ {i} /\ a.prov \subseteq p.prov \cup {i}
      BY <2>1, <3>1
    <3> QED BY <1>7, <1>9, <3>1, <3>2
  <2>3. ASSUME a = asked PROVE Crewing(g, k, R, i, a)
    <3>1. a.run \in Crewed(g, k, Q, W \cup {i})
      <4> DEFINE V == W \cup {i}
      <4>1. \A n \in Nodes(g) : p.run.dag.state[n] = "RUNNING" => n \in V
        BY <1>4, <1>9
      <4> HIDE DEF V
      <4>2. p.run \in Crewed(g, k, Q, V)
        BY <1>1, <4>1, CrewedLess
      <4> QED BY <1>5, <2>3, <4>2 DEF V
    <3>2. a.prov \cup later \subseteq Q /\ a.prov \subseteq p.prov \cup {i}
      BY <1>2, <1>5, <2>3
    <3> QED BY <1>7, <1>9, <3>1, <3>2
  <2>4. ASSUME a = lost PROVE Crewing(g, k, R, i, a)
    <3>1. p.run \in Crewed(g, k, Q \ {i}, W)
      BY <1>1, <1>4, CrewedLess
    <3>2. FailActiveRun(g, p.run, i) \in Crewed(g, k, Q \ {i}, W)
      BY <1>1, <1>4, <3>1, FailureCrewed
    <3>3. a.run \in Crewed(g, k, Q \ {i}, W) /\ a.prov = p.prov
      BY <1>5, <2>4, <3>2
    <3>4. a.prov \cup later \subseteq Q \ {i} /\ a.prov \subseteq p.prov \cup {}
      BY <2>1, <3>3
    <3>5. W = W \cup {}
      OBVIOUS
    <3> QED BY <1>7, <1>9, <3>3, <3>4, <3>5
  <2> QED BY <1>9, <2>2, <2>3, <2>4
<1> QED BY <1>6, <1>8, <1>9 DEF a

LEMMA DispatchNodeCrewing ==
    ASSUME NEW g, Straight(g), Routed(g), NEW k \in 1 .. MaxRounds, NEW R \in SUBSET Nodes(g),
           NEW i \in Nodes(g), i \in R, NEW p, Crewing(g, k, R, i - 1, p),
           NEW outcome \in Outcomes(g, i)
    PROVE  Crewing(g, k, R, i, DispatchNode(g, p, i, outcome))
<1>1. CASE Gateway(g, i)
  <2> DEFINE K == {k}
             W == In(p.run, {"RUNNING"})
             Q == p.prov \cup {n \in R : n > i - 1}
             Z == p.prov \cup {n \in R : n > i}
             q == ExecuteGateway(g, p.run, i, outcome = "passed")
             a == [p EXCEPT !.run = q, !.done = ~Active(q)]
  <2>1. /\ IsGraph(g) /\ p \in PassStates(g, K) /\ p.run \in Crewed(g, k, Q, W)
        /\ p.prov \in SUBSET Agents(g) /\ i \in Nat /\ R \subseteq Nat
    BY DEF Crewing, PassStates, Nodes, Straight
  <2>2. /\ i \in Q /\ Z \in SUBSET Q /\ i \notin Z /\ Z \in SUBSET Nodes(g)
    <3>1. \A n \in R : (n > i => n > i - 1 /\ n # i) /\ i > i - 1
      BY <2>1
    <3>2. i \notin p.prov /\ p.prov \subseteq Nodes(g)
      BY <1>1, <2>1 DEF Agents
    <3> QED BY <3>1, <3>2
  <2> HIDE DEF Q
  <2>3. Active(p.run) => /\ p.run.dag.state[i] \notin Settled
                         /\ \A n \in Nodes(g) : p.run.dag.state[n] = "RUNNING" => n \in W
    <3> HIDE DEF W
    <3>1. Active(p.run) => p.run.dag \in Leading(g, Front(k, Q, W))
      BY <2>1 DEF Crewed
    <3> QED BY <2>2, <3>1 DEF Leading, Leads, Front, Settled
  <2>4. p.run \in Crewed(g, k, Z, W)
    <3> HIDE DEF Z, W
    <3> QED BY <2>1, <2>2, <2>3, CrewedLess
  <2>5. q \in Crewed(g, k, Z, W)
    <3> HIDE DEF Z, W
    <3> QED BY <1>1, <2>2, <2>3, <2>4, GatewayCrewed
  <2>6. Active(q) => Active(p.run)
    BY DEF ExecuteGateway
  <2> HIDE DEF q
  <2>7. a \in PassStates(g, K) /\ a.run = q /\ a.prov = p.prov
    BY <2>1, <2>5 DEF PassStates, Crewed, Active
  <2> HIDE DEF a
  <2>8. a.prov \cup {n \in R : n > i} \subseteq Z /\ a.prov \subseteq p.prov \cup {}
    BY <2>7
  <2>9. W = In(p.run, {"RUNNING"}) \cup {} /\ Admits(g, p.run, p.prov, {})
    BY DEF Admits
  <2>10. Crewing(g, k, R, i, a)
    <3> HIDE DEF Z, W
    <3> QED BY <2>1, <2>5, <2>6, <2>7, <2>8, <2>9, CrewingOn
  <2> QED BY <1>1, <2>10 DEF DispatchNode, a, q
<1>2. CASE ~Gateway(g, i)
  BY <1>2, DispatchAgentCrewing DEF DispatchNode, Outcomes, Agents
<1> QED BY <1>1, <1>2

LEMMA DispatchPassCrewing ==
    ASSUME NEW g, Straight(g), Routed(g), NEW k \in 1 .. MaxRounds,
           run \in Crewed(g, k, provisioning, In(run, {"RUNNING"})), Active(run),
           Manned(g, run, provisioning),
           provisioning \in SUBSET Agents(g), deferred \in SUBSET Agents(g),
           executing \in SUBSET Prompts(g), NEW outcome,
           \A n \in Ready(run.dag) : outcome[n] \in Outcomes(g, n)
    PROVE  Crewing(g, k, Ready(run.dag), g.size, DispatchPass(g, outcome))
<1> DEFINE N == g.size
           R == Ready(run.dag)
           start == [run |-> run, prov |-> provisioning, wait |-> deferred,
                     sent |-> executing, done |-> FALSE]
           all == PassStates(g, {k})
           X == [i \in 0 .. N |-> {p \in all : Crewing(g, k, R, i, p)}]
<1>1. /\ N \in Nat /\ {k} \in SUBSET (1 .. MaxRounds) /\ IsGraph(g) /\ run \in Sound(g, {k})
      /\ DOMAIN run.dag.state = Nodes(g) /\ R \in SUBSET Nodes(g)
  BY DEF IsGraph, Straight, Crewed, Sound, Runs, AnyEngines, Ready
<1>2. PICK f : PassesBy(g, outcome, f)
  BY <1>1, DispatchPassIterates
<1>3. /\ DispatchPass(g, outcome) = f[N]
      /\ f[0] = start
      /\ \A i \in 1 .. N :
            f[i] = IF i \in R /\ ~f[i - 1].done THEN DispatchNode(g, f[i - 1], i, outcome[i])
                   ELSE f[i - 1]
  BY <1>2 DEF PassesBy
<1>4. f[0] \in X[0]
  <2> DEFINE Q == provisioning \cup {n \in R : n > 0}
             W == In(run, {"RUNNING"})
  <2>1. start \in all /\ start.run = run /\ start.prov = provisioning
    BY <1>1 DEF PassStates
  <2> HIDE DEF start
  <2>2. run.dag \in Leading(g, Front(k, provisioning, W)) /\ run.status # "waiting"
    BY DEF Crewed, Active
  <2>3. \A n \in Nodes(g) : n \in Q => run.dag.state[n] = "READY"
    BY <2>2 DEF Leading, Leads, Front, Ready
  <2> HIDE DEF Q, W
  <2>4. run.dag \in Leading(g, Front(k, Q, W))
    BY <2>2, <2>3 DEF Leading, Leads, Front
  <2>5. run \in Crewed(g, k, Q, W)
    BY <1>1, <2>2, <2>4 DEF Crewed
  <2>6. Crewing(g, k, R, 0, start)
    BY <2>1, <2>5 DEF Crewing, Q, W
  <2> QED BY <1>1, <1>3, <2>1, <2>6
<1>5. ASSUME NEW i \in 1 .. N, f[i - 1] \in X[i - 1] PROVE f[i] \in X[i]
  <2>1. Crewing(g, k, R, i - 1, f[i - 1]) /\ i \in Nodes(g)
    BY <1>1, <1>5 DEF Nodes
  <2>2. Crewing(g, k, R, i, f[i])
    <3>1. CASE i \in R /\ ~f[i - 1].done
      <4> HIDE DEF R
      <4>1. outcome[i] \in Outcomes(g, i)
        BY <3>1 DEF R
      <4> QED BY <1>1, <1>3, <2>1, <3>1, <4>1, DispatchNodeCrewing
    <3>2. CASE ~(i \in R /\ ~f[i - 1].done)
      <4> DEFINE p == f[i - 1]
                 W == In(p.run, {"RUNNING"})
                 Q == p.prov \cup {n \in R : n > i - 1}
                 Z == p.prov \cup {n \in R : n > i}
      <4>1. p \in all /\ p.run \in Crewed(g, k, Q, W) /\ Manned(g, p.run, p.prov)
        BY <2>1 DEF Crewing
      <4>2. Z \subseteq Q
        <5>1. \A n \in R : n > i => n > i - 1
          BY <1>1, <2>1 DEF Nodes
        <5> QED BY <5>1
      <4>3. Active(p.run) => \A n \in Nodes(g) : p.run.dag.state[n] = "RUNNING" => n \in W
        <5> HIDE DEF W, Q, p
        <5> QED BY <4>1 DEF Crewed, Leading, Leads, Front
      <4>4. p.run \in Crewed(g, k, Z, W)
        <5> HIDE DEF W, Q, Z, p
        <5> QED BY <4>1, <4>2, <4>3, CrewedLess
      <4>5. Crewing(g, k, R, i, p)
        BY <4>1, <4>4 DEF Crewing
      <4> QED BY <1>3, <3>2, <4>5
    <3> QED BY <3>1, <3>2
  <2>3. X[i] = {p \in all : Crewing(g, k, R, i, p)}
    BY <1>1
  <2>4. f[i] \in all
    BY <2>2 DEF Crewing
  <2> HIDE DEF X, all
  <2> QED BY <2>2, <2>3, <2>4
<1>6. X[N] = {p \in all : Crewing(g, k, R, N, p)}
  BY <1>1
<1> HIDE DEF X, N, all
<1>7. f[N] \in X[N]
  BY <1>1, <1>4, <1>5, StaysStepwise
<1> QED BY <1>3, <1>6, <1>7 DEF N

(* A round is opened when nothing else is left to do: what it does not     *)
(* reset has settled, and no Worker is on its way.                         *)
LEMMA ResumeCrewed ==
    ASSUME NEW S \in SUBSET Nodes(graph), IsGraph(graph), NEW k \in Nat \ {0},
           NEW Q, NEW W, run \in Crewed(graph, k, Q, W), run.round = k, S # {}, Resume(S)
    PROVE  Q = {} /\ run' \in Crewed(graph, k + 1, {}, {})
<1> DEFINE nodes == RoundNodes(graph, run, S)
           carried == [n \in Nodes(graph) |-> Carried(graph, run, nodes, n)]
           d == ResetForRound(graph, run.dag, nodes, carried)
           K == {k}
           b == Front(k + 1, {}, {})
<1>1. /\ run \in Sound(graph, K) /\ run.status = "waiting" /\ run \in Runs(graph, K)
      /\ \A n \in S : ~Gateway(graph, n) /\ Reaches(graph, run, n)
      /\ run.dag \in AnyEngines(graph) /\ DOMAIN run.dag.state = Nodes(graph)
      /\ WaitingQuiet(graph, run) /\ run.dag.loops = {} /\ Q = {}
  BY DEF Resume, Crewed, Sound, Runs, AnyEngines
<1> HIDE DEF K
<1>2. run' \in ActiveRuns(graph, {run.round + 1})
  BY <1>1, ResumeSound
<1>3. run'.dag = d
  <2> HIDE DEF d
  <2>1. run' = [run EXCEPT !.status = "active", !.round = @ + 1,
                           !.counters = InitialCounters(graph), !.seeded = @ \cup S,
                           !.commands = S, !.dag = d]
    BY DEF Resume, d
  <2> QED BY <1>1, <2>1 DEF Runs
<1>4. carried \in Mailboxes(graph)
  BY <1>1 DEF Carried, Mailboxes, RouteSources, IsGraph, RoutesTo
<1> HIDE DEF carried
<1>5. \A n \in Nodes(graph) : run.dag.state[n] = "WAITING_FOR_COMMAND" => n \in nodes
  BY <1>1, RoundTakesWaiting
<1>6. \A n \in Nodes(graph) : n \in nodes \/ run.dag.state[n] \in Settled
  BY <1>1, <1>5 DEF WaitingQuiet, Quiescent
<1> HIDE DEF nodes
<1>7. ~b.first /\ b.ready = {}
  <2>1. k + 1 # 1
    OBVIOUS
  <2> DEFINE j == k + 1
  <2> HIDE DEF j
  <2>2. ~Front(j, {}, {}).first /\ Front(j, {}, {}).ready = {}
    BY <2>1 DEF Front, j
  <2> QED BY <2>2 DEF j
<1> HIDE DEF b
<1>8. d \in Leading(graph, b)
  BY <1>1, <1>4, <1>6, <1>7, LeadingReset
<1> HIDE DEF d
<1> QED BY <1>1, <1>2, <1>3, <1>8, ActiveCrewed DEF b

(* Until the Manager restarts, the first round keeps to the limit; so do   *)
(* the others when no node is corrected.  A correction of a later round    *)
(* may open again what an earlier one skipped.                             *)
Uncorrected == run.round = 1 \/ MaxCorrections = 0

CrewKept ==
    restarts = 0 /\ Loopless(graph) /\ Routed(graph) /\ Uncorrected
    => /\ run \in Crewed(graph, run.round, provisioning, In(run, {"RUNNING"}))
       /\ Manned(graph, run, provisioning)

LEMMA CrewInit == Init => CrewKept
<1> SUFFICES ASSUME Init, Loopless(graph)
             PROVE  /\ run \in Crewed(graph, run.round, provisioning, In(run, {"RUNNING"}))
                    /\ Manned(graph, run, provisioning)
  BY DEF CrewKept
<1> DEFINE W == In(run, {"RUNNING"})
           b == Front(1, {}, W)
<1>1. IsGraph(graph) /\ run \in ActiveRuns(graph, {1})
  BY InitSound
<1>2. run.dag = NewEngine(graph) /\ run.round = 1 /\ provisioning = {}
  BY DEF Init, NewRun
<1>3. \A n \in Nodes(graph) : run.dag.state[n] # "RUNNING"
  BY <1>1, <1>2 DEF NewEngine
<1>4. b.ready = {} /\ LoopSources(graph) = {}
  BY DEF Front, Loopless
<1> HIDE DEF b, W
<1>5. run.dag \in Leading(graph, b)
  BY <1>1, <1>2, <1>4, NewEngineLeading
<1>6. run \in Crewed(graph, 1, {}, W)
  BY <1>1, <1>5, ActiveCrewed DEF b
<1>7. Occupied(graph, run, {}) = {} /\ 0 <= MaxParallelism
  BY <1>3, LimitsAssumption DEF Occupied
<1>8. Cardinality({}) = 0
  BY FS_EmptySet
<1> QED BY <1>2, <1>6, <1>7, <1>8 DEF Manned, W

LEMMA CrewStep ==
    ASSUME TypedState, PassesOfActive, OrderKept, CrewKept, [Next]_vars, restarts' = 0,
           Loopless(graph), Routed(graph), Uncorrected'
    PROVE  /\ graph' = graph
           /\ run' \in Crewed(graph, run'.round, provisioning', In(run', {"RUNNING"}))
           /\ Manned(graph, run', provisioning')
<1> DEFINE k == run.round
           P == provisioning
           W == In(run, {"RUNNING"})
           Goal == /\ run' \in Crewed(graph, run'.round, provisioning', In(run', {"RUNNING"}))
                   /\ Manned(graph, run', provisioning')
<1>1. /\ graph' = graph /\ IsGraph(graph) /\ Straight(graph)
      /\ run \in Sound(graph, {k}) /\ k \in 1 .. MaxRounds /\ {k} \in SUBSET (1 .. MaxRounds)
      /\ k \in Nat \ {0} /\ DOMAIN run.dag.state = Nodes(graph)
      /\ P \in SUBSET Agents(graph) /\ deferred \in SUBSET Agents(graph)
      /\ executing \in SUBSET Prompts(graph)
      /\ \A n \in Agents(graph) : n \in Nodes(graph)
  <2>1. k \in Rounds /\ run \in Sound(graph, {k})
    BY RoundsOfSound DEF TypedState
  <2>2. IsGraph(graph)
    BY GraphsAssumption DEF TypedState
  <2>3. k \in 1 .. MaxRounds /\ k \in Nat \ {0} /\ {k} \in SUBSET (1 .. MaxRounds)
    BY <2>1, BoundsAssumption DEF Rounds
  <2>4. DOMAIN run.dag.state = Nodes(graph)
    BY <2>1 DEF Sound, Runs, AnyEngines
  <2> QED BY <2>1, <2>2, <2>3, <2>4, TypedStep, LooplessStraight DEF TypedState, Agents
<1>2. restarts = 0 /\ ~(\E r : Restart(r))
  BY NoRestart
<1>3. k = 1 \/ MaxCorrections = 0
  <2>1. CASE \E S \in SUBSET Nodes(graph) : S # {} /\ Resume(S)
    <3>1. PICK S \in SUBSET Nodes(graph) : S # {} /\ Resume(S)
      BY <2>1
    <3>2. run' \in ActiveRuns(graph, {k + 1})
      BY <1>1, <3>1, ResumeSound
    <3>3. run'.round = k + 1
      BY <3>2 DEF ActiveRuns, Runs
    <3>4. run'.round # 1
      BY <1>1, <3>3
    <3> QED BY <3>4 DEF Uncorrected
  <2>2. CASE ~(\E S \in SUBSET Nodes(graph) : S # {} /\ Resume(S))
    <3>1. run' \in Sound(graph, {k})
      BY <2>2, TypedStep DEF Opens
    <3>2. run'.round = k
      BY <3>1 DEF Sound, Runs
    <3> QED BY <3>2 DEF Uncorrected
  <2> QED BY <2>1, <2>2
<1>4. run \in Crewed(graph, k, P, W) /\ Manned(graph, run, P)
  BY <1>2, <1>3 DEF CrewKept, Uncorrected
<1>5. Active(run) => /\ \A n \in Nodes(graph) : run.dag.state[n] = "RUNNING" => n \in W
                     /\ \A n \in P : run.dag.state[n] = "READY" /\ run.dag.state[n] \notin Settled
  <2>1. Active(run) => run.dag \in Leading(graph, Front(k, P, W))
    BY <1>4 DEF Crewed
  <2> HIDE DEF k, W
  <2> QED BY <1>1, <2>1 DEF Leading, Leads, Front, Settled
<1> SUFFICES Goal
  BY <1>1
(* What a handler keeps of those that get Workers, and the node it sends.  *)
<1>6. ASSUME NEW X, Admits(graph, run, P, X), NEW Y, NEW V, V = W \cup X,
             run' \in Crewed(graph, k, Y, V), provisioning' \subseteq Y,
             provisioning' \subseteq P \cup X, Active(run') => Active(run)
      PROVE  Goal
  <2>1. run'.round = k /\ DOMAIN run'.dag.state = Nodes(graph)
    BY <1>6 DEF Crewed, Sound, Runs, AnyEngines
  <2> DEFINE s == run'
             Z == provisioning'
             U == In(s, {"RUNNING"})
  <2>2. Active(s) => \A n \in Nodes(graph) : s.dag.state[n] = "RUNNING" => n \in U
    BY <2>1 DEF In
  <2>3. /\ s \in Crewed(graph, k, Y, V) /\ Z \in SUBSET Y /\ Z \subseteq P \cup X
        /\ Active(s) => Active(run)
    BY <1>6
  <2> HIDE DEF s, Z, U, k
  <2>4. s \in Crewed(graph, k, Z, U)
    BY <2>2, <2>3, CrewedLess
  <2>5. Manned(graph, s, Z)
    BY <1>1, <1>4, <1>6, <2>3, PlacesKept DEF W
  <2> QED BY <2>1, <2>4, <2>5 DEF s, Z, U, k
<1>7. ASSUME NEW Y \in SUBSET P, run' \in Crewed(graph, k, Y, W), provisioning' \subseteq Y,
             Active(run') => Active(run)
      PROVE  Goal
  <2>1. Admits(graph, run, P, {}) /\ W = W \cup {} /\ provisioning' \subseteq P \cup {}
    BY <1>7 DEF Admits
  <2> HIDE DEF Goal, W, P, k
  <2> QED BY <1>6, <1>7, <2>1
<1> HIDE DEF Goal
<1>8. ASSUME run' = run, provisioning' \subseteq P PROVE Goal
  BY <1>4, <1>7, <1>8
<1>9. ASSUME NEW Y \in SUBSET P PROVE run \in Crewed(graph, k, Y, W)
  <2> HIDE DEF W, P, k
  <2> QED BY <1>4, <1>5, CrewedLess
<1>10. ASSUME NEW n \in Agents(graph), run' = FailActiveRun(graph, run, n),
              Active(run) => run.dag.state[n] \notin Settled,
              NEW Y \in SUBSET P, n \notin Y, provisioning' \subseteq Y
       PROVE  Goal
  <2>1. run \in Crewed(graph, k, Y, W) /\ n \in Nodes(graph) \ Y
    BY <1>1, <1>9, <1>10
  <2>2. run' \in Crewed(graph, k, Y, W)
    <3> HIDE DEF W, P, k
    <3> QED BY <1>1, <1>10, <2>1, FailureCrewed
  <2>3. Active(run') => Active(run)
    BY <1>10 DEF FailActiveRun
  <2> QED BY <1>7, <1>10, <2>2, <2>3
<1>11. CASE DispatchReadyNodes
  <2>1. PICK outcome :
           /\ \A m \in Ready(run.dag) : outcome[m] \in Outcomes(graph, m)
           /\ \E pass \in {DispatchPass(graph, outcome)} :
                 run' = pass.run /\ provisioning' = pass.prov
    BY <1>11, Zenon DEF DispatchReadyNodes
  <2> DEFINE pass == DispatchPass(graph, outcome)
  <2>2. Active(run)
    <3>1. passes > 0
      BY <1>11, Zenon DEF DispatchReadyNodes
    <3> QED BY <3>1 DEF PassesOfActive
  <2>3. Crewing(graph, k, Ready(run.dag), graph.size, pass)
    <3> HIDE DEF k
    <3> QED BY <1>1, <1>4, <2>1, <2>2, DispatchPassCrewing DEF P, W
  <2>4. run' = pass.run /\ provisioning' = pass.prov
    BY <2>1
  <2> HIDE DEF pass
  <2> DEFINE Q == provisioning' \cup {n \in Ready(run.dag) : n > graph.size}
             U == In(run', {"RUNNING"})
             s == run'
  <2>5. s \in Crewed(graph, k, Q, U) /\ Manned(graph, s, provisioning')
    BY <2>3, <2>4 DEF Crewing
  <2>6. s.round = k /\ DOMAIN s.dag.state = Nodes(graph)
    BY <2>5 DEF Crewed, Sound, Runs, AnyEngines
  <2>7. Active(s) => \A n \in Nodes(graph) : s.dag.state[n] = "RUNNING" => n \in U
    BY <2>6 DEF In
  <2>8. provisioning' \in SUBSET Q
    OBVIOUS
  <2> HIDE DEF s, U, Q, k
  <2>9. s \in Crewed(graph, k, provisioning', U)
    BY <2>5, <2>7, <2>8, CrewedLess
  <2> QED BY <2>5, <2>6, <2>9 DEF s, U, Goal
<1>12. ASSUME NEW n \in provisioning, Provisioned(n) \/ ProvisioningFails(n) PROVE Goal
  <2> DEFINE Y == P \ {n}
  <2>1. /\ n \in Agents(graph) /\ n \in Nodes(graph) /\ provisioning' = Y
        /\ Y \in SUBSET P /\ n \notin Y
    BY <1>1, <1>12 DEF Provisioned, ProvisioningFails
  <2>2. \/ run' = run \/ run' = FailActiveRun(graph, run, n)
        \/ Active(run) /\ run.dag.state[n] = "READY" /\ run' = Send(run, n)
    BY <1>12 DEF Provisioned, ProvisioningFails
  <2>3. run' = run => Goal
    BY <1>8, <2>1
  <2>4. run' = FailActiveRun(graph, run, n) => Goal
    BY <1>5, <1>10, <2>1
  <2>5. ASSUME Active(run), run.dag.state[n] = "READY", run' = Send(run, n) PROVE Goal
    <3>1. Send(run, n) \in Crewed(graph, k, Y, W \cup {n})
      BY <1>1, <1>4, <2>1, <2>5, SendCrewed
    <3>2. Admits(graph, run, P, {n})
      <4>1. n \in Occupied(graph, run, P)
        BY <2>1, <2>5 DEF Occupied, Agents
      <4>2. HasCapacity(graph, run, P, n)
        BY <4>1 DEF HasCapacity
      <4> QED BY <4>2 DEF Admits
    <3>3. provisioning' \subseteq Y /\ provisioning' \subseteq P \cup {n}
      BY <2>1
    <3> HIDE DEF Y, W, P, k
    <3> QED BY <1>6, <2>5, <3>1, <3>2, <3>3
  <2> QED BY <2>2, <2>3, <2>4, <2>5
<1>13. CASE RetryDeferred \/ FirstWorkerRegisters \/ UNCHANGED vars
  BY <1>8, <1>13 DEF RetryDeferred, FirstWorkerRegisters, vars
<1>14. ASSUME NEW n \in Nodes(graph), WorkerLost(n) PROVE Goal
  <2>1. /\ run' = FailActiveRun(graph, run, n) /\ Active(run)
        /\ run.dag.state[n] = "RUNNING" /\ n \in Agents(graph) /\ provisioning' = P
    BY <1>14 DEF WorkerLost, Agents
  <2>2. n \notin P /\ run.dag.state[n] \notin Settled
    BY <1>5, <2>1 DEF Settled
  <2> QED BY <1>10, <2>1, <2>2
(* Nothing comes back to a node that has not been sent what it answers.    *)
<1>15. ASSUME NEW e \in executing, NEW port \in {"done", FailurePort, "rejected"},
              NEW contract, Answer(e, port, contract)
       PROVE  Goal
  <2>0. provisioning' = P
    BY <1>15 DEF Answer, manager
  <2>1. CASE ~Current(run, e)
    BY <1>8, <1>15, <2>0, <2>1 DEF Answer
  <2>2. CASE Current(run, e)
    <3> DEFINE f == e.node
               c == [Rest(graph, run, executing) EXCEPT !.busy = @ \ {f}]
    <3>1. /\ Active(run) /\ e.round = k /\ (k > 1 => f \in run.commands)
          /\ run' = Applied(graph, run, f, port, contract) /\ f \in Agents(graph)
      BY <1>1, <1>15, <2>2 DEF Answer, Current, Prompts
    <3>2. k = 1 \/ f \in run.commands
      BY <1>1, <3>1, BoundsAssumption
    <3>3. f \in PromptedIn(executing, k)
      BY <3>1 DEF PromptedIn
    <3>4. Steady(graph, run, executing, {})
      BY <1>2 DEF OrderKept, Steady
    <3>5. Asked(graph, c, run.dag, f)
      BY <1>1, <3>1, <3>2, <3>3, <3>4, AnsweredAsked
    <3>6. run.dag.loops = {} /\ Iterated(graph) = {}
      BY <1>1, <1>4 DEF Crewed, Straight
    <3>7. run.dag.state[f] = "RUNNING"
      BY <3>5, <3>6 DEF Asked
    <3> HIDE DEF f, c, k, W
    <3>8. Applied(graph, run, f, port, contract) \in Crewed(graph, k, P, W)
      BY <1>1, <1>3, <1>4, <3>1, <3>7, AppliedCrewed
    <3> QED BY <1>7, <2>0, <3>1, <3>8
  <2> QED BY <2>1, <2>2
<1>16. CASE Cancel \/ Complete \/ Expire
  <2>1. provisioning' = P
    BY <1>16 DEF Cancel, Complete, Expire, manager
  <2>2. /\ run.status \in {"active", "waiting"} => CancelRun(run) \in Crewed(graph, k, P, W)
        /\ run.status = "waiting" => /\ CompleteRun(run) \in Crewed(graph, k, P, W)
                                     /\ ExpireRun(run) \in Crewed(graph, k, P, W)
    <3> HIDE DEF P, W, k
    <3> QED BY <1>4, StoppedCrewed
  <2>3. \A r : /\ r = CancelRun(run) \/ r = CompleteRun(run) \/ r = ExpireRun(run) => ~Active(r)
    <3>1. run \in Runs(graph, {k})
      BY <1>1 DEF Sound
    <3> QED BY <3>1, EndingLoops DEF Active
  <2>4. run' \in Crewed(graph, k, P, W) /\ ~Active(run')
    BY <1>16, <2>2, <2>3 DEF Cancel, Complete, Expire
  <2> QED BY <1>7, <2>1, <2>4
<1>17. ASSUME NEW S \in SUBSET Nodes(graph), S # {}, Resume(S) PROVE Goal
  <2> DEFINE s == run'
             j == k + 1
  <2>1. P = {} /\ s \in Crewed(graph, j, {}, {})
    BY <1>1, <1>4, <1>17, ResumeCrewed
  <2>2. provisioning' = P
    BY <1>17 DEF Resume, manager
  <2>3. s.round = j
    BY <2>1 DEF Crewed, Sound, Runs
  <2> DEFINE U == In(s, {"RUNNING"})
  <2> HIDE DEF s, j, U
  <2>4. \A n \in Nodes(graph) : Active(s) => s.dag.state[n] # "RUNNING"
    BY <2>1 DEF Crewed, Leading, Leads, Front
  <2>5. s \in Crewed(graph, j, {}, U)
    BY <2>1, <2>4, CrewedLess
  <2>6. Active(s) => Occupied(graph, s, {}) = {}
    BY <2>4 DEF Occupied
  <2>7. Cardinality({}) = 0 /\ 0 <= MaxParallelism
    BY FS_EmptySet, LimitsAssumption
  <2> QED BY <2>1, <2>2, <2>3, <2>5, <2>6, <2>7 DEF Goal, Manned, s, U
<1>18. ~Crash /\ \A e, port : ~CrashAfterHandoff(e, port)
  BY <1>2 DEF Crash, CrashAfterHandoff
<1> HIDE DEF P, W, k
<1> QED BY <1>11, <1>12, <1>13, <1>14, <1>15, <1>16, <1>17, <1>18 DEF Next

LEMMA CrewAlways == Spec => []CrewKept
<1>1. CrewKept /\ TypedState /\ PassesOfActive /\ OrderKept /\ [Next]_vars => CrewKept'
  <2> SUFFICES ASSUME CrewKept, TypedState, PassesOfActive, OrderKept, [Next]_vars,
                      restarts' = 0, Loopless(graph'), Routed(graph'), Uncorrected'
               PROVE  /\ run' \in Crewed(graph', run'.round, provisioning', In(run', {"RUNNING"}))
                      /\ Manned(graph', run', provisioning')
    BY DEF CrewKept
  <2>1. graph' = graph
    BY TypedStep
  <2> QED BY <2>1, CrewStep
<1>2. Spec => []PassesOfActive
  BY PassesInit, PassesStep, PTL DEF Spec
<1> QED BY <1>1, <1>2, CrewInit, OrderAlways, TypedAlways, PTL DEF Spec

(* The limit on parallelism holds, although Workers come up while others   *)
(* answer, fail or are asked again, for every graph without loops whose    *)
(* routes are dependencies, all limits and any number of rounds, until the *)
(* Manager restarts: in the first round whatever is corrected, and in the  *)
(* later ones when no node is.                                             *)
THEOREM LimitHolds ==
    Spec => [](/\ Loopless(graph) /\ Routed(graph)
               /\ restarts = 0
               /\ run.round = 1 \/ MaxCorrections = 0
               => ParallelismHolds)
<1> DEFINE Limit == /\ Loopless(graph) /\ Routed(graph)
                    /\ restarts = 0
                    /\ run.round = 1 \/ MaxCorrections = 0
                    => ParallelismHolds
<1>1. ASSUME TypedState, CrewKept PROVE Limit
  <2> SUFFICES ASSUME Loopless(graph), Routed(graph), restarts = 0,
                      run.round = 1 \/ MaxCorrections = 0
               PROVE  ParallelismHolds
    OBVIOUS
  <2>1. /\ run \in Crewed(graph, run.round, provisioning, In(run, {"RUNNING"}))
        /\ Manned(graph, run, provisioning)
    BY <1>1 DEF CrewKept, Uncorrected
  <2>2. ParallelismHolds <=>
           Cardinality(Occupied(graph, run, provisioning)) <= MaxParallelism
    BY DEF ParallelismHolds, Occupied
  <2>3. CASE Active(run)
    BY <2>1, <2>2, <2>3 DEF Manned
  <2>4. CASE ~Active(run)
    <3>1. run \in Sound(graph, {run.round}) /\ run.dag.loops = {}
      BY <2>1 DEF Crewed
    <3>2. \A n \in Nodes(graph) : run.dag.state[n] \notin {"READY", "RUNNING"}
      <4>1. CASE Ended(run)
        BY <3>1, <4>1 DEF Sound, EndedQuiet, RunningLoop, Settled
      <4>2. CASE run.status = "waiting"
        <5>1. DOMAIN run.dag.state = Nodes(graph)
          BY <3>1 DEF Sound, Runs, AnyEngines
        <5> QED BY <3>1, <4>2, <5>1 DEF Sound, WaitingQuiet, Quiescent, Settled
      <4>3. Ended(run) \/ run.status = "waiting"
        BY <2>4, <3>1 DEF Sound, Runs, RunStates, Ended, Active
      <4> QED BY <4>1, <4>2, <4>3
    <3>3. Occupied(graph, run, provisioning) = {}
      BY <3>2 DEF Occupied
    <3>4. Cardinality({}) = 0 /\ 0 <= MaxParallelism
      BY FS_EmptySet, LimitsAssumption
    <3> QED BY <2>2, <3>3, <3>4
  <2> QED BY <2>3, <2>4
<1>2. TypedState /\ CrewKept => Limit
  BY <1>1
<1> QED BY <1>2, TypedAlways, CrewAlways, PTL
=============================================================================
