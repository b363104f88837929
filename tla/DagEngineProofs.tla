-------------------------- MODULE DagEngineProofs --------------------------
(***************************************************************************)
(* Every operator of DagEngine that changes an engine maps the engines of  *)
(* a graph to engines of the graph: a node stays in one of its states, is  *)
(* satisfied by nothing but its own dependencies, and finds data in its    *)
(* mailbox only from a node that routes to it.  Later sections say what    *)
(* the operators leave alone, that they promote in order, that they skip   *)
(* no join that has a vote, and that what runs stays ahead of what waits.  *)
(*                                                                         *)
(* ForEach and Closure choose a function that computes each value from the *)
(* one before.  That there is one, and that it stays in a set every step   *)
(* maps to itself, is Recursion; it is about a step given as a function,   *)
(* so each use of ForEach and Closure restates its step as one.            *)
(***************************************************************************)
EXTENDS DagEngine, TLAPS, NaturalsInduction, WellFoundedInduction, FiniteSetTheorems

LEMMA SetInduction ==
    ASSUME NEW T, 0 \in T, \A n \in Nat : n \in T => n + 1 \in T
    PROVE  Nat \subseteq T
<1> DEFINE R == OpToRel(<, Nat)
<1>1. IsWellFoundedOn(R, Nat)
  BY NatLessThanWellFounded, Zenon
<1>2. \A x, y \in Nat : y < x => <<y, x>> \in R
  BY DEF OpToRel
<1> HIDE DEF R
<1> DEFINE Missing == Nat \ T
<1>3. ASSUME Missing # {} PROVE FALSE
  <2>1. Missing \subseteq Nat
    OBVIOUS
  <2>2. PICK x \in Missing : \A y \in Missing : ~ (<<y, x>> \in R)
    BY <1>1, <1>3, <2>1, WFMin, Zenon
  <2>3. x \in Nat /\ x # 0
    BY <2>2
  <2>4. x - 1 \in Nat /\ x - 1 < x /\ (x - 1) + 1 = x
    BY <2>3
  <2>5. <<x - 1, x>> \in R
    BY <1>2, <2>3, <2>4
  <2>6. x - 1 \notin Missing
    BY <2>2, <2>5
  <2> QED BY <2>2, <2>4, <2>6
<1> QED BY <1>3

(* f lists x and what F makes of it step by step.                          *)
IsStep(F, N, X) == F \in [1 .. N -> [X -> X]]
IsIteration(f, F, N, X, x) ==
    /\ f \in [0 .. N -> X]
    /\ f[0] = x
    /\ \A i \in 1 .. N : f[i] = F[i][f[i - 1]]

LEMMA Iterates ==
    ASSUME NEW N \in Nat, NEW X, NEW x \in X, NEW F, IsStep(F, N, X)
    PROVE  \E f : IsIteration(f, F, N, X, x)
<1> DEFINE T == {n \in Nat : n <= N => \E f : IsIteration(f, F, n, X, x)}
<1>1. 0 \in T
  <2> DEFINE f == [i \in 0 .. 0 |-> x]
  <2>1. IsIteration(f, F, 0, X, x)
    BY DEF IsIteration
  <2> QED BY <2>1
<1>2. ASSUME NEW n \in Nat, n \in T PROVE n + 1 \in T
  <2> SUFFICES ASSUME n + 1 <= N PROVE \E f : IsIteration(f, F, n + 1, X, x)
    OBVIOUS
  <2>1. PICK f : IsIteration(f, F, n, X, x)
    BY <1>2
  <2> DEFINE last == F[n + 1][f[n]]
             h == [i \in 0 .. n + 1 |-> IF i = n + 1 THEN last ELSE f[i]]
  <2>2. f \in [0 .. n -> X] /\ f[0] = x /\ \A i \in 1 .. n : f[i] = F[i][f[i - 1]]
    BY <2>1 DEF IsIteration
  <2>3. last \in X
    BY <2>2 DEF IsStep
  <2>4. h \in [0 .. n + 1 -> X] /\ h[0] = x /\ h[n + 1] = last /\ h[n] = f[n]
    BY <2>2, <2>3
  <2>5. ASSUME NEW i \in 1 .. n + 1 PROVE h[i] = F[i][h[i - 1]]
    <3>1. CASE i = n + 1
      <4>1. i - 1 = n
        BY <3>1
      <4> QED BY <2>4, <3>1, <4>1
    <3>2. CASE i # n + 1
      <4>1. i \in 1 .. n /\ h[i] = f[i] /\ h[i - 1] = f[i - 1]
        BY <3>2
      <4> QED BY <2>2, <4>1
    <3> QED BY <3>1, <3>2
  <2> HIDE DEF h
  <2>6. IsIteration(h, F, n + 1, X, x)
    BY <2>4, <2>5 DEF IsIteration
  <2> QED BY <2>6
<1> HIDE DEF T
<1>3. N \in T
  BY <1>1, <1>2, SetInduction
<1> QED BY <1>3 DEF T

LEMMA IterationUnfolds ==
    ASSUME NEW N \in Nat, NEW X, NEW x, NEW F, NEW f, IsIteration(f, F, N, X, x)
    PROVE  /\ f = [i \in 0 .. N |-> f[i]]
           /\ f[0] = x
           /\ \A i \in 1 .. N : f[i - 1] \in X /\ f[i] = F[i][f[i - 1]]
<1>1. f \in [0 .. N -> X]
  BY DEF IsIteration
<1>2. \A i \in 1 .. N : i - 1 \in 0 .. N
  OBVIOUS
<1> QED BY <1>1, <1>2 DEF IsIteration

(* f does as an iteration does wherever it stays in X.                     *)
Follows(f, F, N, X) ==
    /\ f[0] \in X
    /\ \A i \in 1 .. N : f[i - 1] \in X => f[i] = F[i][f[i - 1]]

LEMMA Stays ==
    ASSUME NEW N \in Nat, NEW X, NEW f, NEW F, IsStep(F, N, X), Follows(f, F, N, X)
    PROVE  f[N] \in X
<1> DEFINE T == {n \in Nat : n <= N => f[n] \in X}
<1>1. 0 \in T
  BY DEF Follows
<1>2. ASSUME NEW n \in Nat, n \in T PROVE n + 1 \in T
  <2> SUFFICES ASSUME n + 1 <= N PROVE f[n + 1] \in X
    OBVIOUS
  <2>1. n + 1 \in 1 .. N /\ (n + 1) - 1 = n /\ f[n] \in X
    BY <1>2
  <2>2. f[n + 1] = F[n + 1][f[n]]
    BY <2>1 DEF Follows
  <2> QED BY <2>1, <2>2 DEF IsStep
<1> HIDE DEF T
<1>3. N \in T
  BY <1>1, <1>2, SetInduction
<1> QED BY <1>3 DEF T

(* The same for a set of its own at every step.                            *)
LEMMA StaysStepwise ==
    ASSUME NEW N \in Nat, NEW X, NEW f, f[0] \in X[0],
           \A i \in 1 .. N : f[i - 1] \in X[i - 1] => f[i] \in X[i]
    PROVE  f[N] \in X[N]
<1> DEFINE T == {n \in Nat : n <= N => f[n] \in X[n]}
<1>1. 0 \in T
  OBVIOUS
<1>2. ASSUME NEW n \in Nat, n \in T PROVE n + 1 \in T
  <2> SUFFICES ASSUME n + 1 <= N PROVE f[n + 1] \in X[n + 1]
    OBVIOUS
  <2>1. n + 1 \in 1 .. N /\ (n + 1) - 1 = n /\ f[n] \in X[n]
    BY <1>2
  <2> QED BY <2>1
<1> HIDE DEF T
<1>3. N \in T
  BY <1>1, <1>2, SetInduction
<1> QED BY <1>3 DEF T

(* What follows every iteration stays in X: there is an iteration.         *)
LEMMA Recursion ==
    ASSUME NEW N \in Nat, NEW X, NEW x \in X, NEW F, IsStep(F, N, X), NEW upTo,
           \A f : IsIteration(f, F, N, X, x) => Follows(upTo, F, N, X)
    PROVE  upTo[N] \in X
BY Iterates, Stays

(* Engine states of g whose nodes do not wait for a command.               *)
Satisfied(g) == {a \in [Nodes(g) -> SUBSET Nodes(g)] :
                   \A n \in Nodes(g) : a[n] \subseteq g.after[n]}
Mailboxes(g) == {a \in [Nodes(g) -> SUBSET Nodes(g)] :
                   \A n \in Nodes(g) : a[n] \subseteq RouteSources(g, n)}

Engines(g) == [state : [Nodes(g) -> NodeStates \ {"WAITING_FOR_COMMAND"}],
               handed : SUBSET Nodes(g), after : Satisfied(g),
               input : Mailboxes(g), loops : SUBSET Nodes(g)]

LEMMA SetStateTyped ==
    ASSUME NEW g, NEW d \in Engines(g), NEW S,
           NEW s \in NodeStates \ {"WAITING_FOR_COMMAND"}
    PROVE  SetState(d, S, s) \in Engines(g)
BY DEF Engines, SetState

LEMMA SetOneTyped ==
    ASSUME NEW g, NEW d \in Engines(g), NEW n \in Nodes(g),
           NEW s \in NodeStates \ {"WAITING_FOR_COMMAND"}
    PROVE  [d EXCEPT !.state[n] = s] \in Engines(g)
BY DEF Engines


----------------------------------------------------------------------------
(* What every step of a handoff or a failure keeps *)

(* Skipping goes through open nodes alone.                                 *)
Open(g, d) == {n \in Nodes(g) : d.state[n] \in {"PENDING", "READY"}}
Skips(g, d) == {SetState(d, T, "SKIPPED") : T \in SUBSET Open(g, d)}

(* What is skipped with S: besides S only nodes that no predecessor can    *)
(* reach any more.                                                         *)
Cascades(g, d, S) ==
    {T \in SUBSET Open(g, d) :
       \A n \in T : \/ n \in S
                    \/ /\ Predecessors(g, n) \cap T # {}
                       /\ \A m \in Predecessors(g, n) : m \in T \/ d.state[m] \in Unavailable}

LEMMA SkipCascades ==
    ASSUME NEW g, IsGraph(g), NEW d, NEW S \in SUBSET Open(g, d)
    PROVE  \E T \in Cascades(g, d, S) : SkipWithDependents(g, d, S) = SetState(d, T, "SKIPPED")
<1> DEFINE gone(m, T) == m \in T \/ d.state[m] \in Unavailable
           open == {n \in Nodes(g) : d.state[n] \in {"PENDING", "READY"}}
           X == Cascades(g, d, S)
           N == g.size
           Step(T) == T \cup {n \in open : /\ Predecessors(g, n) \cap T # {}
                                           /\ \A m \in Predecessors(g, n) : gone(m, T)}
           F == [i \in 1 .. N |-> [T \in X |-> Step(T)]]
           Body(h) == [i \in 0 .. N |-> IF i = 0 THEN S ELSE Step(h[i - 1])]
           upTo == CHOOSE h : h = Body(h)
<1>1. N \in Nat /\ S \in X
  BY DEF IsGraph, Cascades
<1>2. IsStep(F, N, X)
  <2>1. open = Open(g, d)
    BY DEF Open
  <2>2. \A T \in X : Step(T) \in X
    BY <2>1 DEF Cascades
  <2> QED BY <2>2 DEF IsStep
<1>3. SkipWithDependents(g, d, S) = SetState(d, upTo[N], "SKIPPED")
  BY DEF SkipWithDependents, Closure
<1> HIDE DEF Step, X, N
<1>4. ASSUME NEW k, IsIteration(k, F, N, X, S) PROVE Follows(upTo, F, N, X)
  <2>1. k = Body(k)
    <3> HIDE DEF F
    <3>1. \A i \in 1 .. N : F[i][k[i - 1]] = Step(k[i - 1])
      BY <1>1, <1>4, IterationUnfolds DEF F
    <3> QED BY <1>1, <1>4, <3>1, IterationUnfolds
  <2>2. upTo = Body(upTo)
    <3> HIDE DEF Body
    <3> QED BY <2>1
  <2> HIDE DEF upTo
  <2> QED BY <1>1, <2>2 DEF Follows
<1> HIDE DEF F, upTo
<1>5. upTo[N] \in X
  BY <1>1, <1>2, <1>4, Recursion
<1> QED BY <1>3, <1>5 DEF X

LEMMA SkipsOpen ==
    ASSUME NEW g, IsGraph(g), NEW d, NEW S \in SUBSET Open(g, d)
    PROVE  SkipWithDependents(g, d, S) \in Skips(g, d)
BY SkipCascades DEF Cascades, Skips

LEMMA SkippingOpen ==
    ASSUME NEW g, IsGraph(g), NEW d
    PROVE  /\ \A f : SkipDependentsOfFailed(g, d, f) \in Skips(g, d)
           /\ \A n \in Nodes(g) : SkipUntakenBranch(g, d, n) \in Skips(g, d) \cup {d}
<1>1. ASSUME NEW f PROVE SkipDependentsOfFailed(g, d, f) \in Skips(g, d)
  <2> DEFINE plain(n) == /\ \/ f \in g.after[n]
                            \/ \E r \in RoutesTo(g, n) : r.from = f /\ r.port # FailurePort
                         /\ n \notin Receivers(g, f, FailurePort)
                         /\ f \notin d.input[n]
             S == {n \in Nodes(g) : /\ d.state[n] \in {"PENDING", "READY"}
                                    /\ plain(n)
                                    /\ \A m \in Predecessors(g, n) : d.state[m] \in Unavailable}
  <2>1. SkipDependentsOfFailed(g, d, f) = SkipWithDependents(g, d, S)
    BY DEF SkipDependentsOfFailed
  <2>2. S \in SUBSET Open(g, d)
    BY DEF Open
  <2> HIDE DEF S
  <2> QED BY <2>1, <2>2, SkipsOpen
<1>2. ASSUME NEW n \in Nodes(g) PROVE SkipUntakenBranch(g, d, n) \in Skips(g, d) \cup {d}
  <2>1. d.state[n] = "PENDING" => SkipWithDependents(g, d, {n}) \in Skips(g, d)
    BY SkipsOpen DEF Open
  <2> QED BY <2>1 DEF SkipUntakenBranch
<1> QED BY <1>1, <1>2

(* Pending nodes all of whose dependencies are settled, and what one pass  *)
(* of ReconcileSettled makes of them.                                      *)
Stuck(g, d) == {n \in Nodes(g) : /\ d.state[n] = "PENDING"
                                 /\ g.after[n] # {}
                                 /\ \A m \in g.after[n] : d.state[m] \in Settled}
Settle(g, d) ==
    [d EXCEPT !.state = [n \in Nodes(g) |-> IF n \notin Stuck(g, d) THEN @[n]
                                            ELSE IF Promotable(g, d, n) THEN "READY"
                                            ELSE "SKIPPED"]]

(* The nodes that a route leads to from f are iterated if f is a loop      *)
(* gateway.                                                                *)
MayWake(g, f, n) == LoopGateway(g, f) => n \in Iterated(g)

(* A set of engines that the steps of a handoff or a failure keep, and one *)
(* that keeps them whoever failed.                                         *)
Supple(g, X) ==
    /\ X \subseteq Engines(g)
    /\ \A d \in X :
          /\ Settle(g, d) \in X
          /\ \A n \in Nodes(g) :
                /\ TryPromote(g, d, n) \in X
                /\ SkipUntakenBranch(g, TryPromote(g, d, n), n) \in X
                /\ WakeLoopSource(g, d, n) \in X
                /\ \A f : MayWake(g, f, n) => WakeLoopGatewayReceiver(g, d, f, n) \in X
SkipsFor(g, X, f) == \A d \in X : SkipDependentsOfFailed(g, d, f) \in X
Robust(g, X) == Supple(g, X) /\ \A f : SkipsFor(g, X, f)

(* A set that does not care which open nodes are skipped.                  *)
LEMMA SkippingRobust ==
    ASSUME NEW g, IsGraph(g), NEW X, X \subseteq Engines(g),
           \A d \in X :
              /\ Skips(g, d) \subseteq X
              /\ Settle(g, d) \in X
              /\ \A n \in Nodes(g) :
                    /\ TryPromote(g, d, n) \in X
                    /\ WakeLoopSource(g, d, n) \in X
                    /\ \A f : MayWake(g, f, n) => WakeLoopGatewayReceiver(g, d, f, n) \in X
    PROVE  Robust(g, X)
BY SkippingOpen DEF Robust, Supple, SkipsFor

LEMMA AffectStays ==
    ASSUME NEW g, IsGraph(g), NEW X, Supple(g, X), NEW d \in X, NEW S
    PROVE  Affect(g, d, S) \in X
<1> DEFINE N == g.size
           Step(e, i) == IF i \in S THEN SkipUntakenBranch(g, TryPromote(g, e, i), i) ELSE e
           F == [i \in 1 .. N |-> [e \in X |-> Step(e, i)]]
           Body(h) == [i \in 0 .. N |-> IF i = 0 THEN d ELSE Step(h[i - 1], i)]
           upTo == CHOOSE h : h = Body(h)
<1>1. N \in Nat /\ d \in X
  BY DEF IsGraph
<1>2. IsStep(F, N, X)
  <2>1. ASSUME NEW e \in X, NEW i \in 1 .. N PROVE Step(e, i) \in X
    BY DEF Supple, Nodes
  <2> QED BY <2>1 DEF IsStep
<1>3. Affect(g, d, S) = upTo[N]
  BY DEF Affect, ForEach
<1> HIDE DEF Step, N
<1>4. ASSUME NEW k, IsIteration(k, F, N, X, d) PROVE Follows(upTo, F, N, X)
  <2>1. k = Body(k)
    <3> HIDE DEF F
    <3>1. \A i \in 1 .. N : F[i][k[i - 1]] = Step(k[i - 1], i)
      BY <1>1, <1>4, IterationUnfolds DEF F
    <3> QED BY <1>1, <1>4, <3>1, IterationUnfolds
  <2>2. upTo = Body(upTo)
    <3> HIDE DEF Body
    <3> QED BY <2>1
  <2> HIDE DEF upTo
  <2> QED BY <1>1, <2>2 DEF Follows
<1> HIDE DEF F, upTo
<1> QED BY <1>1, <1>2, <1>3, <1>4, Recursion

LEMMA ReconcileSettledStays ==
    ASSUME NEW g, IsGraph(g), NEW X, Supple(g, X), NEW d \in X
    PROVE  ReconcileSettled(g, d) \in X
<1> DEFINE N == g.size
           F == [i \in 1 .. N |-> [e \in X |-> Settle(g, e)]]
           Body(h) == [i \in 0 .. N |-> IF i = 0 THEN d ELSE Settle(g, h[i - 1])]
           upTo == CHOOSE h : h = Body(h)
<1>1. N \in Nat /\ d \in X
  BY DEF IsGraph
<1>2. IsStep(F, N, X)
  BY DEF IsStep, Supple
<1>3. ReconcileSettled(g, d) = upTo[N]
  BY DEF ReconcileSettled, Closure, Settle, Stuck
<1> HIDE DEF N
<1>4. ASSUME NEW k, IsIteration(k, F, N, X, d) PROVE Follows(upTo, F, N, X)
  <2>1. k = Body(k)
    <3> HIDE DEF F
    <3>1. \A i \in 1 .. N : F[i][k[i - 1]] = Settle(g, k[i - 1])
      BY <1>1, <1>4, IterationUnfolds DEF F
    <3> QED BY <1>1, <1>4, <3>1, IterationUnfolds
  <2>2. upTo = Body(upTo)
    <3> HIDE DEF Body
    <3> QED BY <2>1
  <2> HIDE DEF upTo
  <2> QED BY <1>1, <2>2 DEF Follows
<1> HIDE DEF F, upTo
<1> QED BY <1>1, <1>2, <1>3, <1>4, Recursion

LEMMA WakeLoopSourcesStay ==
    ASSUME NEW g, IsGraph(g), NEW X, Supple(g, X), NEW d \in X, NEW S
    PROVE  WakeLoopSources(g, d, S) \in X
<1> DEFINE N == g.size
           Step(e, i) == IF i \in S THEN WakeLoopSource(g, e, i) ELSE e
           F == [i \in 1 .. N |-> [e \in X |-> Step(e, i)]]
           Body(h) == [i \in 0 .. N |-> IF i = 0 THEN d ELSE Step(h[i - 1], i)]
           upTo == CHOOSE h : h = Body(h)
<1>1. N \in Nat /\ d \in X
  BY DEF IsGraph
<1>2. IsStep(F, N, X)
  BY DEF IsStep, Supple, Nodes
<1>3. WakeLoopSources(g, d, S) = upTo[N]
  BY DEF WakeLoopSources, ForEach
<1> HIDE DEF Step, N
<1>4. ASSUME NEW k, IsIteration(k, F, N, X, d) PROVE Follows(upTo, F, N, X)
  <2>1. k = Body(k)
    <3> HIDE DEF F
    <3>1. \A i \in 1 .. N : F[i][k[i - 1]] = Step(k[i - 1], i)
      BY <1>1, <1>4, IterationUnfolds DEF F
    <3> QED BY <1>1, <1>4, <3>1, IterationUnfolds
  <2>2. upTo = Body(upTo)
    <3> HIDE DEF Body
    <3> QED BY <2>1
  <2> HIDE DEF upTo
  <2> QED BY <1>1, <2>2 DEF Follows
<1> HIDE DEF F, upTo
<1> QED BY <1>1, <1>2, <1>3, <1>4, Recursion

LEMMA WakeReceiversStay ==
    ASSUME NEW g, IsGraph(g), NEW X, Supple(g, X), NEW d \in X, NEW f, NEW S,
           \A n \in S : MayWake(g, f, n)
    PROVE  WakeReceivers(g, d, f, S) \in X
<1> DEFINE N == g.size
           Step(e, i) ==
               IF i \in S THEN WakeLoopGatewayReceiver(g, WakeLoopSource(g, e, i), f, i)
                          ELSE e
           F == [i \in 1 .. N |-> [e \in X |-> Step(e, i)]]
           Body(h) == [i \in 0 .. N |-> IF i = 0 THEN d ELSE Step(h[i - 1], i)]
           upTo == CHOOSE h : h = Body(h)
<1>1. N \in Nat /\ d \in X
  BY DEF IsGraph
<1>2. IsStep(F, N, X)
  <2>1. ASSUME NEW e \in X, NEW i \in 1 .. N PROVE Step(e, i) \in X
    <3>1. WakeLoopSource(g, e, i) \in X
      BY DEF Supple, Nodes
    <3>2. i \in S => WakeLoopGatewayReceiver(g, WakeLoopSource(g, e, i), f, i) \in X
      BY <3>1 DEF Supple, Nodes
    <3> QED BY <3>2
  <2> QED BY <2>1 DEF IsStep
<1>3. WakeReceivers(g, d, f, S) = upTo[N]
  BY DEF WakeReceivers, ForEach
<1> HIDE DEF Step, N
<1>4. ASSUME NEW k, IsIteration(k, F, N, X, d) PROVE Follows(upTo, F, N, X)
  <2>1. k = Body(k)
    <3> HIDE DEF F
    <3>1. \A i \in 1 .. N : F[i][k[i - 1]] = Step(k[i - 1], i)
      BY <1>1, <1>4, IterationUnfolds DEF F
    <3> QED BY <1>1, <1>4, <3>1, IterationUnfolds
  <2>2. upTo = Body(upTo)
    <3> HIDE DEF Body
    <3> QED BY <2>1
  <2> HIDE DEF upTo
  <2> QED BY <1>1, <2>2 DEF Follows
<1> HIDE DEF F, upTo
<1> QED BY <1>1, <1>2, <1>3, <1>4, Recursion

(* What is routed to from a loop gateway or an iterated node is iterated.  *)
LEMMA IteratedOn ==
    ASSUME NEW g, IsGraph(g), NEW r \in g.routes, LoopGateway(g, r.from) \/ r.from \in Iterated(g)
    PROVE  r.to \in Iterated(g)
BY DEF Iterated, IsGraph

LEMMA ReceiversRouted ==
    ASSUME NEW g, IsGraph(g), NEW f, NEW port
    PROVE  \A n \in Receivers(g, f, port) :
              n \in Nodes(g) /\ f \in RouteSources(g, n) /\ MayWake(g, f, n)
<1>1. \A n \in Receivers(g, f, port) : \E r \in g.routes : r.from = f /\ r.to = n
  BY DEF Receivers, RoutesFrom
<1>2. \A n \in Receivers(g, f, port) : n \in Nodes(g) /\ f \in RouteSources(g, n)
  BY <1>1 DEF IsGraph, RouteSources, RoutesTo
<1>3. LoopGateway(g, f) => Receivers(g, f, port) \subseteq Iterated(g)
  BY <1>1, IteratedOn
<1> QED BY <1>2, <1>3 DEF MayWake

(* The engine once f has handed off or failed and its dependents have been *)
(* told, before anything follows from it.                                  *)
Sent(g, d, f, port) ==
    [d EXCEPT !.handed = @ \cup {f},
              !.state[f] = IF EndsRun(g, f, port) THEN "FAILED"
                           ELSE IF f \in d.loops THEN "RUNNING"
                           ELSE "COMPLETED"]
Lost(d, f) == [d EXCEPT !.state[f] = "FAILED"]
Told(g, d, f, port, deps) == Deliver(d, f, deps, Receivers(g, f, port))
Satisfies(g, f, port) == IF EndsRun(g, f, port) THEN {} ELSE Dependents(g, f)

LEMMA HandoffStays ==
    ASSUME NEW g, IsGraph(g), NEW X, Supple(g, X), NEW d, NEW f, NEW port, SkipsFor(g, X, f),
           Told(g, Sent(g, d, f, port), f, port, Satisfies(g, f, port)) \in X
    PROVE  \E e \in X : Handoff(g, d, f, port) = ReconcileSettled(g, e)
<1> DEFINE to    == Receivers(g, f, port)
           ends  == EndsRun(g, f, port)
           deps  == Satisfies(g, f, port)
           told  == Deliver(Sent(g, d, f, port), f, deps, to)
           woken == WakeReceivers(g, Affect(g, told, deps \cup to), f, to)
<1>1. told \in X
  BY DEF Told
<1>2. Handoff(g, d, f, port) =
         ReconcileSettled(g, IF ends THEN SkipDependentsOfFailed(g, woken, f) ELSE woken)
  BY DEF Handoff, Sent, Satisfies
<1> HIDE DEF told
<1>3. woken \in X
  BY <1>1, AffectStays, WakeReceiversStay, ReceiversRouted
<1> HIDE DEF woken
<1>4. SkipDependentsOfFailed(g, woken, f) \in X
  BY <1>3 DEF SkipsFor
<1> QED BY <1>2, <1>3, <1>4

LEMMA FailNodeStays ==
    ASSUME NEW g, IsGraph(g), NEW X, Supple(g, X), NEW d, NEW f, SkipsFor(g, X, f),
           Told(g, Lost(d, f), f, FailurePort, Dependents(g, f)) \in X
    PROVE  \E e \in X : FailNode(g, d, f) = ReconcileSettled(g, e)
<1> DEFINE to    == Receivers(g, f, FailurePort)
           deps  == Dependents(g, f)
           told  == Deliver(Lost(d, f), f, deps, to)
           woken == WakeLoopSources(g, Affect(g, told, deps \cup to), to)
<1>1. told \in X
  BY DEF Told
<1>2. FailNode(g, d, f) = ReconcileSettled(g, SkipDependentsOfFailed(g, woken, f))
  BY DEF FailNode, Lost
<1> HIDE DEF told
<1>3. woken \in X
  BY <1>1, AffectStays, WakeLoopSourcesStay
<1> HIDE DEF woken
<1>4. SkipDependentsOfFailed(g, woken, f) \in X
  BY <1>3 DEF SkipsFor
<1> QED BY <1>2, <1>4

LEMMA PromoteAllStays ==
    ASSUME NEW g, IsGraph(g), NEW X, NEW d \in X, NEW S,
           \A e \in X, n \in Nodes(g) : TryPromote(g, e, n) \in X
    PROVE  PromoteAll(g, d, S) \in X
<1> DEFINE N == g.size
           Step(e, i) == IF i \in S THEN TryPromote(g, e, i) ELSE e
           F == [i \in 1 .. N |-> [e \in X |-> Step(e, i)]]
           Body(h) == [i \in 0 .. N |-> IF i = 0 THEN d ELSE Step(h[i - 1], i)]
           upTo == CHOOSE h : h = Body(h)
<1>1. N \in Nat /\ d \in X
  BY DEF IsGraph
<1>2. IsStep(F, N, X)
  BY DEF IsStep, Nodes
<1>3. PromoteAll(g, d, S) = upTo[N]
  BY DEF PromoteAll, ForEach
<1> HIDE DEF Step, N
<1>4. ASSUME NEW k, IsIteration(k, F, N, X, d) PROVE Follows(upTo, F, N, X)
  <2>1. k = Body(k)
    <3> HIDE DEF F
    <3>1. \A i \in 1 .. N : F[i][k[i - 1]] = Step(k[i - 1], i)
      BY <1>1, <1>4, IterationUnfolds DEF F
    <3> QED BY <1>1, <1>4, <3>1, IterationUnfolds
  <2>2. upTo = Body(upTo)
    <3> HIDE DEF Body
    <3> QED BY <2>1
  <2> HIDE DEF upTo
  <2> QED BY <1>1, <2>2 DEF Follows
<1> HIDE DEF F, upTo
<1> QED BY <1>1, <1>2, <1>3, <1>4, Recursion

----------------------------------------------------------------------------
(* What grows *)

LEMMA NodesFinite ==
    ASSUME NEW g, IsGraph(g)
    PROVE  IsFiniteSet(Nodes(g)) /\ Cardinality(Nodes(g)) = g.size
<1>1. g.size \in Nat
  BY DEF IsGraph
<1>2. IF 1 > g.size THEN Cardinality(1 .. g.size) = 0
      ELSE Cardinality(1 .. g.size) = g.size - 1 + 1
  BY <1>1, FS_Interval
<1>3. IsFiniteSet(1 .. g.size)
  BY <1>1, FS_Interval
<1>4. Cardinality(1 .. g.size) = g.size
  BY <1>1, <1>2
<1> QED BY <1>3, <1>4 DEF Nodes

(* Sets of nodes that only grow have grown enough after one step per node. *)
LEMMA GrowthEnds ==
    ASSUME NEW g, IsGraph(g), NEW F \in [SUBSET Nodes(g) -> SUBSET Nodes(g)],
           \A T \in SUBSET Nodes(g) : T \subseteq F[T],
           NEW f, f[0] \in SUBSET Nodes(g),
           \A i \in 1 .. g.size : f[i - 1] \in SUBSET Nodes(g) => f[i] = F[f[i - 1]]
    PROVE  /\ f[g.size] \in SUBSET Nodes(g)
           /\ f[0] \subseteq f[g.size]
           /\ F[f[g.size]] = f[g.size]
<1> DEFINE N == g.size
           B == {i \in Nat : i <= N => /\ f[i] \in SUBSET Nodes(g)
                                       /\ f[0] \subseteq f[i]
                                       /\ F[f[i]] = f[i] \/ Cardinality(f[i]) >= i}
<1>1. N \in Nat /\ IsFiniteSet(Nodes(g)) /\ Cardinality(Nodes(g)) = N
  BY NodesFinite DEF IsGraph
<1>2. \A T \in SUBSET Nodes(g) : IsFiniteSet(T) /\ Cardinality(T) \in Nat /\ Cardinality(T) <= N
  BY <1>1, FS_Subset, FS_CardinalityType
<1>3. 0 \in B
  BY <1>2
<1>4. ASSUME NEW i \in Nat, i \in B PROVE i + 1 \in B
  <2> SUFFICES ASSUME i + 1 <= N
               PROVE  /\ f[i + 1] \in SUBSET Nodes(g)
                      /\ f[0] \subseteq f[i + 1]
                      /\ F[f[i + 1]] = f[i + 1] \/ Cardinality(f[i + 1]) >= i + 1
    OBVIOUS
  <2> DEFINE T == f[i]
             U == f[i + 1]
  <2>1. i + 1 \in 1 .. N /\ (i + 1) - 1 = i
    BY <1>1
  <2>2. /\ T \in SUBSET Nodes(g) /\ f[0] \subseteq T
        /\ F[T] = T \/ Cardinality(T) >= i
        /\ U = F[T]
    BY <1>1, <1>4, <2>1
  <2> HIDE DEF T, U
  <2>3. U \in SUBSET Nodes(g) /\ T \subseteq U
    BY <2>2
  <2>4. ASSUME U # T, Cardinality(T) >= i PROVE Cardinality(U) >= i + 1
    <3>1. Cardinality(T) <= Cardinality(U) /\ Cardinality(T) # Cardinality(U)
      BY <1>2, <2>3, <2>4, FS_Subset
    <3>2. Cardinality(T) \in Nat /\ Cardinality(U) \in Nat
      BY <1>2, <2>2, <2>3
    <3> QED BY <2>4, <3>1, <3>2
  <2>5. F[U] = U \/ Cardinality(U) >= i + 1
    BY <2>2, <2>4
  <2> QED BY <2>2, <2>3, <2>5 DEF U
<1> HIDE DEF B
<1>5. N \in B
  BY <1>1, <1>3, <1>4, SetInduction
<1>6. /\ f[N] \in SUBSET Nodes(g) /\ f[0] \subseteq f[N]
      /\ F[f[N]] = f[N] \/ Cardinality(f[N]) >= N
  BY <1>1, <1>5 DEF B
<1>7. ASSUME Cardinality(f[N]) >= N PROVE F[f[N]] = f[N]
  <2>1. Cardinality(f[N]) = Cardinality(Nodes(g))
    BY <1>1, <1>2, <1>6, <1>7
  <2>2. f[N] = Nodes(g)
    BY <1>1, <1>6, <2>1, FS_Subset
  <2>3. F[Nodes(g)] = Nodes(g)
    <3>1. Nodes(g) \in SUBSET Nodes(g)
      OBVIOUS
    <3>2. F[Nodes(g)] \in SUBSET Nodes(g) /\ Nodes(g) \subseteq F[Nodes(g)]
      BY <3>1
    <3> QED BY <3>2
  <2> QED BY <2>2, <2>3
<1> QED BY <1>6, <1>7

----------------------------------------------------------------------------
(* What opens again *)


(* Nodes that come after some node, or that something is routed to.        *)
Linked(g) == {n \in Nodes(g) : g.after[n] # {} \/ RoutesTo(g, n) # {}}

(* The nodes a loop iteration starts afresh are routed to, and iterated.   *)
LEMMA BodyIterated ==
    ASSUME NEW g, IsGraph(g), NEW loop, NEW entry \in Iterated(g)
    PROVE  LoopBody(g, loop, entry) \in SUBSET (Linked(g) \cap Iterated(g))
<1> DEFINE beyond(S) == {r.to : r \in {q \in g.routes : q.from \in S}} \ {loop}
           X == SUBSET (Linked(g) \cap Iterated(g))
           N == g.size
           first == beyond({entry})
           Step(S) == S \cup beyond(S)
           F == [i \in 1 .. N |-> [S \in X |-> Step(S)]]
           Body(h) == [i \in 0 .. N |-> IF i = 0 THEN first ELSE Step(h[i - 1])]
           upTo == CHOOSE h : h = Body(h)
<1>0. \A S \in SUBSET Iterated(g) : beyond(S) \in X
  <2>1. \A r \in g.routes : r.to \in Linked(g)
    BY DEF IsGraph, Linked, RoutesTo
  <2> QED BY <2>1, IteratedOn
<1>1. N \in Nat /\ first \in X
  BY <1>0 DEF IsGraph
<1>2. IsStep(F, N, X)
  <2>1. \A S \in X : Step(S) \in X
    BY <1>0
  <2> QED BY <2>1 DEF IsStep
<1>3. LoopBody(g, loop, entry) = upTo[N]
  BY DEF LoopBody, Closure
<1> HIDE DEF Step, X, N, first
<1>4. ASSUME NEW k, IsIteration(k, F, N, X, first) PROVE Follows(upTo, F, N, X)
  <2>1. k = Body(k)
    <3> HIDE DEF F
    <3>1. \A i \in 1 .. N : F[i][k[i - 1]] = Step(k[i - 1])
      BY <1>1, <1>4, IterationUnfolds DEF F
    <3> QED BY <1>1, <1>4, <3>1, IterationUnfolds
  <2>2. upTo = Body(upTo)
    <3> HIDE DEF Body
    <3> QED BY <2>1
  <2> HIDE DEF upTo
  <2> QED BY <1>1, <2>2 DEF Follows
<1> HIDE DEF F, upTo
<1>5. upTo[N] \in X
  BY <1>1, <1>2, <1>4, Recursion
<1> QED BY <1>3, <1>5 DEF X, first

(* What opens with n stays in a set that has the skipped nodes waiting for *)
(* n and the skipped successors of its own.                                *)
LEMMA SkippedWithin ==
    ASSUME NEW g, IsGraph(g), NEW d, NEW n, NEW M,
           \A m \in Nodes(g) : d.state[m] = "SKIPPED" /\ n \in Predecessors(g, m) => m \in M,
           \A k \in M : \A m \in Successors(g, k) : d.state[m] = "SKIPPED" => m \in M
    PROVE  SkippedBy(g, d, n) \in SUBSET M
<1> DEFINE skipped(S) == {m \in S : d.state[m] = "SKIPPED"}
           dependents == {m \in Nodes(g) : \/ n \in g.after[m]
                                           \/ \E r \in RoutesTo(g, m) : r.from = n /\ r.port # FailurePort}
           X == SUBSET M
           N == g.size
           first == skipped(dependents)
           Step(S) == S \cup skipped(UNION {Successors(g, m) : m \in S})
           F == [i \in 1 .. N |-> [S \in X |-> Step(S)]]
           Body(h) == [i \in 0 .. N |-> IF i = 0 THEN first ELSE Step(h[i - 1])]
           upTo == CHOOSE h : h = Body(h)
<1>0. \A S \in X : skipped(UNION {Successors(g, m) : m \in S}) \in X
  OBVIOUS
<1>1. N \in Nat /\ first \in X
  BY DEF IsGraph, Predecessors, RouteSources
<1>2. IsStep(F, N, X)
  <2>1. \A S \in X : Step(S) \in X
    BY <1>0
  <2> QED BY <2>1 DEF IsStep
<1>3. SkippedBy(g, d, n) = upTo[N]
  BY DEF SkippedBy, Closure
<1> HIDE DEF Step, X, N, first
<1>4. ASSUME NEW k, IsIteration(k, F, N, X, first) PROVE Follows(upTo, F, N, X)
  <2>1. k = Body(k)
    <3> HIDE DEF F
    <3>1. \A i \in 1 .. N : F[i][k[i - 1]] = Step(k[i - 1])
      BY <1>1, <1>4, IterationUnfolds DEF F
    <3> QED BY <1>1, <1>4, <3>1, IterationUnfolds
  <2>2. upTo = Body(upTo)
    <3> HIDE DEF Body
    <3> QED BY <2>1
  <2> HIDE DEF upTo
  <2> QED BY <1>1, <2>2 DEF Follows
<1> HIDE DEF F, upTo
<1>5. upTo[N] \in X
  BY <1>1, <1>2, <1>4, Recursion
<1> QED BY <1>3, <1>5 DEF X, first

LEMMA ReopenedSkipped ==
    ASSUME NEW g, IsGraph(g), NEW d, NEW n
    PROVE  SkippedBy(g, d, n) \in SUBSET {m \in Linked(g) : d.state[m] = "SKIPPED"}
<1> DEFINE M == {m \in Linked(g) : d.state[m] = "SKIPPED"}
<1>1. \A m \in Nodes(g) : Predecessors(g, m) # {} => m \in Linked(g)
  BY DEF Predecessors, RouteSources, Linked
<1>2. \A m \in Nodes(g) : d.state[m] = "SKIPPED" /\ n \in Predecessors(g, m) => m \in M
  BY <1>1
<1>3. \A k \in M : \A m \in Successors(g, k) : d.state[m] = "SKIPPED" => m \in M
  BY <1>1 DEF Successors
<1> HIDE DEF M
<1>4. SkippedBy(g, d, n) \in SUBSET M
  BY <1>2, <1>3, SkippedWithin
<1> QED BY <1>4 DEF M

(* Skipped nodes that were waiting for n, or come after skipped nodes that *)
(* open again, open again with them.                                       *)
LEMMA SkippedFollow ==
    ASSUME NEW g, IsGraph(g), NEW d, NEW n
    PROVE  \A m \in Nodes(g) :
              /\ d.state[m] = "SKIPPED"
              /\ n \in g.after[m] \/ Predecessors(g, m) \cap SkippedBy(g, d, n) # {}
              => m \in SkippedBy(g, d, n)
<1> DEFINE skipped(S) == {m \in S : d.state[m] = "SKIPPED"}
           dependents == {m \in Nodes(g) : \/ n \in g.after[m]
                                           \/ \E r \in RoutesTo(g, m) : r.from = n /\ r.port # FailurePort}
           X == SUBSET Nodes(g)
           N == g.size
           first == skipped(dependents)
           Step(S) == S \cup skipped(UNION {Successors(g, m) : m \in S})
           G == [S \in X |-> Step(S)]
           F == [i \in 1 .. N |-> G]
           Body(h) == [i \in 0 .. N |-> IF i = 0 THEN first ELSE Step(h[i - 1])]
           grown == CHOOSE h : h = Body(h)
<1>1. N \in Nat /\ first \in X
  BY DEF IsGraph
<1>2. G \in [X -> X] /\ \A S \in X : S \subseteq G[S]
  <2>1. \A S \in X : Step(S) \in X
    BY DEF Successors
  <2> QED BY <2>1
<1>3. SkippedBy(g, d, n) = grown[N]
  BY DEF SkippedBy, Closure
<1>4. \A m \in Nodes(g) : d.state[m] = "SKIPPED" =>
         /\ n \in g.after[m] => m \in first
         /\ \A S : Predecessors(g, m) \cap S # {} => m \in Step(S)
  BY DEF Successors
<1>5. \A S \in X : G[S] = Step(S)
  OBVIOUS
<1> HIDE DEF Step, X, N, first, G
<1>6. PICK f : IsIteration(f, F, N, X, first)
  <2>1. IsStep(F, N, X)
    BY <1>2 DEF IsStep
  <2> HIDE DEF F
  <2> QED BY <1>1, <2>1, Iterates
<1>7. f = Body(f)
  <2>1. \A i \in 1 .. N : F[i] = G
    OBVIOUS
  <2> HIDE DEF F
  <2>2. \A i \in 1 .. N : F[i][f[i - 1]] = Step(f[i - 1])
    BY <1>1, <1>5, <1>6, <2>1, IterationUnfolds
  <2> QED BY <1>1, <1>6, <2>2, IterationUnfolds
<1>8. grown = Body(grown)
  <2> HIDE DEF Body
  <2> QED BY <1>7
<1> HIDE DEF grown, F
<1>9. grown[0] = first /\ \A i \in 1 .. N : grown[i] = Step(grown[i - 1])
  BY <1>1, <1>8
<1>10. /\ grown[N] \in SUBSET Nodes(g) /\ grown[0] \subseteq grown[N]
       /\ G[grown[N]] = grown[N]
  <2>1. G \in [SUBSET Nodes(g) -> SUBSET Nodes(g)]
        /\ \A S \in SUBSET Nodes(g) : S \subseteq G[S]
    BY <1>2 DEF X
  <2>2. grown[0] \in SUBSET Nodes(g)
    BY <1>1, <1>9 DEF X
  <2>3. \A i \in 1 .. g.size : grown[i - 1] \in SUBSET Nodes(g) => grown[i] = G[grown[i - 1]]
    BY <1>5, <1>9 DEF X, N
  <2>4. /\ grown[g.size] \in SUBSET Nodes(g) /\ grown[0] \subseteq grown[g.size]
        /\ G[grown[g.size]] = grown[g.size]
    BY <2>1, <2>2, <2>3, GrowthEnds
  <2> QED BY <2>4 DEF N
<1>11. Step(grown[N]) = grown[N] /\ first \subseteq grown[N]
  BY <1>5, <1>9, <1>10 DEF X
<1> QED BY <1>3, <1>4, <1>11

----------------------------------------------------------------------------
(* Engines within bounds *)

(* Engines that keep to the bounds b: besides its loop sources only the    *)
(* nodes of b.running run, besides the linked nodes only those of          *)
(* b.pending are pending, only those of b.again are to hand off although   *)
(* they have, and those of b.done, which no loop gateway iterates, have    *)
(* their results.                                                          *)
Results == {"COMPLETED", "FAILED"}
Within(g, b) ==
    {d \in Engines(g) :
        /\ d.loops = b.loops
        /\ \A n \in Nodes(g) :
              /\ d.state[n] = "RUNNING" => n \in b.loops \cup b.running
              /\ d.state[n] = "PENDING" => n \in Linked(g) \cup b.pending
              /\ n \in d.handed =>
                    /\ d.state[n] \in {"PENDING", "READY"} => n \in b.again
                    /\ d.state[n] = "RUNNING" => n \in b.loops \cup b.again
        /\ \A n \in b.done : /\ n \in Nodes(g) \ Iterated(g)
                              /\ b.result[n] \in Results
                              /\ d.state[n] = b.result[n]}

(* The bounds every engine keeps to, and those of an engine f has left.    *)
Loosest(g, d) == [loops |-> d.loops, running |-> Nodes(g), pending |-> Nodes(g),
                  again |-> Nodes(g), done |-> {}, result |-> <<>>]
Without(b, f) == [loops |-> b.loops, running |-> b.running \ {f}, pending |-> b.pending,
                  again |-> b.again \ {f}, done |-> b.done \ {f}, result |-> b.result]

LEMMA AllWithin ==
    ASSUME NEW g, NEW d \in Engines(g)
    PROVE  d \in Within(g, Loosest(g, d))
BY DEF Within, Loosest, Engines

LEMMA WithinIsEngine ==
    ASSUME NEW g, NEW b
    PROVE  Within(g, b) \subseteq Engines(g)
BY DEF Within

LEMMA LooserWithin ==
    ASSUME NEW g, NEW b, NEW c, NEW d \in Within(g, b), c.loops = b.loops,
           b.running \subseteq c.running, b.pending \subseteq c.pending,
           b.again \subseteq c.again, c.done \subseteq b.done, c.result = b.result
    PROVE  d \in Within(g, c)
BY DEF Within

LEMMA SetStateWithin ==
    ASSUME NEW g, NEW b, NEW d \in Within(g, b), NEW S, NEW s \in Settled,
           S \cap b.done = {}
    PROVE  SetState(d, S, s) \in Within(g, b)
<1>1. s \in NodeStates \ {"WAITING_FOR_COMMAND"} /\ s \notin {"PENDING", "READY", "RUNNING"}
  BY DEF Settled, NodeStates
<1>2. SetState(d, S, s) \in Engines(g)
  BY <1>1, WithinIsEngine, SetStateTyped
<1>3. /\ SetState(d, S, s).loops = d.loops
      /\ SetState(d, S, s).handed = d.handed
      /\ \A n \in Nodes(g) : SetState(d, S, s).state[n] = IF n \in S THEN s ELSE d.state[n]
  BY WithinIsEngine DEF SetState, Engines
<1> HIDE DEF SetState
<1> QED BY <1>1, <1>2, <1>3 DEF Within

(* A pending node may become ready.                                        *)
LEMMA TryPromoteWithin ==
    ASSUME NEW g, NEW b, NEW d \in Within(g, b), NEW n \in Nodes(g)
    PROVE  TryPromote(g, d, n) \in Within(g, b)
<1> DEFINE e == [d EXCEPT !.state[n] = "READY"]
<1>1. e \in Engines(g)
  BY WithinIsEngine, SetOneTyped DEF NodeStates
<1>2. /\ e.loops = d.loops /\ e.handed = d.handed
      /\ \A m \in Nodes(g) : e.state[m] = IF m = n THEN "READY" ELSE d.state[m]
  BY WithinIsEngine DEF Engines
<1> HIDE DEF e
<1>3. d.state[n] = "PENDING" => e \in Within(g, b)
  BY <1>1, <1>2 DEF Within, Results
<1> QED BY <1>3 DEF TryPromote, e

LEMMA SkipsWithin ==
    ASSUME NEW g, NEW b, NEW d \in Within(g, b)
    PROVE  Skips(g, d) \subseteq Within(g, b)
<1>1. ASSUME NEW T \in SUBSET Open(g, d) PROVE SetState(d, T, "SKIPPED") \in Within(g, b)
  <2>1. T \cap b.done = {} /\ "SKIPPED" \in Settled
    BY DEF Open, Within, Results, Settled
  <2> QED BY <2>1, SetStateWithin
<1> QED BY <1>1 DEF Skips

LEMMA SkipWithin ==
    ASSUME NEW g, NEW b, IsGraph(g), NEW d \in Within(g, b)
    PROVE  \A f : SkipDependentsOfFailed(g, d, f) \in Within(g, b)
BY SkipsWithin, SkippingOpen

LEMMA SettleWithin ==
    ASSUME NEW g, NEW b, NEW d \in Within(g, b)
    PROVE  Settle(g, d) \in Within(g, b)
<1> DEFINE e == Settle(g, d)
<1>1. e \in Engines(g)
  BY WithinIsEngine DEF Engines, NodeStates, Settle
<1>2. /\ e.loops = d.loops /\ e.handed = d.handed
      /\ \A n \in Nodes(g) : \/ e.state[n] = d.state[n]
                             \/ d.state[n] = "PENDING" /\ e.state[n] \in {"READY", "SKIPPED"}
  BY WithinIsEngine DEF Engines, Settle, Stuck
<1> HIDE DEF e
<1>3. e \in Within(g, b)
  BY <1>1, <1>2 DEF Within, Results
<1> QED BY <1>3 DEF e

(* Nodes that are opened are to hand off again.                            *)
LEMMA OpenWithin ==
    ASSUME NEW g, NEW b, NEW d \in Within(g, b), NEW S \in SUBSET Linked(g),
           S \cap b.done = {}, NEW after \in Satisfied(g), NEW input \in Mailboxes(g)
    PROVE  [SetState(d, S, "PENDING") EXCEPT
              !.handed = @ \ S, !.after = after, !.input = input] \in Within(g, b)
<1> DEFINE e == [SetState(d, S, "PENDING") EXCEPT
                   !.handed = @ \ S, !.after = after, !.input = input]
<1>0. d \in Engines(g)
  BY WithinIsEngine
<1>1. e \in Engines(g)
  <2>1. SetState(d, S, "PENDING") \in Engines(g)
    BY <1>0, SetStateTyped DEF NodeStates
  <2> QED BY <2>1 DEF Engines
<1>2. /\ e.loops = d.loops /\ e.handed = d.handed \ S
      /\ \A n \in Nodes(g) : e.state[n] = IF n \in S THEN "PENDING" ELSE d.state[n]
  BY WithinIsEngine DEF SetState, Engines
<1> HIDE DEF e
<1>3. e \in Within(g, b)
  BY <1>1, <1>2 DEF Within
<1> QED BY <1>3 DEF e

LEMMA ReopenSkippedWithin ==
    ASSUME NEW g, NEW b, IsGraph(g), NEW d \in Within(g, b), NEW n
    PROVE  ReopenSkipped(g, d, n) \in Within(g, b)
<1>1. ASSUME NEW open \in SUBSET Linked(g), open \cap b.done = {}
      PROVE  [SetState(d, open, "PENDING") EXCEPT
                !.handed = @ \ open,
                !.input  = [m \in Nodes(g) |-> IF m \in open THEN {} ELSE @[m]]] \in Within(g, b)
  <2> DEFINE e == SetState(d, open, "PENDING")
             input == [m \in Nodes(g) |-> IF m \in open THEN {} ELSE e.input[m]]
  <2>1. e.after \in Satisfied(g) /\ e.input \in Mailboxes(g)
    BY WithinIsEngine DEF SetState, Engines
  <2>2. input \in Mailboxes(g)
    BY <2>1 DEF Mailboxes
  <2>3. [e EXCEPT !.handed = @ \ open, !.input = input] =
           [e EXCEPT !.handed = @ \ open, !.after = e.after, !.input = input]
    BY WithinIsEngine DEF SetState, Engines
  <2> HIDE DEF input
  <2>4. [e EXCEPT !.handed = @ \ open, !.input = input] \in Within(g, b)
    BY <1>1, <2>1, <2>2, <2>3, OpenWithin
  <2> QED BY <2>4 DEF input, e
<1>2. SkippedBy(g, d, n) \in SUBSET Linked(g) /\ SkippedBy(g, d, n) \cap b.done = {}
  <2>1. SkippedBy(g, d, n) \in SUBSET {m \in Linked(g) : d.state[m] = "SKIPPED"}
    BY ReopenedSkipped
  <2>2. \A m \in b.done : d.state[m] # "SKIPPED"
    BY DEF Within, Results
  <2> QED BY <2>1, <2>2
<1> QED BY <1>1, <1>2 DEF ReopenSkipped

LEMMA WakingWithin ==
    ASSUME NEW g, NEW b, IsGraph(g), NEW d \in Within(g, b), NEW n \in Nodes(g), NEW f
    PROVE  /\ WakeLoopSource(g, d, n) \in Within(g, b)
           /\ MayWake(g, f, n) =>
                 WakeLoopGatewayReceiver(g, d, f, n) \in Within(g, b)
<1>0. ASSUME NEW e \in Within(g, b), n \notin b.done
      PROVE  [e EXCEPT !.state[n] = "READY", !.handed = @ \ {n}] \in Within(g, b)
  <2> DEFINE q == [e EXCEPT !.state[n] = "READY", !.handed = @ \ {n}]
  <2>0. e \in Engines(g)
    BY <1>0, WithinIsEngine
  <2>1. q \in Engines(g)
    BY <2>0 DEF Engines, NodeStates
  <2>2. /\ q.loops = e.loops /\ q.handed = e.handed \ {n}
        /\ \A m \in Nodes(g) : q.state[m] = IF m = n THEN "READY" ELSE e.state[m]
    BY <1>0, WithinIsEngine DEF Engines
  <2> HIDE DEF q
  <2>3. q \in Within(g, b)
    BY <1>0, <2>1, <2>2 DEF Within
  <2> QED BY <2>3 DEF q
<1>1. WakeLoopSource(g, d, n) \in Within(g, b)
  <2>1. RunningLoop(d, n) => n \notin b.done
    BY DEF Within, Results, RunningLoop
  <2> QED BY <1>0, <2>1 DEF WakeLoopSource
<1>2. ASSUME NEW body \in SUBSET Linked(g), body \cap b.done = {}
      PROVE  [SetState(d, body, "PENDING") EXCEPT
                !.handed = @ \ body,
                !.after  = [m \in Nodes(g) |-> IF m \in body THEN @[m] \cap {f} ELSE @[m]],
                !.input  = [m \in Nodes(g) |->
                              IF m \notin body THEN @[m]
                              ELSE IF \E r \in RoutesTo(g, m) : r.from = f THEN @[m] \cap {f}
                              ELSE {}]] \in Within(g, b)
  <2> DEFINE e == SetState(d, body, "PENDING")
             after == [m \in Nodes(g) |-> IF m \in body THEN e.after[m] \cap {f} ELSE e.after[m]]
             input == [m \in Nodes(g) |->
                              IF m \notin body THEN e.input[m]
                              ELSE IF \E r \in RoutesTo(g, m) : r.from = f THEN e.input[m] \cap {f}
                              ELSE {}]
  <2>1. e.after \in Satisfied(g) /\ e.input \in Mailboxes(g)
    BY WithinIsEngine DEF SetState, Engines
  <2>2. after \in Satisfied(g)
    BY <2>1 DEF Satisfied
  <2>3. input \in Mailboxes(g)
    BY <2>1 DEF Mailboxes
  <2> HIDE DEF after, input
  <2>4. [e EXCEPT !.handed = @ \ body, !.after = after, !.input = input] \in Within(g, b)
    BY <1>2, <2>2, <2>3, OpenWithin
  <2> QED BY <2>4 DEF after, input, e
<1>3. Iterated(g) \cap b.done = {}
  BY DEF Within
<1>4. n \in Iterated(g) => ResetLoopBody(g, d, f, n) \in Within(g, b)
  <2>1. n \in Iterated(g) => LoopBody(g, f, n) \in SUBSET (Linked(g) \cap Iterated(g))
    BY BodyIterated
  <2> QED BY <1>2, <1>3, <2>1 DEF ResetLoopBody
<1>5. MayWake(g, f, n) =>
         WakeLoopGatewayReceiver(g, d, f, n) \in Within(g, b)
  BY <1>0, <1>3, <1>4 DEF WakeLoopGatewayReceiver, MayWake
<1> QED BY <1>1, <1>5

LEMMA WithinRobust ==
    ASSUME NEW g, NEW b, IsGraph(g)
    PROVE  Robust(g, Within(g, b))
BY WithinIsEngine, SkipsWithin, SettleWithin, TryPromoteWithin, WakingWithin, SkippingRobust

----------------------------------------------------------------------------
(* What settles *)

Pending(g, d) == {n \in Nodes(g) : d.state[n] = "PENDING"}

LEMMA SettleTyped ==
    ASSUME NEW g, NEW d \in Engines(g)
    PROVE  Settle(g, d) \in Engines(g)
BY AllWithin, SettleWithin, WithinIsEngine

(* A pass with nothing stuck changes nothing, and any other leaves fewer   *)
(* nodes pending.                                                          *)
LEMMA SettleProgress ==
    ASSUME NEW g, IsGraph(g), NEW d \in Engines(g)
    PROVE  /\ Cardinality(Pending(g, d)) \in 0 .. g.size
           /\ Stuck(g, d) = {} => Stuck(g, Settle(g, d)) = {}
           /\ Stuck(g, d) # {} =>
                 Cardinality(Pending(g, Settle(g, d))) < Cardinality(Pending(g, d))
<1>1. IsFiniteSet(Nodes(g)) /\ Cardinality(Nodes(g)) = g.size
  BY NodesFinite
<1>2. IsFiniteSet(Pending(g, d)) /\ Cardinality(Pending(g, d)) <= g.size
  BY <1>1, FS_Subset DEF Pending
<1>3. Cardinality(Pending(g, d)) \in 0 .. g.size
  <2>1. g.size \in Nat /\ Cardinality(Pending(g, d)) \in Nat
    BY <1>2, FS_CardinalityType DEF IsGraph
  <2> QED BY <1>2, <2>1
<1>4. \A n \in Nodes(g) :
         Settle(g, d).state[n] = IF n \notin Stuck(g, d) THEN d.state[n]
                                 ELSE IF Promotable(g, d, n) THEN "READY" ELSE "SKIPPED"
  BY DEF Settle, Engines
<1>5. ASSUME Stuck(g, d) = {} PROVE Stuck(g, Settle(g, d)) = {}
  <2>1. \A n \in Nodes(g) : Settle(g, d).state[n] = d.state[n]
    BY <1>4, <1>5
  <2>2. \A n \in Nodes(g) : g.after[n] \subseteq Nodes(g)
    BY DEF IsGraph
  <2>3. Stuck(g, Settle(g, d)) = Stuck(g, d)
    BY <2>1, <2>2 DEF Stuck
  <2> QED BY <1>5, <2>3
<1>6. ASSUME Stuck(g, d) # {}
      PROVE  Cardinality(Pending(g, Settle(g, d))) < Cardinality(Pending(g, d))
  <2>1. Pending(g, Settle(g, d)) \subseteq Pending(g, d)
    BY <1>4 DEF Pending
  <2>2. Pending(g, Settle(g, d)) # Pending(g, d)
    BY <1>4, <1>6 DEF Pending, Stuck
  <2>3. /\ IsFiniteSet(Pending(g, Settle(g, d)))
        /\ Cardinality(Pending(g, Settle(g, d))) <= Cardinality(Pending(g, d))
        /\ Cardinality(Pending(g, Settle(g, d))) # Cardinality(Pending(g, d))
    BY <1>2, <2>1, <2>2, FS_Subset
  <2>4. /\ Cardinality(Pending(g, d)) \in Nat
        /\ Cardinality(Pending(g, Settle(g, d))) \in Nat
    BY <1>2, <2>3, FS_CardinalityType
  <2> QED BY <2>3, <2>4
<1> QED BY <1>3, <1>5, <1>6

(* What settles a graph's engine step by step has settled it after one     *)
(* step per node: a step that settles nothing leaves nothing stuck.        *)
LEMMA SettlesInTime ==
    ASSUME NEW g, IsGraph(g), NEW F,
           \A i \in 1 .. g.size, e \in Engines(g) : F[i][e] = Settle(g, e),
           NEW upTo, Follows(upTo, F, g.size, Engines(g))
    PROVE  Stuck(g, upTo[g.size]) = {}
<1> DEFINE N == g.size
           T == {i \in Nat : i <= N =>
                   /\ upTo[i] \in Engines(g)
                   /\ \/ Stuck(g, upTo[i]) = {}
                      \/ Cardinality(Pending(g, upTo[i])) + i <= N}
<1>1. N \in Nat
  BY DEF IsGraph
<1>2. 0 \in T
  <2>1. upTo[0] \in Engines(g)
    BY DEF Follows
  <2>2. Cardinality(Pending(g, upTo[0])) \in 0 .. N
    BY <2>1, SettleProgress
  <2> QED BY <1>1, <2>1, <2>2
<1>3. ASSUME NEW i \in Nat, i \in T PROVE i + 1 \in T
  <2> SUFFICES ASSUME i + 1 <= N
               PROVE  /\ upTo[i + 1] \in Engines(g)
                      /\ \/ Stuck(g, upTo[i + 1]) = {}
                         \/ Cardinality(Pending(g, upTo[i + 1])) + (i + 1) <= N
    OBVIOUS
  <2> DEFINE e == upTo[i]
  <2>1. e \in Engines(g) /\ (Stuck(g, e) = {} \/ Cardinality(Pending(g, e)) + i <= N)
    BY <1>1, <1>3
  <2>2. i + 1 \in 1 .. N /\ (i + 1) - 1 = i
    BY <1>1
  <2>3. upTo[i + 1] = Settle(g, e)
    BY <2>1, <2>2 DEF Follows
  <2> HIDE DEF e
  <2>4. Settle(g, e) \in Engines(g)
    BY <2>1, SettleTyped
  <2>5. /\ Cardinality(Pending(g, e)) \in 0 .. N
        /\ Cardinality(Pending(g, Settle(g, e))) \in 0 .. N
        /\ Stuck(g, e) = {} => Stuck(g, Settle(g, e)) = {}
        /\ Stuck(g, e) # {} =>
              Cardinality(Pending(g, Settle(g, e))) < Cardinality(Pending(g, e))
    BY <2>1, <2>4, SettleProgress
  <2>6. Stuck(g, e) # {} => Cardinality(Pending(g, Settle(g, e))) + (i + 1) <= N
    BY <1>1, <2>1, <2>5
  <2> QED BY <2>3, <2>4, <2>5, <2>6
<1> HIDE DEF T
<1>4. N \in T
  BY <1>1, <1>2, <1>3, SetInduction
<1>5. /\ upTo[N] \in Engines(g)
      /\ Stuck(g, upTo[N]) = {} \/ Cardinality(Pending(g, upTo[N])) + N <= N
  BY <1>1, <1>4 DEF T
<1>6. ASSUME Stuck(g, upTo[N]) # {} PROVE FALSE
  <2>1. Cardinality(Pending(g, upTo[N])) \in 0 .. N
    BY <1>5, SettleProgress
  <2>2. Cardinality(Pending(g, Settle(g, upTo[N]))) < Cardinality(Pending(g, upTo[N]))
    BY <1>5, <1>6, SettleProgress
  <2>3. Settle(g, upTo[N]) \in Engines(g)
    BY <1>5, SettleTyped
  <2>4. Cardinality(Pending(g, Settle(g, upTo[N]))) \in 0 .. N
    BY <2>3, SettleProgress
  <2> QED BY <1>1, <1>5, <1>6, <2>1, <2>2, <2>4
<1> QED BY <1>6

(* reconcileSettledPendingNodes leaves no node waiting whose dependencies  *)
(* have all settled, in any graph: it starts again while it changed        *)
(* something, and a pass that changes something leaves fewer nodes         *)
(* pending.                                                                *)
THEOREM ReconcileSettledReaches ==
    ASSUME NEW g, IsGraph(g), NEW d \in Engines(g)
    PROVE  \A n \in Nodes(g) :
              ~ /\ ReconcileSettled(g, d).state[n] = "PENDING"
                /\ g.after[n] # {}
                /\ \A m \in g.after[n] : ReconcileSettled(g, d).state[m] \in Settled
<1> DEFINE E == Engines(g)
           N == g.size
           F == [i \in 1 .. N |-> [e \in E |-> Settle(g, e)]]
           Body(h) == [i \in 0 .. N |-> IF i = 0 THEN d ELSE Settle(g, h[i - 1])]
           upTo == CHOOSE h : h = Body(h)
<1>1. N \in Nat /\ d \in E
  BY DEF IsGraph
<1>2. IsStep(F, N, E)
  BY SettleTyped DEF IsStep
<1>3. ReconcileSettled(g, d) = upTo[N]
  BY DEF ReconcileSettled, Closure, Settle, Stuck
<1> HIDE DEF E, N
<1>4. PICK f : IsIteration(f, F, N, E, d)
  BY <1>1, <1>2, Iterates
<1>5. /\ upTo[0] = d
      /\ \A i \in 1 .. N : upTo[i] = Settle(g, upTo[i - 1])
  <2>1. f = Body(f)
    <3> HIDE DEF F
    <3>1. \A i \in 1 .. N : F[i][f[i - 1]] = Settle(g, f[i - 1])
      BY <1>1, <1>4, IterationUnfolds DEF F
    <3> QED BY <1>1, <1>4, <3>1, IterationUnfolds
  <2>2. upTo = Body(upTo)
    <3> HIDE DEF Body
    <3> QED BY <2>1
  <2> HIDE DEF upTo
  <2> QED BY <1>1, <2>2
<1> HIDE DEF upTo
<1>6. \A i \in 1 .. N, e \in E : F[i][e] = Settle(g, e)
  OBVIOUS
<1>7. Follows(upTo, F, N, E)
  BY <1>1, <1>5, <1>6 DEF Follows
<1> HIDE DEF F
<1>8. Stuck(g, upTo[N]) = {}
  BY <1>6, <1>7, SettlesInTime DEF E, N
<1> QED BY <1>3, <1>8 DEF Stuck

(* The same in the terms of the proofs about runs.                         *)
LEMMA ReconcileSettledWithin ==
    ASSUME NEW g, NEW b, IsGraph(g), NEW d \in Within(g, b)
    PROVE  /\ ReconcileSettled(g, d) \in Within(g, b)
           /\ Stuck(g, ReconcileSettled(g, d)) = {}
BY WithinIsEngine, WithinRobust, ReconcileSettledStays, ReconcileSettledReaches
   DEF Stuck, Robust

----------------------------------------------------------------------------
(* What is handed off and what fails *)

(* The engine once f has handed off or failed, with what its dependents    *)
(* and receivers are told.                                                 *)
LEMMA ToldTyped ==
    ASSUME NEW g, IsGraph(g), NEW d \in Engines(g), NEW f \in Nodes(g), NEW port,
           NEW deps \in SUBSET Dependents(g, f)
    PROVE  LET e == Told(g, d, f, port, deps)
           IN  /\ e \in Engines(g)
               /\ e.loops = d.loops /\ e.handed = d.handed /\ e.state = d.state
               /\ \A n \in Nodes(g) :
                     /\ e.after[n] \in {d.after[n], d.after[n] \cup {f}}
                     /\ e.input[n] \in {d.input[n], d.input[n] \cup {f}}
<1> DEFINE to == Receivers(g, f, port)
           after == [n \in DOMAIN d.after |-> IF n \in deps THEN d.after[n] \cup {f} ELSE d.after[n]]
           input == [n \in DOMAIN d.input |-> IF n \in to THEN d.input[n] \cup {f} ELSE d.input[n]]
           e == [d EXCEPT !.after = after, !.input = input]
<1>1. Told(g, d, f, port, deps) = e
  BY DEF Told, Deliver
<1>2. \A n \in to : f \in RouteSources(g, n)
  BY ReceiversRouted
<1> HIDE DEF to
<1>3. after \in Satisfied(g)
  BY DEF Engines, Satisfied, Dependents
<1>4. input \in Mailboxes(g)
  BY <1>2 DEF Engines, Mailboxes
<1>5. \A n \in Nodes(g) : /\ after[n] \in {d.after[n], d.after[n] \cup {f}}
                          /\ input[n] \in {d.input[n], d.input[n] \cup {f}}
  BY DEF Engines, Satisfied, Mailboxes
<1> HIDE DEF after, input
<1>6. /\ e \in Engines(g) /\ e.loops = d.loops /\ e.handed = d.handed /\ e.state = d.state
      /\ e.after = after /\ e.input = input
  BY <1>3, <1>4 DEF Engines
<1> HIDE DEF e
<1> QED BY <1>1, <1>5, <1>6

LEMMA SentTyped ==
    ASSUME NEW g, NEW d \in Engines(g), NEW f \in Nodes(g), NEW port
    PROVE  LET e == Sent(g, d, f, port)
           IN  /\ e \in Engines(g)
               /\ e.loops = d.loops /\ e.handed = d.handed \cup {f}
               /\ e.after = d.after /\ e.input = d.input
               /\ \A n \in Nodes(g) \ {f} : e.state[n] = d.state[n]
               /\ \/ e.state[f] \in Results
                  \/ e.state[f] = "RUNNING" /\ f \in d.loops
<1> DEFINE s == IF EndsRun(g, f, port) THEN "FAILED"
                ELSE IF f \in d.loops THEN "RUNNING"
                ELSE "COMPLETED"
<1>1. s \in NodeStates \ {"WAITING_FOR_COMMAND"} /\ (s \in Results \/ (s = "RUNNING" /\ f \in d.loops))
  BY DEF NodeStates, Results
<1> DEFINE states == [d.state EXCEPT ![f] = s]
<1>2. Sent(g, d, f, port) = [d EXCEPT !.handed = d.handed \cup {f}, !.state = states]
  BY DEF Sent, Engines
<1> HIDE DEF s
<1>3. /\ states \in [Nodes(g) -> NodeStates \ {"WAITING_FOR_COMMAND"}]
      /\ states[f] = s
      /\ \A n \in Nodes(g) \ {f} : states[n] = d.state[n]
  BY <1>1 DEF Engines
<1> HIDE DEF states
<1> DEFINE e == [d EXCEPT !.handed = d.handed \cup {f}, !.state = states]
<1>4. /\ e \in Engines(g)
      /\ e.loops = d.loops /\ e.handed = d.handed \cup {f} /\ e.state = states
      /\ e.after = d.after /\ e.input = d.input
  BY <1>3 DEF Engines
<1> HIDE DEF e
<1>5. Sent(g, d, f, port) = e
  BY <1>2 DEF e
<1> QED BY <1>1, <1>3, <1>4, <1>5

LEMMA LostTyped ==
    ASSUME NEW g, NEW d \in Engines(g), NEW f \in Nodes(g)
    PROVE  LET e == Lost(d, f)
           IN  /\ e \in Engines(g)
               /\ e.loops = d.loops /\ e.handed = d.handed
               /\ e.after = d.after /\ e.input = d.input
               /\ \A n \in Nodes(g) : e.state[n] = IF n = f THEN "FAILED" ELSE d.state[n]
<1>1. "FAILED" \in NodeStates \ {"WAITING_FOR_COMMAND"}
  BY DEF NodeStates
<1> QED BY <1>1 DEF Lost, Engines

LEMMA ToldWithin ==
    ASSUME NEW g, NEW b, IsGraph(g), NEW d \in Within(g, b), NEW f \in Nodes(g), NEW port,
           NEW deps \in SUBSET Dependents(g, f)
    PROVE  Told(g, d, f, port, deps) \in Within(g, b)
<1> DEFINE e == Told(g, d, f, port, deps)
<1>1. e \in Engines(g) /\ e.loops = d.loops /\ e.handed = d.handed /\ e.state = d.state
  BY WithinIsEngine, ToldTyped
<1> HIDE DEF e
<1>2. e \in Within(g, b)
  BY <1>1 DEF Within
<1> QED BY <1>2 DEF e

(* A node that handed off runs no more, unless it is a loop source at      *)
(* rest, and what its handoff settles is settled.                          *)
LEMMA HandoffWithin ==
    ASSUME NEW g, NEW b, IsGraph(g), NEW d \in Within(g, b), NEW f \in Nodes(g), NEW port
    PROVE  /\ Handoff(g, d, f, port) \in Within(g, Without(b, f))
           /\ Stuck(g, Handoff(g, d, f, port)) = {}
<1> DEFINE sent == Sent(g, d, f, port)
           c == Without(b, f)
           woken == Told(g, sent, f, port, Satisfies(g, f, port))
<1>1. sent \in Within(g, c)
  <2>1. d \in Engines(g) /\ d.loops = b.loops
    BY DEF Within
  <2>2. /\ sent \in Engines(g) /\ sent.loops = b.loops /\ sent.handed = d.handed \cup {f}
        /\ \A n \in Nodes(g) \ {f} : sent.state[n] = d.state[n]
        /\ \/ sent.state[f] \in {"FAILED", "COMPLETED"}
           \/ sent.state[f] = "RUNNING" /\ f \in b.loops
    BY <2>1, SentTyped DEF Results
  <2>3. c.loops = b.loops /\ c.running = b.running \ {f} /\ c.pending = b.pending
        /\ c.again = b.again \ {f} /\ c.done = b.done \ {f} /\ c.result = b.result
    BY DEF Without
  <2> HIDE DEF sent, c
  <2> QED BY <2>2, <2>3 DEF Within
<1> HIDE DEF c
<1>2. woken \in Within(g, c)
  BY <1>1, ToldWithin DEF Satisfies
<1>3. PICK e \in Within(g, c) : Handoff(g, d, f, port) = ReconcileSettled(g, e)
  BY <1>2, WithinRobust, HandoffStays DEF Robust
<1> QED BY <1>3, ReconcileSettledWithin DEF c

LEMMA FailNodeWithin ==
    ASSUME NEW g, NEW b, IsGraph(g), NEW d \in Within(g, b), NEW f \in Nodes(g)
    PROVE  /\ FailNode(g, d, f) \in Within(g, Without(b, f))
           /\ Stuck(g, FailNode(g, d, f)) = {}
<1> DEFINE lost == Lost(d, f)
           c == Without(b, f)
<1>1. lost \in Within(g, c)
  <2>1. d \in Engines(g) /\ d.loops = b.loops
    BY DEF Within
  <2>2. /\ lost \in Engines(g) /\ lost.loops = b.loops /\ lost.handed = d.handed
        /\ \A n \in Nodes(g) : lost.state[n] = IF n = f THEN "FAILED" ELSE d.state[n]
    BY <2>1, LostTyped
  <2>3. c.loops = b.loops /\ c.running = b.running \ {f} /\ c.pending = b.pending
        /\ c.again = b.again \ {f} /\ c.done = b.done \ {f} /\ c.result = b.result
    BY DEF Without
  <2> HIDE DEF lost, c
  <2> QED BY <2>2, <2>3 DEF Within
<1> HIDE DEF c
<1>2. Told(g, lost, f, FailurePort, Dependents(g, f)) \in Within(g, c)
  BY <1>1, ToldWithin
<1>3. PICK e \in Within(g, c) : FailNode(g, d, f) = ReconcileSettled(g, e)
  BY <1>2, WithinRobust, FailNodeStays DEF Robust
<1> QED BY <1>3, ReconcileSettledWithin DEF c


LEMMA TryPromoteTyped ==
    ASSUME NEW g, NEW d \in Engines(g), NEW n \in Nodes(g)
    PROVE  TryPromote(g, d, n) \in Engines(g)
BY SetOneTyped DEF TryPromote, NodeStates

LEMMA EnginesStay ==
    ASSUME NEW g, IsGraph(g), NEW d \in Engines(g)
    PROVE  /\ \A n : SkipDependentsOfFailed(g, d, n) \in Engines(g)
           /\ ReconcileSettled(g, d) \in Engines(g)
           /\ \A n : ReopenSkipped(g, d, n) \in Engines(g)
           /\ \A f \in Nodes(g) : FailNode(g, d, f) \in Engines(g)
           /\ \A port : \A f \in Nodes(g) : Handoff(g, d, f, port) \in Engines(g)
<1> DEFINE b == Loosest(g, d)
<1>1. d \in Within(g, b)
  BY AllWithin
<1> HIDE DEF b
<1> QED BY <1>1, WithinIsEngine, SkipWithin, ReconcileSettledWithin, ReopenSkippedWithin,
           FailNodeWithin, HandoffWithin

(* What completed or failed and is not iterated keeps its result, whatever *)
(* happens to the other nodes.                                             *)
LEMMA ResultKept ==
    ASSUME NEW g, IsGraph(g), NEW d \in Engines(g), NEW n \in Nodes(g) \ Iterated(g),
           d.state[n] \in Results
    PROVE  /\ \A f : SkipDependentsOfFailed(g, d, f).state[n] = d.state[n]
           /\ ReconcileSettled(g, d).state[n] = d.state[n]
           /\ \A f : ReopenSkipped(g, d, f).state[n] = d.state[n]
           /\ \A f \in Nodes(g) \ {n} : FailNode(g, d, f).state[n] = d.state[n]
           /\ \A port : \A f \in Nodes(g) \ {n} : Handoff(g, d, f, port).state[n] = d.state[n]
<1> DEFINE b == [Loosest(g, d) EXCEPT !.done = {n}, !.result = d.state]
<1>1. d \in Within(g, b)
  BY AllWithin DEF Within, Loosest
<1>2. b.done = {n} /\ b.result = d.state
  BY DEF Loosest
<1>3. \A f \in Nodes(g) \ {n} : Without(b, f).done = {n} /\ Without(b, f).result = d.state
  BY <1>2 DEF Without
<1> HIDE DEF b
<1>4. \A c : c.done = {n} /\ c.result = d.state
                => \A e \in Within(g, c) : e.state[n] = d.state[n]
  BY DEF Within
<1> QED BY <1>1, <1>2, <1>3, <1>4, SkipWithin, ReconcileSettledWithin, ReopenSkippedWithin,
           FailNodeWithin, HandoffWithin

LEMMA HandoffTyped ==
    ASSUME NEW g, IsGraph(g), NEW d \in Engines(g), NEW f \in Nodes(g), NEW port
    PROVE  Handoff(g, d, f, port) \in Engines(g)
BY EnginesStay

LEMMA FailNodeTyped ==
    ASSUME NEW g, IsGraph(g), NEW d \in Engines(g), NEW f \in Nodes(g)
    PROVE  FailNode(g, d, f) \in Engines(g)
BY EnginesStay

LEMMA ReconcileSettledTyped ==
    ASSUME NEW g, IsGraph(g), NEW d \in Engines(g)
    PROVE  ReconcileSettled(g, d) \in Engines(g)
BY EnginesStay

LEMMA SkipTyped ==
    ASSUME NEW g, IsGraph(g), NEW d \in Engines(g), NEW n
    PROVE  SkipDependentsOfFailed(g, d, n) \in Engines(g)
BY EnginesStay

LEMMA ReopenSkippedTyped ==
    ASSUME NEW g, IsGraph(g), NEW d \in Engines(g), NEW n
    PROVE  ReopenSkipped(g, d, n) \in Engines(g)
BY EnginesStay

(* A new engine runs nothing, and nothing is stuck: no node has settled.   *)
LEMMA NewEngineWithin ==
    ASSUME NEW g, IsGraph(g)
    PROVE  /\ NewEngine(g) \in Within(g, [loops |-> NewEngine(g).loops, running |-> {},
                                          pending |-> {}, again |-> {},
                                          done |-> {}, result |-> <<>>])
           /\ Stuck(g, NewEngine(g)) = {}
           /\ \A n \in Nodes(g) : NewEngine(g).state[n] \in {"PENDING", "READY"}
<1> DEFINE e == NewEngine(g)
<1>1. LoopSources(g) \in SUBSET Nodes(g)
  BY DEF LoopSources
<1>2. e \in Engines(g)
  BY <1>1 DEF NewEngine, Engines, NodeStates, Satisfied, Mailboxes
<1>3. e.handed = {} /\ \A n \in Nodes(g) :
         e.state[n] = IF g.after[n] = {} THEN "READY" ELSE "PENDING"
  BY DEF NewEngine
<1> HIDE DEF e
<1>4. e \in Within(g, [loops |-> e.loops, running |-> {}, pending |-> {}, again |-> {},
                       done |-> {}, result |-> <<>>])
  BY <1>2, <1>3 DEF Within, Linked
<1>5. Stuck(g, e) = {}
  <2>1. \A n \in Nodes(g) : g.after[n] \subseteq Nodes(g)
    BY DEF IsGraph
  <2> QED BY <1>3, <2>1 DEF Stuck, Settled
<1> QED BY <1>3, <1>4, <1>5 DEF e

LEMMA NewEngineTyped ==
    ASSUME NEW g, IsGraph(g)
    PROVE  NewEngine(g) \in Engines(g)
BY NewEngineWithin, WithinIsEngine

(* A round resets every node that waits for a command.                     *)
AnyEngines(g) == [state : [Nodes(g) -> NodeStates],
                  handed : SUBSET Nodes(g), after : Satisfied(g),
                  input : Mailboxes(g), loops : SUBSET Nodes(g)]

LEMMA PromoteAllTyped ==
    ASSUME NEW g, IsGraph(g), NEW d \in Engines(g), NEW S
    PROVE  PromoteAll(g, d, S) \in Engines(g)
BY TryPromoteTyped, PromoteAllStays

(* A node is promoted only from PENDING to READY.                          *)
LEMMA PromoteAllKeeps ==
    ASSUME NEW g, IsGraph(g), NEW d \in Engines(g), NEW S, NEW m \in Nodes(g),
           NEW P, "PENDING" \in P => "READY" \in P, d.state[m] \in P
    PROVE  PromoteAll(g, d, S).state[m] \in P
<1> DEFINE X == {e \in Engines(g) : e.state[m] \in P}
<1>1. ASSUME NEW e \in X, NEW n \in Nodes(g) PROVE TryPromote(g, e, n) \in X
  <2>1. TryPromote(g, e, n) \in Engines(g)
    BY TryPromoteTyped
  <2> QED BY <2>1 DEF TryPromote, Engines
<1>2. d \in X
  OBVIOUS
<1> HIDE DEF X
<1>3. PromoteAll(g, d, S) \in X
  BY <1>1, <1>2, PromoteAllStays
<1> QED BY <1>3 DEF X

(* A round before anything of it is promoted.                              *)
Supplied(d, S, m) == m \notin S /\ m \in d.handed /\ d.state[m] \notin Unavailable
Reset(g, d, S, carried) ==
    [SetState(d, S, "PENDING") EXCEPT
       !.handed = @ \ S,
       !.after  = [n \in Nodes(g) |-> IF n \in S THEN {m \in g.after[n] : Supplied(d, S, m)}
                                      ELSE @[n]],
       !.input  = [n \in Nodes(g) |-> IF n \in S THEN carried[n] ELSE @[n]]]

IsReset(g, d, S, carried, e) ==
    /\ e \in Engines(g) /\ e.loops = d.loops /\ e.handed = d.handed \ S
    /\ ResetForRound(g, d, S, carried) = PromoteAll(g, e, S)
    /\ \A n \in Nodes(g) :
          /\ e.input[n] = IF n \in S THEN carried[n] ELSE d.input[n]
          /\ IF n \in S
             THEN /\ e.state[n] = "PENDING"
                  /\ \A m \in e.after[n] : m \in g.after[n] /\ Supplied(d, S, m)
             ELSE e.state[n] = d.state[n] /\ e.after[n] = d.after[n]

LEMMA ResetTyped ==
    ASSUME NEW g, IsGraph(g), NEW d \in AnyEngines(g), NEW S,
           \A n \in Nodes(g) : d.state[n] = "WAITING_FOR_COMMAND" => n \in S,
           NEW carried \in Mailboxes(g)
    PROVE  IsReset(g, d, S, carried, Reset(g, d, S, carried))
<1> DEFINE state == [n \in DOMAIN d.state |-> IF n \in S THEN "PENDING" ELSE d.state[n]]
           after == [n \in Nodes(g) |-> IF n \in S THEN {m \in g.after[n] : Supplied(d, S, m)}
                                        ELSE d.after[n]]
           input == [n \in Nodes(g) |-> IF n \in S THEN carried[n] ELSE d.input[n]]
           e == Reset(g, d, S, carried)
<1>1. state \in [Nodes(g) -> NodeStates \ {"WAITING_FOR_COMMAND"}]
      /\ \A n \in Nodes(g) : state[n] = IF n \in S THEN "PENDING" ELSE d.state[n]
  BY DEF AnyEngines, NodeStates
<1>2. after \in Satisfied(g)
      /\ \A n \in Nodes(g) :
            IF n \in S THEN after[n] = {m \in g.after[n] : Supplied(d, S, m)}
            ELSE after[n] = d.after[n]
  BY DEF AnyEngines, Satisfied, IsGraph
<1>3. input \in Mailboxes(g)
      /\ \A n \in Nodes(g) : input[n] = IF n \in S THEN carried[n] ELSE d.input[n]
  BY DEF AnyEngines, Mailboxes
<1>4. e = [d EXCEPT !.state = state, !.handed = @ \ S, !.after = after, !.input = input]
  BY DEF Reset, SetState, AnyEngines
<1>5. ResetForRound(g, d, S, carried) = PromoteAll(g, e, S)
  BY DEF ResetForRound, Reset, Supplied
<1> HIDE DEF state, after, input, e
<1>6. /\ e \in Engines(g) /\ e.loops = d.loops /\ e.handed = d.handed \ S
      /\ e.state = state /\ e.after = after /\ e.input = input
  BY <1>1, <1>2, <1>3, <1>4 DEF AnyEngines, Engines
<1>7. \A n \in Nodes(g) :
         /\ e.input[n] = IF n \in S THEN carried[n] ELSE d.input[n]
         /\ IF n \in S
            THEN /\ e.state[n] = "PENDING"
                 /\ \A m \in e.after[n] : m \in g.after[n] /\ Supplied(d, S, m)
            ELSE e.state[n] = d.state[n] /\ e.after[n] = d.after[n]
  BY <1>1, <1>2, <1>3, <1>6
<1> QED BY <1>5, <1>6, <1>7 DEF e, IsReset

LEMMA ResetForRoundTyped ==
    ASSUME NEW g, IsGraph(g), NEW d \in AnyEngines(g), NEW S,
           \A n \in Nodes(g) : d.state[n] = "WAITING_FOR_COMMAND" => n \in S,
           NEW carried \in Mailboxes(g)
    PROVE  /\ ResetForRound(g, d, S, carried) \in Engines(g)
           /\ \A n \in S \cap Nodes(g) :
                 ResetForRound(g, d, S, carried).state[n] \in {"PENDING", "READY"}
           /\ \A n \in Nodes(g) \ S : d.state[n] \in Results =>
                 ResetForRound(g, d, S, carried).state[n] = d.state[n]
<1> DEFINE e == Reset(g, d, S, carried)
<1>1. IsReset(g, d, S, carried, e)
  BY ResetTyped
<1> HIDE DEF e
<1>2. PromoteAll(g, e, S) \in Engines(g)
  BY <1>1, PromoteAllTyped DEF IsReset
<1>3. ASSUME NEW n \in S \cap Nodes(g)
      PROVE  PromoteAll(g, e, S).state[n] \in {"PENDING", "READY"}
  <2>1. n \in Nodes(g) /\ e.state[n] \in {"PENDING", "READY"}
    BY <1>1 DEF IsReset
  <2> QED BY <1>1, <2>1, PromoteAllKeeps DEF IsReset
<1>4. ASSUME NEW n \in Nodes(g) \ S, d.state[n] \in Results
      PROVE  PromoteAll(g, e, S).state[n] = d.state[n]
  <2>1. n \in Nodes(g) /\ e.state[n] \in {d.state[n]} /\ d.state[n] # "PENDING"
    BY <1>1, <1>4 DEF Results, IsReset
  <2>2. e \in Engines(g)
    BY <1>1 DEF IsReset
  <2>3. PromoteAll(g, e, S).state[n] \in {d.state[n]}
    BY <2>1, <2>2, PromoteAllKeeps
  <2> QED BY <2>3
<1>5. ResetForRound(g, d, S, carried) = PromoteAll(g, e, S)
  BY <1>1 DEF IsReset
<1> QED BY <1>2, <1>3, <1>4, <1>5

----------------------------------------------------------------------------
(* What starts in order *)

(* What may satisfy a dependent and go on satisfying it, and what lets a   *)
(* join of any of its inputs start.                                        *)
Passed(g, d, m) == m \in Iterated(g) \cup d.loops \/ d.state[m] \in Results
Over(g, d, m)   == m \in Iterated(g) \cup d.loops \/ d.state[m] \in Settled

(* A node that no loop gateway iterates is satisfied only by what has      *)
(* passed, and is ready or runs only when its dependencies allow it.  The  *)
(* nodes of b.started were so before, and a join among them answers for    *)
(* itself; those of b.busy run, unless they are loop sources of b.loops.   *)
InOrder(g, b, d, n) ==
    /\ n \in Nodes(g) \ Iterated(g)
    /\ \A m \in d.after[n] : Passed(g, d, m)
    /\ n \in b.started \/ d.state[n] \in {"READY", "RUNNING"} =>
          IF g.kind[n] = "join_any"
          THEN n \in b.started \/ \A m \in g.after[n] : Over(g, d, m)
          ELSE g.after[n] \subseteq d.after[n]
    /\ n \in b.busy \ b.loops => n \notin d.loops /\ d.state[n] = "RUNNING"

(* Engines in which the nodes of b.concerned are in order; b.loops are the *)
(* agents among the loop sources.                                          *)
Resting(g, d) == {n \in d.loops : ~Gateway(g, n)}
Orderly(g, b) == {d \in Engines(g) : /\ b.loops = Resting(g, d)
                                     /\ \A n \in b.concerned : InOrder(g, b, d, n)}

(* How a step of a handoff or a failure moves nodes that are not iterated. *)
Moved(g, d, e, n) ==
    \/ e.state[n] = d.state[n]
    \/ n \in d.loops /\ d.state[n] = "RUNNING" /\ e.state[n] = "READY"
    \/ d.state[n] \in {"PENDING", "READY"} /\ e.state[n] = "SKIPPED"
    \/ d.state[n] = "PENDING" /\ e.state[n] = "READY" /\ Promotable(g, d, n)
Moves(g, d, e) ==
    /\ e.loops = d.loops
    /\ \A n \in Nodes(g) \ Iterated(g) : e.after[n] = d.after[n] /\ Moved(g, d, e, n)

LEMMA OrderlyMoves ==
    ASSUME NEW g, IsGraph(g), NEW b, NEW d \in Orderly(g, b), NEW e \in Engines(g), Moves(g, d, e)
    PROVE  e \in Orderly(g, b)
<1>1. /\ d \in Engines(g) /\ b.loops = Resting(g, e) /\ e.loops = d.loops
      /\ \A n \in Nodes(g) : g.after[n] \subseteq Nodes(g) /\ d.after[n] \subseteq Nodes(g)
  BY DEF Orderly, Resting, Moves, IsGraph, Engines, Satisfied
<1>2. \A m \in Nodes(g) : /\ Passed(g, d, m) => Passed(g, e, m)
                          /\ Over(g, d, m) => Over(g, e, m)
                          /\ d.state[m] \in Settled => Over(g, e, m)
  BY DEF Moves, Moved, Passed, Over, Results, Settled
<1>3. ASSUME NEW n \in b.concerned PROVE InOrder(g, b, e, n)
  <2>1. InOrder(g, b, d, n)
    BY DEF Orderly
  <2>2. e.after[n] = d.after[n] /\ Moved(g, d, e, n)
    BY <2>1 DEF Moves, InOrder
  <2>3. \A m \in e.after[n] : Passed(g, e, m)
    BY <1>1, <1>2, <2>1, <2>2 DEF InOrder
  <2>4. Promotable(g, d, n) => IF g.kind[n] = "join_any"
                               THEN \A m \in g.after[n] : d.state[m] \in Settled
                               ELSE g.after[n] \subseteq d.after[n]
    BY DEF Promotable
  <2>5. n \in b.started \/ e.state[n] \in {"READY", "RUNNING"} =>
           IF g.kind[n] = "join_any"
           THEN n \in b.started \/ \A m \in g.after[n] : Over(g, e, m)
           ELSE g.after[n] \subseteq e.after[n]
    BY <1>1, <1>2, <2>1, <2>2, <2>4 DEF InOrder, Moved
  <2>6. n \in b.busy \ b.loops => n \notin e.loops /\ e.state[n] = "RUNNING"
    BY <1>1, <2>1, <2>2 DEF InOrder, Moved
  <2> QED BY <2>1, <2>3, <2>5, <2>6 DEF InOrder
<1> QED BY <1>1, <1>3 DEF Orderly

LEMMA SkipsMove ==
    ASSUME NEW g, NEW d \in Engines(g)
    PROVE  /\ \A e \in Skips(g, d) : Moves(g, d, e)
           /\ Moves(g, d, Settle(g, d))
           /\ \A n \in Nodes(g) : Moves(g, d, TryPromote(g, d, n))
           /\ \A n \in Nodes(g) : Moves(g, d, WakeLoopSource(g, d, n))
<1>1. ASSUME NEW T \in SUBSET Open(g, d) PROVE Moves(g, d, SetState(d, T, "SKIPPED"))
  <2> DEFINE e == SetState(d, T, "SKIPPED")
  <2>1. e.loops = d.loops /\ e.after = d.after
        /\ \A n \in Nodes(g) : e.state[n] = IF n \in T THEN "SKIPPED" ELSE d.state[n]
    BY DEF SetState, Engines
  <2> HIDE DEF e
  <2>2. Moves(g, d, e)
    BY <2>1 DEF Moves, Moved, Open
  <2> QED BY <2>2 DEF e
<1>2. Moves(g, d, Settle(g, d))
  <2> DEFINE e == Settle(g, d)
  <2>1. e.loops = d.loops /\ e.after = d.after
        /\ \A n \in Nodes(g) : e.state[n] = IF n \notin Stuck(g, d) THEN d.state[n]
                                            ELSE IF Promotable(g, d, n) THEN "READY" ELSE "SKIPPED"
    BY DEF Settle, Engines
  <2> HIDE DEF e
  <2>2. Moves(g, d, e)
    BY <2>1 DEF Moves, Moved, Stuck
  <2> QED BY <2>2 DEF e
<1>3. ASSUME NEW n \in Nodes(g) PROVE Moves(g, d, TryPromote(g, d, n))
  <2> DEFINE e == [d EXCEPT !.state[n] = "READY"]
  <2>1. e.loops = d.loops /\ e.after = d.after
        /\ \A m \in Nodes(g) : e.state[m] = IF m = n THEN "READY" ELSE d.state[m]
    BY DEF Engines
  <2> HIDE DEF e
  <2>2. d.state[n] = "PENDING" /\ Promotable(g, d, n) => Moves(g, d, e)
    BY <2>1 DEF Moves, Moved
  <2>3. Moves(g, d, d)
    BY DEF Moves, Moved
  <2> QED BY <2>2, <2>3 DEF e, TryPromote
<1>4. ASSUME NEW n \in Nodes(g) PROVE Moves(g, d, WakeLoopSource(g, d, n))
  <2> DEFINE e == [d EXCEPT !.state[n] = "READY", !.handed = @ \ {n}]
  <2>1. e.loops = d.loops /\ e.after = d.after
        /\ \A m \in Nodes(g) : e.state[m] = IF m = n THEN "READY" ELSE d.state[m]
    BY DEF Engines
  <2> HIDE DEF e
  <2>2. RunningLoop(d, n) => Moves(g, d, e)
    BY <2>1 DEF Moves, Moved, RunningLoop
  <2>3. Moves(g, d, d)
    BY DEF Moves, Moved
  <2> QED BY <2>2, <2>3 DEF e, WakeLoopSource
<1> QED BY <1>1, <1>2, <1>3, <1>4 DEF Skips

(* A loop gateway wakes and resets iterated nodes alone.                   *)
LEMMA WakeMoves ==
    ASSUME NEW g, IsGraph(g), NEW d \in Engines(g), NEW n \in Nodes(g), NEW f, MayWake(g, f, n)
    PROVE  Moves(g, d, WakeLoopGatewayReceiver(g, d, f, n))
<1>1. Moves(g, d, d)
  BY DEF Moves, Moved
<1>2. CASE LoopGateway(g, f)
  <2> DEFINE body == LoopBody(g, f, n)
             after == [m \in Nodes(g) |-> IF m \in body THEN d.after[m] \cap {f} ELSE d.after[m]]
             e == ResetLoopBody(g, d, f, n)
             q == [e EXCEPT !.state[n] = "READY", !.handed = @ \ {n}]
  <2>1. n \in Iterated(g) /\ body \subseteq Iterated(g)
    BY <1>2, BodyIterated DEF MayWake
  <2>2. e.loops = d.loops /\ e.after = after /\ e.state \in [Nodes(g) -> NodeStates]
        /\ \A m \in Nodes(g) : e.state[m] = IF m \in body THEN "PENDING" ELSE d.state[m]
    BY DEF ResetLoopBody, SetState, Engines, NodeStates
  <2> HIDE DEF e
  <2>3. q.loops = e.loops /\ q.after = e.after
        /\ \A m \in Nodes(g) : m # n => q.state[m] = e.state[m]
    BY <2>2
  <2>4. \A m \in Nodes(g) : m \notin body => after[m] = d.after[m]
    OBVIOUS
  <2> HIDE DEF q, body, after
  <2>5. Moves(g, d, q)
    BY <2>1, <2>2, <2>3, <2>4 DEF Moves, Moved
  <2> QED BY <1>1, <2>5 DEF WakeLoopGatewayReceiver, q, e
<1> QED BY <1>1, <1>2 DEF WakeLoopGatewayReceiver

LEMMA OrderlyRobust ==
    ASSUME NEW g, IsGraph(g), NEW b
    PROVE  Robust(g, Orderly(g, b))
<1>1. \A d \in Orderly(g, b) : d \in Engines(g)
  BY DEF Orderly
<1>2. \A d \in Engines(g) :
         /\ Skips(g, d) \subseteq Engines(g) /\ Settle(g, d) \in Engines(g)
         /\ \A n \in Nodes(g) :
               /\ TryPromote(g, d, n) \in Engines(g) /\ WakeLoopSource(g, d, n) \in Engines(g)
               /\ \A f : MayWake(g, f, n) => WakeLoopGatewayReceiver(g, d, f, n) \in Engines(g)
  BY AllWithin, WithinIsEngine, SkipsWithin, SettleWithin, TryPromoteWithin, WakingWithin
<1>3. ASSUME NEW d \in Orderly(g, b)
      PROVE  /\ Skips(g, d) \subseteq Orderly(g, b)
             /\ Settle(g, d) \in Orderly(g, b)
             /\ \A n \in Nodes(g) :
                   /\ TryPromote(g, d, n) \in Orderly(g, b)
                   /\ WakeLoopSource(g, d, n) \in Orderly(g, b)
                   /\ \A f : MayWake(g, f, n) =>
                         WakeLoopGatewayReceiver(g, d, f, n) \in Orderly(g, b)
  <2>1. d \in Engines(g) /\ \A e \in Engines(g) : Moves(g, d, e) => e \in Orderly(g, b)
    BY <1>1, OrderlyMoves
  <2>2. Skips(g, d) \subseteq Orderly(g, b) /\ Settle(g, d) \in Orderly(g, b)
    BY <1>2, <2>1, SkipsMove
  <2>3. ASSUME NEW n \in Nodes(g)
        PROVE  /\ TryPromote(g, d, n) \in Orderly(g, b)
               /\ WakeLoopSource(g, d, n) \in Orderly(g, b)
               /\ \A f : MayWake(g, f, n) =>
                     WakeLoopGatewayReceiver(g, d, f, n) \in Orderly(g, b)
    BY <1>2, <2>1, SkipsMove, WakeMoves
  <2> QED BY <2>2, <2>3
<1> QED BY <1>1, <1>3, SkippingRobust

LEMMA SkipsOrderly ==
    ASSUME NEW g, IsGraph(g), NEW b, NEW d \in Orderly(g, b)
    PROVE  Skips(g, d) \subseteq Orderly(g, b)
<1>1. d \in Engines(g)
  BY DEF Orderly
<1>2. Skips(g, d) \subseteq Engines(g)
  BY <1>1, AllWithin, SkipsWithin, WithinIsEngine
<1> QED BY <1>1, <1>2, OrderlyMoves, SkipsMove

(* A node that hands off or fails passes: what waits for it may be told.   *)
Leaves(g, b, d, e, f) ==
    /\ e.loops = d.loops \/ (e.loops = d.loops \ {f} /\ Gateway(g, f))
    /\ f \notin b.busy \ b.loops
    /\ e.state[f] \in Results \/ (e.state[f] = "RUNNING" /\ f \in e.loops)
    /\ e.state[f] = "RUNNING" /\ f \in b.concerned => f \in b.started
    /\ \A n \in Nodes(g) \ {f} : e.state[n] = d.state[n]
    /\ \A n \in Nodes(g) : e.after[n] \in {d.after[n], d.after[n] \cup {f}}

LEMMA OrderlyLeaves ==
    ASSUME NEW g, IsGraph(g), NEW b, NEW d \in Orderly(g, b), NEW f \in Nodes(g),
           NEW e \in Engines(g), Leaves(g, b, d, e, f)
    PROVE  e \in Orderly(g, b)
<1>1. /\ d \in Engines(g) /\ b.loops = Resting(g, e)
      /\ e.loops \subseteq d.loops /\ d.loops \ {f} \subseteq e.loops
      /\ \A n \in Nodes(g) : g.after[n] \subseteq Nodes(g) /\ d.after[n] \subseteq Nodes(g)
  BY DEF Orderly, Resting, Leaves, IsGraph, Engines, Satisfied
<1>2. \A m \in Nodes(g) : /\ Passed(g, d, m) => Passed(g, e, m)
                          /\ Over(g, d, m) => Over(g, e, m)
  <2>1. Passed(g, e, f) /\ Over(g, e, f)
    BY DEF Leaves, Passed, Over, Results, Settled
  <2>2. \A m \in Nodes(g) \ {f} : e.state[m] = d.state[m] /\ (m \in d.loops => m \in e.loops)
    BY <1>1 DEF Leaves
  <2> QED BY <2>1, <2>2 DEF Passed, Over
<1>3. Passed(g, e, f)
  BY DEF Leaves, Passed
<1>4. ASSUME NEW n \in b.concerned PROVE InOrder(g, b, e, n)
  <2>1. InOrder(g, b, d, n) /\ n \in Nodes(g)
    BY DEF Orderly, InOrder
  <2>2. d.after[n] \subseteq e.after[n] /\ e.after[n] \subseteq d.after[n] \cup {f}
    BY <2>1 DEF Leaves
  <2>3. \A m \in e.after[n] : Passed(g, e, m)
    BY <1>1, <1>2, <1>3, <2>1, <2>2 DEF InOrder
  <2>4. n \in b.started \/ e.state[n] \in {"READY", "RUNNING"} =>
           n \in b.started \/ d.state[n] \in {"READY", "RUNNING"}
    BY <2>1 DEF Leaves, Results
  <2>5. n \in b.started \/ e.state[n] \in {"READY", "RUNNING"} =>
           IF g.kind[n] = "join_any"
           THEN n \in b.started \/ \A m \in g.after[n] : Over(g, e, m)
           ELSE g.after[n] \subseteq e.after[n]
    BY <1>1, <1>2, <2>1, <2>2, <2>4 DEF InOrder
  <2>6. n \in b.busy \ b.loops => n \notin e.loops /\ e.state[n] = "RUNNING"
    BY <1>1, <2>1 DEF InOrder, Leaves
  <2> QED BY <2>1, <2>3, <2>5, <2>6 DEF InOrder
<1> QED BY <1>1, <1>4 DEF Orderly

(* c is d, or d without the gateway f, which has left its loop.            *)
Near(g, d, c, f) ==
    /\ \A n \in Nodes(g) : c.state[n] = d.state[n] /\ c.after[n] = d.after[n]
    /\ c.loops = d.loops \/ (c.loops = d.loops \ {f} /\ Gateway(g, f))

LEMMA HandoffOrderly ==
    ASSUME NEW g, IsGraph(g), NEW b, NEW d \in Orderly(g, b), NEW f \in Nodes(g), NEW port,
           f \notin b.busy \ b.loops, f \in b.concerned => f \in b.started,
           NEW c \in Engines(g), Near(g, d, c, f)
    PROVE  Handoff(g, c, f, port) \in Orderly(g, b)
<1> DEFINE sent == Sent(g, c, f, port)
           told == Told(g, sent, f, port, Satisfies(g, f, port))
<1>1. /\ sent \in Engines(g)
      /\ sent.loops = c.loops /\ sent.after = c.after
      /\ \A n \in Nodes(g) \ {f} : sent.state[n] = c.state[n]
      /\ \/ sent.state[f] \in Results
         \/ sent.state[f] = "RUNNING" /\ f \in c.loops
  BY SentTyped
<1> HIDE DEF sent
<1>2. /\ told \in Engines(g)
      /\ told.loops = sent.loops /\ told.state = sent.state
      /\ \A n \in Nodes(g) : told.after[n] \in {sent.after[n], sent.after[n] \cup {f}}
  BY <1>1, ToldTyped DEF Satisfies
<1> HIDE DEF told
<1>3. Leaves(g, b, d, told, f)
  BY <1>1, <1>2 DEF Leaves, Near
<1>4. told \in Orderly(g, b)
  BY <1>2, <1>3, OrderlyLeaves
<1>5. Supple(g, Orderly(g, b)) /\ SkipsFor(g, Orderly(g, b), f)
  BY OrderlyRobust DEF Robust
<1>6. PICK e \in Orderly(g, b) : Handoff(g, c, f, port) = ReconcileSettled(g, e)
  BY <1>4, <1>5, HandoffStays DEF told, sent
<1> QED BY <1>5, <1>6, ReconcileSettledStays

LEMMA FailNodeOrderly ==
    ASSUME NEW g, IsGraph(g), NEW b, NEW d \in Orderly(g, b), NEW f \in Nodes(g),
           f \notin b.busy \ b.loops,
           NEW c \in Engines(g), Near(g, d, c, f)
    PROVE  FailNode(g, c, f) \in Orderly(g, b)
<1> DEFINE lost == Lost(c, f)
           told == Told(g, lost, f, FailurePort, Dependents(g, f))
<1>1. /\ lost \in Engines(g)
      /\ lost.loops = c.loops /\ lost.after = c.after
      /\ \A n \in Nodes(g) : lost.state[n] = IF n = f THEN "FAILED" ELSE c.state[n]
  BY LostTyped
<1> HIDE DEF lost
<1>2. /\ told \in Engines(g)
      /\ told.loops = lost.loops /\ told.state = lost.state
      /\ \A n \in Nodes(g) : told.after[n] \in {lost.after[n], lost.after[n] \cup {f}}
  BY <1>1, ToldTyped
<1> HIDE DEF told
<1>3. Leaves(g, b, d, told, f)
  BY <1>1, <1>2 DEF Leaves, Near, Results
<1>4. told \in Orderly(g, b)
  BY <1>2, <1>3, OrderlyLeaves
<1>5. Supple(g, Orderly(g, b)) /\ SkipsFor(g, Orderly(g, b), f)
  BY OrderlyRobust DEF Robust
<1>6. PICK e \in Orderly(g, b) : FailNode(g, c, f) = ReconcileSettled(g, e)
  BY <1>4, <1>5, FailNodeStays DEF told, lost
<1> QED BY <1>5, <1>6, ReconcileSettledStays

(* What an orderly engine starts next is looked at afresh.                 *)
LEMMA OrderlyResettled ==
    ASSUME NEW g, NEW b, NEW d \in Orderly(g, b), NEW c,
           c.concerned \subseteq b.concerned, c.busy \subseteq b.busy,
           c.loops = b.loops,
           \A n \in Nodes(g) : d.state[n] \in {"READY", "RUNNING"} => n \in c.started,
           \A n \in c.started : n \in b.started \/ d.state[n] \in {"READY", "RUNNING"}
    PROVE  d \in Orderly(g, c)
<1>1. ASSUME NEW n \in c.concerned PROVE InOrder(g, c, d, n)
  <2>1. InOrder(g, b, d, n)
    BY DEF Orderly
  <2>2. n \in c.started \/ d.state[n] \in {"READY", "RUNNING"} => n \in c.started
    BY <2>1 DEF InOrder
  <2> QED BY <2>1, <2>2 DEF InOrder
<1> QED BY <1>1 DEF Orderly

(* A prompt is sent to a ready node, which then runs.                      *)
LEMMA OrderlySend ==
    ASSUME NEW g, IsGraph(g), NEW b, NEW d \in Orderly(g, b), NEW n \in Nodes(g),
           d.state[n] = "READY", ~Gateway(g, n),
           NEW c, c.loops = b.loops, c.concerned = b.concerned,
           c.started = b.started \cup {n}, c.busy \subseteq b.busy \cup {n}
    PROVE  [d EXCEPT !.state[n] = "RUNNING"] \in Orderly(g, c)
<1> DEFINE e == [d EXCEPT !.state[n] = "RUNNING"]
<1>1. /\ d \in Engines(g) /\ b.loops = Resting(g, d) /\ g.kind[n] # "join_any"
      /\ n \in d.loops => n \in b.loops
      /\ \A m \in Nodes(g) : g.after[m] \subseteq Nodes(g) /\ d.after[m] \subseteq Nodes(g)
  BY DEF Orderly, Resting, Gateway, IsGraph, Engines, Satisfied
<1>2. e \in Engines(g)
  BY <1>1, SetOneTyped DEF NodeStates
<1>3. e.loops = d.loops /\ e.after = d.after
      /\ \A m \in Nodes(g) : e.state[m] = IF m = n THEN "RUNNING" ELSE d.state[m]
  BY <1>1 DEF Engines
<1> HIDE DEF e
<1>4. \A m \in Nodes(g) : /\ Passed(g, d, m) => Passed(g, e, m)
                          /\ Over(g, d, m) => Over(g, e, m)
  BY <1>3 DEF Passed, Over, Results, Settled
<1>5. ASSUME NEW m \in b.concerned PROVE InOrder(g, c, e, m)
  <2>1. InOrder(g, b, d, m) /\ m \in Nodes(g)
    BY DEF Orderly, InOrder
  <2>2. \A k \in e.after[m] : Passed(g, e, k)
    BY <1>1, <1>3, <1>4, <2>1 DEF InOrder
  <2>3. m \in c.started \/ e.state[m] \in {"READY", "RUNNING"} =>
           IF g.kind[m] = "join_any"
           THEN m \in c.started \/ \A k \in g.after[m] : Over(g, e, k)
           ELSE g.after[m] \subseteq e.after[m]
    BY <1>1, <1>3, <1>4, <2>1 DEF InOrder
  <2>4. m \in c.busy \ c.loops => m \notin e.loops /\ e.state[m] = "RUNNING"
    BY <1>1, <1>3, <2>1 DEF InOrder
  <2> QED BY <2>1, <2>2, <2>3, <2>4 DEF InOrder
<1>6. e \in Orderly(g, c)
  BY <1>1, <1>2, <1>3, <1>5 DEF Orderly, Resting
<1> QED BY <1>6 DEF e

(* A ready node whose turn it was not before has had its turn come.        *)
LEMMA OrderlyReady ==
    ASSUME NEW g, IsGraph(g), NEW b, NEW d \in Orderly(g, b), NEW n \in b.concerned,
           d.state[n] = "READY", n \notin b.started \/ ~Gateway(g, n)
    PROVE  \A m \in g.after[n] : Over(g, d, m)
<1>1. InOrder(g, b, d, n)
  BY DEF Orderly
<1> QED BY <1>1 DEF InOrder, Passed, Over, Results, Settled, Gateway

(* An agent is asked again: with it open those that were skipped because   *)
(* of it.                                                                  *)
LEMMA OrderlyCorrected ==
    ASSUME NEW g, IsGraph(g), NEW b, NEW d \in Orderly(g, b), NEW n \in Nodes(g),
           n \in b.started, ~Gateway(g, n),
           n \in Iterated(g) \/ n \in d.loops \/ d.state[n] = "RUNNING",
           n \notin b.busy \ b.loops, NEW opened, opened = ReopenSkipped(g, d, n),
           \A m \in Nodes(g) : d.state[m] \in {"READY", "RUNNING"} => m \in b.started
    PROVE  [opened EXCEPT !.state[n] = "READY", !.handed = @ \ {n}] \in Orderly(g, b)
<1> DEFINE S == SkippedBy(g, d, n)
           e == [opened EXCEPT !.state[n] = "READY", !.handed = @ \ {n}]
<1>1. /\ d \in Engines(g) /\ b.loops = Resting(g, d) /\ opened \in Engines(g)
      /\ \A m \in Nodes(g) : g.after[m] \subseteq Nodes(g) /\ d.after[m] \subseteq Nodes(g)
      /\ \A m \in S : d.state[m] = "SKIPPED"
      /\ g.kind[n] # "join_any"
  BY ReopenSkippedTyped, ReopenedSkipped DEF Orderly, Gateway, IsGraph, Engines, Satisfied
<1>2. /\ opened.loops = d.loops /\ opened.after = d.after
      /\ \A m \in Nodes(g) : opened.state[m] = IF m \in S THEN "PENDING" ELSE d.state[m]
  BY <1>1 DEF ReopenSkipped, SetState, Engines
<1> HIDE DEF S
<1>3. e \in Engines(g)
  BY <1>1 DEF Engines, NodeStates
<1>4. /\ e.loops = d.loops /\ e.after = d.after
      /\ \A m \in Nodes(g) : e.state[m] = IF m = n THEN "READY" ELSE opened.state[m]
  BY <1>1, <1>2 DEF Engines
<1> HIDE DEF e
<1>5. \A m \in Nodes(g) : Passed(g, d, m) => Passed(g, e, m)
  BY <1>1, <1>2, <1>4 DEF Passed, Results
<1>6. ASSUME NEW m \in b.concerned PROVE InOrder(g, b, e, m)
  <2>1. InOrder(g, b, d, m) /\ m \in Nodes(g)
    BY DEF Orderly, InOrder
  <2>2. \A k \in e.after[m] : Passed(g, e, k)
    BY <1>1, <1>4, <1>5, <2>1 DEF InOrder
  <2>3. m \in b.started \/ e.state[m] \in {"READY", "RUNNING"} => m \in b.started
    BY <1>2, <1>4, <2>1
  <2>4. m \in b.busy \ b.loops => m \notin e.loops /\ e.state[m] = "RUNNING"
    BY <1>1, <1>2, <1>4, <2>1 DEF InOrder
  <2> QED BY <1>1, <1>4, <2>1, <2>2, <2>3, <2>4 DEF InOrder
<1>7. e \in Orderly(g, b)
  BY <1>1, <1>2, <1>3, <1>4, <1>6 DEF Orderly, Resting
<1> QED BY <1>7 DEF e

(* Nothing of a round has started, and all it concerns is reset.           *)
Afresh(g, d, S, b) ==
    /\ b.loops = Resting(g, d) /\ b.started = {} /\ b.busy = {}
    /\ \A n \in b.concerned : n \in Nodes(g) /\ n \in S /\ n \notin Iterated(g)

(* A round starts what it resets once all it needs has completed: of what  *)
(* the round leaves alone everything is settled.                           *)
LEMMA ResetOrderly ==
    ASSUME NEW g, IsGraph(g), NEW d \in AnyEngines(g), NEW S,
           \A n \in Nodes(g) : n \in S \/ d.state[n] \in Settled,
           NEW carried \in Mailboxes(g), NEW b, Afresh(g, d, S, b)
    PROVE  ResetForRound(g, d, S, carried) \in Orderly(g, b)
<1> DEFINE e == Reset(g, d, S, carried)
<1>1. \A n \in Nodes(g) : d.state[n] = "WAITING_FOR_COMMAND" => n \in S
  BY DEF Settled
<1>2. IsReset(g, d, S, carried, e)
  BY <1>1, ResetTyped
<1> HIDE DEF e
<1>3. ASSUME NEW n \in b.concerned PROVE InOrder(g, b, e, n)
  <2>1. n \in Nodes(g) \ Iterated(g) /\ e.state[n] = "PENDING" /\ g.after[n] \subseteq Nodes(g)
        /\ \A m \in e.after[n] : m \in g.after[n] /\ Supplied(d, S, m)
    BY <1>2 DEF IsGraph, Afresh, IsReset
  <2>2. ASSUME NEW m \in e.after[n] PROVE Passed(g, e, m)
    <3>1. m \in Nodes(g) /\ m \notin S /\ d.state[m] \notin Unavailable
      BY <2>1 DEF Supplied
    <3>2. e.state[m] \in Settled /\ e.state[m] \notin Unavailable
      BY <1>2, <3>1 DEF IsReset
    <3> QED BY <3>2 DEF Passed, Results, Settled, Unavailable
  <2> QED BY <2>1, <2>2 DEF InOrder, Afresh
<1>4. e \in Orderly(g, b)
  BY <1>2, <1>3 DEF Orderly, Resting, Afresh, IsReset
<1>5. \A q \in Orderly(g, b), n \in Nodes(g) : TryPromote(g, q, n) \in Orderly(g, b)
  BY OrderlyRobust DEF Robust, Supple
<1> QED BY <1>2, <1>4, <1>5, PromoteAllStays DEF IsReset

----------------------------------------------------------------------------
(* Votes *)

Joins(g) == {n \in Nodes(g) : g.kind[n] = "join_any"}
Await(g, n) == g.kind[n] = "await"

(* A join that is skipped has heard all its voters, and none that          *)
(* succeeded has voted.                                                    *)
Heard(g, d, n) ==
    d.state[n] = "SKIPPED" =>
       \A m \in g.after[n] : \/ Await(g, m)
                             \/ /\ d.state[m] \in Settled
                                /\ m \in d.input[n] => d.state[m] # "COMPLETED"

(* Every join that is skipped was heard, what satisfied a join has a       *)
(* result, and an await node votes for nothing; of a graph without loops.  *)
VotesHeard(g, d) ==
    /\ d.loops = {}
    /\ \A n \in d.handed : ~Await(g, n)
    /\ \A n \in Joins(g) : /\ Heard(g, d, n)
                           /\ \A m \in d.after[n] : d.state[m] \in Results
                           /\ \A m \in d.after[n] \cup d.input[n] : ~Await(g, m)
Voted(g) == {d \in Engines(g) : VotesHeard(g, d)}

(* Open nodes become ready or are skipped.                                 *)
Opened(g, d, e) ==
    /\ e.loops = d.loops /\ e.handed = d.handed /\ e.after = d.after /\ e.input = d.input
    /\ \A n \in Nodes(g) :
          \/ e.state[n] = d.state[n]
          \/ d.state[n] \in {"PENDING", "READY"} /\ e.state[n] \in {"READY", "SKIPPED"}

LEMMA VotedOpened ==
    ASSUME NEW g, IsGraph(g), NEW d \in Voted(g), NEW e \in Engines(g), Opened(g, d, e),
           \A n \in Joins(g) : d.state[n] # "SKIPPED" => Heard(g, e, n)
    PROVE  e \in Voted(g)
<1>1. VotesHeard(g, d) /\ d \in Engines(g)
  BY DEF Voted
<1>3. \A n \in Nodes(g) : d.state[n] \in Settled => e.state[n] = d.state[n]
  BY DEF Opened, Settled
<1>4. ASSUME NEW n \in Joins(g) PROVE Heard(g, e, n)
  <2>1. n \in Nodes(g) /\ g.after[n] \subseteq Nodes(g) /\ Heard(g, d, n) /\ e.input = d.input
    BY <1>1 DEF Joins, IsGraph, VotesHeard, Opened
  <2> QED BY <1>3, <2>1 DEF Heard
<1>5. ASSUME NEW n \in Joins(g)
      PROVE  /\ \A m \in e.after[n] : e.state[m] \in Results
             /\ \A m \in e.after[n] \cup e.input[n] : ~Await(g, m)
  <2>1. n \in Nodes(g) /\ d.after[n] \subseteq Nodes(g)
    BY <1>1 DEF Joins, Engines, Satisfied
  <2> QED BY <1>1, <1>3, <2>1 DEF VotesHeard, Opened, Results, Settled
<1> QED BY <1>1, <1>4, <1>5 DEF Voted, VotesHeard, Opened

(* A cascade skips a join only when none of its voters can vote any more,  *)
(* besides those it begins with.                                           *)
LEMMA VotedCascades ==
    ASSUME NEW g, IsGraph(g), NEW d \in Voted(g), NEW S, NEW T \in Cascades(g, d, S),
           \A n \in S \cap Joins(g) :
              \/ \A m \in Predecessors(g, n) : d.state[m] \in Unavailable
              \/ \A m \in g.after[n] : /\ d.state[m] \in Settled
                                       /\ m \in d.input[n] => d.state[m] # "COMPLETED"
    PROVE  SetState(d, T, "SKIPPED") \in Voted(g)
<1> DEFINE e == SetState(d, T, "SKIPPED")
<1>1. d \in Engines(g) /\ VotesHeard(g, d)
  BY DEF Voted
<1>2. e \in Engines(g)
  BY <1>1, SetStateTyped DEF NodeStates
<1>3. /\ e.loops = d.loops /\ e.handed = d.handed /\ e.after = d.after /\ e.input = d.input
      /\ \A n \in Nodes(g) : e.state[n] = IF n \in T THEN "SKIPPED" ELSE d.state[n]
  BY <1>1 DEF SetState, Engines
<1> HIDE DEF e
<1>4. T \subseteq Open(g, d)
  BY DEF Cascades
<1>5. Opened(g, d, e)
  BY <1>3, <1>4 DEF Opened, Open
<1>6. \A m \in Nodes(g) : m \in T \/ d.state[m] \in Unavailable =>
                             e.state[m] \in Settled /\ e.state[m] # "COMPLETED"
  BY <1>3 DEF Settled, Unavailable
<1>7. \A m \in Nodes(g) : d.state[m] \in Settled => e.state[m] = d.state[m]
  BY <1>5 DEF Opened, Settled
<1>8. ASSUME NEW n \in Joins(g), d.state[n] # "SKIPPED" PROVE Heard(g, e, n)
  <2>1. n \in Nodes(g) /\ g.after[n] \subseteq Nodes(g) /\ g.after[n] \subseteq Predecessors(g, n)
    BY DEF Joins, IsGraph, Predecessors
  <2>2. CASE n \notin T
    BY <1>3, <1>8, <2>1, <2>2 DEF Heard
  <2>3. CASE \A m \in Predecessors(g, n) : m \in T \/ d.state[m] \in Unavailable
    BY <1>6, <2>1, <2>3 DEF Heard
  <2>4. CASE \A m \in g.after[n] : /\ d.state[m] \in Settled
                                   /\ m \in d.input[n] => d.state[m] # "COMPLETED"
    BY <1>3, <1>7, <2>1, <2>4 DEF Heard
  <2>5. CASE n \in T /\ n \in S
    BY <2>3, <2>4, <2>5
  <2>6. CASE n \in T /\ n \notin S
    BY <2>3, <2>6 DEF Cascades
  <2> QED BY <2>2, <2>5, <2>6
<1>9. e \in Voted(g)
  BY <1>2, <1>5, <1>8, VotedOpened
<1> QED BY <1>9 DEF e

(* A join that may not be promoted although its voters are settled has no  *)
(* vote.                                                                   *)
LEMMA NoVote ==
    ASSUME NEW g, NEW d \in Engines(g), NEW n \in Joins(g), ~Promotable(g, d, n),
           \A m \in g.after[n] : d.state[m] \in Settled
    PROVE  \A m \in g.after[n] : m \notin d.input[n]
<1>1. RequiredInputs(g, n) \cap d.input[n] = {}
  BY DEF Promotable, Joins
<1>2. d.input[n] \subseteq RouteSources(g, n)
  BY DEF Engines, Mailboxes, Joins
<1> QED BY <1>1, <1>2 DEF RequiredInputs

LEMMA VotedPromoted ==
    ASSUME NEW g, IsGraph(g), NEW d \in Voted(g), NEW n \in Nodes(g)
    PROVE  /\ TryPromote(g, d, n) \in Voted(g)
           /\ TryPromote(g, d, n).state[n] = "PENDING" =>
                 TryPromote(g, d, n) = d /\ ~Promotable(g, d, n)
<1> DEFINE e == [d EXCEPT !.state[n] = "READY"]
<1>1. d \in Engines(g) /\ e \in Engines(g)
  BY SetOneTyped DEF Voted, NodeStates
<1>2. /\ e.loops = d.loops /\ e.handed = d.handed /\ e.after = d.after /\ e.input = d.input
      /\ \A m \in Nodes(g) : e.state[m] = IF m = n THEN "READY" ELSE d.state[m]
  BY <1>1 DEF Engines
<1> HIDE DEF e
<1>3. ASSUME d.state[n] = "PENDING" PROVE e \in Voted(g)
  <2>1. Opened(g, d, e)
    BY <1>2, <1>3 DEF Opened
  <2>2. \A m \in Joins(g) : d.state[m] # "SKIPPED" => Heard(g, e, m)
    BY <1>2 DEF Heard, Joins
  <2> QED BY <1>1, <2>1, <2>2, VotedOpened
<1>4. e.state[n] = "READY"
  BY <1>2
<1> QED BY <1>3, <1>4 DEF TryPromote, e

LEMMA VotedSkips ==
    ASSUME NEW g, IsGraph(g), NEW d \in Voted(g)
    PROVE  /\ \A f : SkipDependentsOfFailed(g, d, f) \in Voted(g)
           /\ \A n \in Nodes(g) : SkipUntakenBranch(g, TryPromote(g, d, n), n) \in Voted(g)
<1>1. ASSUME NEW f PROVE SkipDependentsOfFailed(g, d, f) \in Voted(g)
  <2> DEFINE plain(n) == /\ \/ f \in g.after[n]
                            \/ \E r \in RoutesTo(g, n) : r.from = f /\ r.port # FailurePort
                         /\ n \notin Receivers(g, f, FailurePort)
                         /\ f \notin d.input[n]
             S == {n \in Nodes(g) : /\ d.state[n] \in {"PENDING", "READY"}
                                    /\ plain(n)
                                    /\ \A m \in Predecessors(g, n) : d.state[m] \in Unavailable}
  <2>1. SkipDependentsOfFailed(g, d, f) = SkipWithDependents(g, d, S)
    BY DEF SkipDependentsOfFailed
  <2>2. S \in SUBSET Open(g, d)
    BY DEF Open
  <2>3. \A n \in S : \A m \in Predecessors(g, n) : d.state[m] \in Unavailable
    OBVIOUS
  <2> HIDE DEF S
  <2>4. PICK T \in Cascades(g, d, S) : SkipWithDependents(g, d, S) = SetState(d, T, "SKIPPED")
    BY <2>2, SkipCascades
  <2> QED BY <2>1, <2>3, <2>4, VotedCascades
<1>2. ASSUME NEW n \in Nodes(g) PROVE SkipUntakenBranch(g, TryPromote(g, d, n), n) \in Voted(g)
  <2> DEFINE e == TryPromote(g, d, n)
  <2>1. e \in Voted(g) /\ (e.state[n] = "PENDING" => e = d /\ ~Promotable(g, d, n))
    BY VotedPromoted
  <2> HIDE DEF e
  <2>2. ASSUME e.state[n] = "PENDING" /\ g.after[n] \subseteq e.after[n]
        PROVE  SkipUntakenBranch(g, e, n) \in Voted(g)
    <3>1. e = d /\ d.state[n] = "PENDING" /\ g.after[n] \subseteq d.after[n] /\ {n} \in SUBSET Open(g, d)
          /\ ~Promotable(g, d, n) /\ d \in Engines(g) /\ VotesHeard(g, d)
      BY <2>1, <2>2 DEF Open, Voted
    <3>2. PICK T \in Cascades(g, d, {n}) : SkipWithDependents(g, d, {n}) = SetState(d, T, "SKIPPED")
      BY <3>1, SkipCascades
    <3>3. n \in Joins(g) => \A m \in g.after[n] : d.state[m] \in Settled
      BY <3>1 DEF VotesHeard, Results, Settled
    <3>4. n \in Joins(g) => \A m \in g.after[n] : m \notin d.input[n]
      BY <3>1, <3>3, NoVote
    <3>5. SkipWithDependents(g, d, {n}) \in Voted(g)
      BY <3>2, <3>3, <3>4, VotedCascades
    <3>6. SkipUntakenBranch(g, d, n) \in {d, SkipWithDependents(g, d, {n})}
      BY DEF SkipUntakenBranch
    <3> QED BY <3>1, <3>5, <3>6
  <2>3. ASSUME ~(e.state[n] = "PENDING" /\ g.after[n] \subseteq e.after[n])
        PROVE  SkipUntakenBranch(g, e, n) \in Voted(g)
    <3>1. SkipUntakenBranch(g, e, n) = e
      BY <2>3 DEF SkipUntakenBranch
    <3> QED BY <2>1, <3>1
  <2>4. SkipUntakenBranch(g, e, n) \in Voted(g)
    BY <2>2, <2>3
  <2> QED BY <2>4 DEF e
<1> QED BY <1>1, <1>2

LEMMA VotedSettle ==
    ASSUME NEW g, IsGraph(g), NEW d \in Voted(g)
    PROVE  Settle(g, d) \in Voted(g)
<1> DEFINE e == Settle(g, d)
<1>1. d \in Engines(g) /\ e \in Engines(g)
  BY SettleTyped DEF Voted
<1>2. /\ e.loops = d.loops /\ e.handed = d.handed /\ e.after = d.after /\ e.input = d.input
      /\ \A n \in Nodes(g) : e.state[n] = IF n \notin Stuck(g, d) THEN d.state[n]
                                          ELSE IF Promotable(g, d, n) THEN "READY"
                                          ELSE "SKIPPED"
  BY <1>1 DEF Settle, Engines
<1> HIDE DEF e
<1>3. Opened(g, d, e)
  BY <1>2 DEF Opened, Stuck
<1>4. ASSUME NEW n \in Joins(g), d.state[n] # "SKIPPED" PROVE Heard(g, e, n)
  <2>1. n \in Nodes(g) /\ g.after[n] \subseteq Nodes(g)
    BY DEF Joins, IsGraph
  <2>2. CASE n \in Stuck(g, d) /\ ~Promotable(g, d, n)
    <3>1. \A m \in g.after[n] : d.state[m] \in Settled
      BY <2>2 DEF Stuck
    <3>2. \A m \in g.after[n] : m \notin d.input[n]
      BY <1>1, <2>2, <3>1, NoVote
    <3>3. \A m \in g.after[n] : e.state[m] \in Settled
      BY <1>3, <2>1, <3>1 DEF Opened, Settled
    <3> QED BY <1>2, <3>2, <3>3 DEF Heard
  <2>3. CASE ~(n \in Stuck(g, d) /\ ~Promotable(g, d, n))
    BY <1>2, <1>4, <2>1, <2>3 DEF Heard
  <2> QED BY <2>2, <2>3
<1>5. e \in Voted(g)
  BY <1>1, <1>3, <1>4, VotedOpened
<1> QED BY <1>5 DEF e

(* Without loops nothing wakes.                                            *)
LEMMA VotedRobust ==
    ASSUME NEW g, IsGraph(g), Iterated(g) = {}
    PROVE  Robust(g, Voted(g))
<1>1. ASSUME NEW d \in Voted(g), NEW n \in Nodes(g)
      PROVE  /\ WakeLoopSource(g, d, n) = d
             /\ \A f : MayWake(g, f, n) => WakeLoopGatewayReceiver(g, d, f, n) = d
  <2>1. d.loops = {}
    BY DEF Voted, VotesHeard
  <2>2. WakeLoopSource(g, d, n) = d
    BY <2>1 DEF WakeLoopSource, RunningLoop
  <2>3. \A f : MayWake(g, f, n) => ~LoopGateway(g, f)
    BY DEF MayWake
  <2> QED BY <2>2, <2>3 DEF WakeLoopGatewayReceiver
<1>2. Voted(g) \subseteq Engines(g)
  BY DEF Voted
<1>3. ASSUME NEW d \in Voted(g)
      PROVE  /\ \A f : SkipDependentsOfFailed(g, d, f) \in Voted(g)
             /\ Settle(g, d) \in Voted(g)
             /\ \A n \in Nodes(g) :
                   /\ TryPromote(g, d, n) \in Voted(g)
                   /\ SkipUntakenBranch(g, TryPromote(g, d, n), n) \in Voted(g)
  BY VotedSkips, VotedSettle, VotedPromoted
<1> QED BY <1>1, <1>2, <1>3 DEF Robust, Supple, SkipsFor

(* A node that hands off or fails has a result, and votes only if it had   *)
(* none before.                                                            *)
LEMMA VotedLeaves ==
    ASSUME NEW g, IsGraph(g), NEW d \in Voted(g), NEW f \in Nodes(g), ~Await(g, f),
           NEW e \in Engines(g), e.loops = d.loops, e.handed \subseteq d.handed \cup {f},
           e.state[f] \in Results, e.state[f] = "COMPLETED" => d.state[f] \notin Settled,
           \A n \in Nodes(g) \ {f} : e.state[n] = d.state[n],
           \A n \in Nodes(g) : /\ e.after[n] \in {d.after[n], d.after[n] \cup {f}}
                               /\ e.input[n] \in {d.input[n], d.input[n] \cup {f}}
    PROVE  e \in Voted(g)
<1>1. d \in Engines(g) /\ VotesHeard(g, d)
  BY DEF Voted
<1>2. ASSUME NEW n \in Joins(g)
      PROVE  /\ Heard(g, e, n)
             /\ \A m \in e.after[n] : e.state[m] \in Results
             /\ \A m \in e.after[n] \cup e.input[n] : ~Await(g, m)
  <2>1. n \in Nodes(g) /\ g.after[n] \subseteq Nodes(g) /\ d.after[n] \subseteq Nodes(g)
    BY <1>1 DEF Joins, IsGraph, Engines, Satisfied
  <2>2. /\ Heard(g, d, n)
        /\ \A m \in d.after[n] : d.state[m] \in Results
        /\ \A m \in d.after[n] \cup d.input[n] : ~Await(g, m)
    BY <1>1 DEF VotesHeard
  <2>3. \A m \in e.after[n] : e.state[m] \in Results
    BY <2>1, <2>2
  <2>4. \A m \in e.after[n] \cup e.input[n] : ~Await(g, m)
    BY <2>1, <2>2
  <2>5. ASSUME e.state[n] = "SKIPPED", NEW m \in g.after[n], ~Await(g, m)
        PROVE  e.state[m] \in Settled /\ (m \in e.input[n] => e.state[m] # "COMPLETED")
    <3>1. d.state[n] = "SKIPPED"
      BY <2>1, <2>5 DEF Results
    <3>2. d.state[m] \in Settled /\ (m \in d.input[n] => d.state[m] # "COMPLETED")
      BY <2>2, <2>5, <3>1 DEF Heard
    <3>3. CASE m = f
      BY <3>2, <3>3 DEF Results, Settled
    <3>4. CASE m # f
      BY <2>1, <2>5, <3>2, <3>4
    <3> QED BY <3>3, <3>4
  <2> QED BY <2>3, <2>4, <2>5 DEF Heard
<1> QED BY <1>1, <1>2 DEF Voted, VotesHeard

LEMMA HandoffVoted ==
    ASSUME NEW g, IsGraph(g), Iterated(g) = {}, NEW d \in Voted(g), NEW f \in Nodes(g),
           ~Await(g, f), d.state[f] \notin Settled, NEW port
    PROVE  Handoff(g, d, f, port) \in Voted(g)
<1> DEFINE sent == Sent(g, d, f, port)
           told == Told(g, sent, f, port, Satisfies(g, f, port))
<1>1. d \in Engines(g) /\ d.loops = {}
  BY DEF Voted, VotesHeard
<1>2. /\ sent \in Engines(g)
      /\ sent.loops = d.loops /\ sent.handed = d.handed \cup {f}
      /\ sent.after = d.after /\ sent.input = d.input
      /\ sent.state[f] \in Results
      /\ \A n \in Nodes(g) \ {f} : sent.state[n] = d.state[n]
  BY <1>1, SentTyped
<1> HIDE DEF sent
<1>3. /\ told \in Engines(g)
      /\ told.loops = sent.loops /\ told.handed = sent.handed /\ told.state = sent.state
      /\ \A n \in Nodes(g) : /\ told.after[n] \in {sent.after[n], sent.after[n] \cup {f}}
                             /\ told.input[n] \in {sent.input[n], sent.input[n] \cup {f}}
  BY <1>2, ToldTyped DEF Satisfies
<1> HIDE DEF told
<1>4. told \in Voted(g)
  BY <1>2, <1>3, VotedLeaves
<1>5. Supple(g, Voted(g)) /\ SkipsFor(g, Voted(g), f)
  BY VotedRobust DEF Robust
<1>6. PICK e \in Voted(g) : Handoff(g, d, f, port) = ReconcileSettled(g, e)
  BY <1>4, <1>5, HandoffStays DEF told, sent
<1> QED BY <1>5, <1>6, ReconcileSettledStays

LEMMA FailNodeVoted ==
    ASSUME NEW g, IsGraph(g), Iterated(g) = {}, NEW d \in Voted(g), NEW f \in Nodes(g),
           ~Await(g, f)
    PROVE  FailNode(g, d, f) \in Voted(g)
<1> DEFINE lost == Lost(d, f)
           told == Told(g, lost, f, FailurePort, Dependents(g, f))
<1>1. d \in Engines(g)
  BY DEF Voted
<1>2. /\ lost \in Engines(g)
      /\ lost.loops = d.loops /\ lost.handed = d.handed
      /\ lost.after = d.after /\ lost.input = d.input
      /\ \A n \in Nodes(g) : lost.state[n] = IF n = f THEN "FAILED" ELSE d.state[n]
  BY <1>1, LostTyped
<1> HIDE DEF lost
<1>3. /\ told \in Engines(g)
      /\ told.loops = lost.loops /\ told.handed = lost.handed /\ told.state = lost.state
      /\ \A n \in Nodes(g) : /\ told.after[n] \in {lost.after[n], lost.after[n] \cup {f}}
                             /\ told.input[n] \in {lost.input[n], lost.input[n] \cup {f}}
  BY <1>2, ToldTyped
<1> HIDE DEF told
<1>4. told \in Voted(g)
  <2>1. told.state[f] \in Results /\ told.state[f] # "COMPLETED"
    BY <1>2, <1>3 DEF Results
  <2> QED BY <1>2, <1>3, <2>1, VotedLeaves
<1>5. Supple(g, Voted(g)) /\ SkipsFor(g, Voted(g), f)
  BY VotedRobust DEF Robust
<1>6. PICK e \in Voted(g) : FailNode(g, d, f) = ReconcileSettled(g, e)
  BY <1>4, <1>5, FailNodeStays DEF told, lost
<1> QED BY <1>5, <1>6, ReconcileSettledStays

(* What was skipped because of a node that is asked again opens with all   *)
(* that was skipped after it: no join stays skipped behind an open voter.  *)
LEMMA VotedCorrected ==
    ASSUME NEW g, IsGraph(g), NEW d \in Voted(g), NEW f \in Nodes(g),
           d.state[f] = "RUNNING", NEW o, o = ReopenSkipped(g, d, f)
    PROVE  [o EXCEPT !.state[f] = "READY", !.handed = @ \ {f}] \in Voted(g)
<1> DEFINE open == SkippedBy(g, d, f)
           e == [o EXCEPT !.state[f] = "READY", !.handed = @ \ {f}]
<1>1. d \in Engines(g) /\ VotesHeard(g, d)
  BY DEF Voted
<1>2. /\ \A m \in open : m \in Linked(g) /\ d.state[m] = "SKIPPED"
      /\ \A m \in Nodes(g) : d.state[m] = "SKIPPED" /\ Predecessors(g, m) \cap open # {} => m \in open
  BY ReopenedSkipped, SkippedFollow
<1>3. /\ o \in Engines(g) /\ o.loops = d.loops /\ o.handed = d.handed \ open
      /\ o.after = d.after
      /\ \A m \in Nodes(g) : /\ o.state[m] = IF m \in open THEN "PENDING" ELSE d.state[m]
                             /\ o.input[m] = IF m \in open THEN {} ELSE d.input[m]
  <2>1. o \in Engines(g)
    BY <1>1, ReopenSkippedTyped
  <2> DEFINE p == SetState(d, open, "PENDING")
  <2>2. o = [p EXCEPT !.handed = @ \ open,
                      !.input  = [m \in Nodes(g) |-> IF m \in open THEN {} ELSE @[m]]]
    BY DEF ReopenSkipped
  <2> HIDE DEF open
  <2>3. /\ p.loops = d.loops /\ p.handed = d.handed /\ p.after = d.after /\ p.input = d.input
        /\ \A m \in Nodes(g) : p.state[m] = IF m \in open THEN "PENDING" ELSE d.state[m]
    BY <1>1 DEF SetState, Engines
  <2>4. p \in Engines(g)
    BY <1>1, SetStateTyped DEF NodeStates
  <2> HIDE DEF p
  <2>5. /\ o.loops = p.loops /\ o.handed = p.handed \ open /\ o.after = p.after
        /\ o.state = p.state
        /\ \A m \in Nodes(g) : o.input[m] = IF m \in open THEN {} ELSE p.input[m]
    BY <2>2, <2>4 DEF Engines
  <2> QED BY <2>1, <2>3, <2>5
<1> HIDE DEF open
<1>4. /\ e \in Engines(g) /\ e.loops = d.loops /\ e.handed \subseteq d.handed
      /\ e.after = d.after
      /\ \A m \in Nodes(g) : /\ e.state[m] = IF m = f THEN "READY"
                                             ELSE IF m \in open THEN "PENDING" ELSE d.state[m]
                             /\ e.input[m] = IF m \in open THEN {} ELSE d.input[m]
  BY <1>3 DEF Engines, NodeStates
<1> HIDE DEF e
<1>5. ASSUME NEW n \in Joins(g)
      PROVE  /\ Heard(g, e, n)
             /\ \A m \in e.after[n] : e.state[m] \in Results
             /\ \A m \in e.after[n] \cup e.input[n] : ~Await(g, m)
  <2>1. n \in Nodes(g) /\ g.after[n] \subseteq Nodes(g) /\ d.after[n] \subseteq Nodes(g)
        /\ g.after[n] \subseteq Predecessors(g, n)
    BY <1>1 DEF Joins, IsGraph, Engines, Satisfied, Predecessors
  <2>2. /\ Heard(g, d, n)
        /\ \A m \in d.after[n] : d.state[m] \in Results
        /\ \A m \in d.after[n] \cup d.input[n] : ~Await(g, m)
    BY <1>1 DEF VotesHeard
  <2>3. \A m \in e.after[n] : e.state[m] \in Results
    BY <1>2, <1>4, <2>1, <2>2 DEF Results
  <2>4. \A m \in e.after[n] \cup e.input[n] : ~Await(g, m)
    BY <1>4, <2>1, <2>2
  <2>5. ASSUME e.state[n] = "SKIPPED", NEW m \in g.after[n], ~Await(g, m)
        PROVE  e.state[m] \in Settled /\ (m \in e.input[n] => e.state[m] # "COMPLETED")
    <3>1. n \notin open /\ d.state[n] = "SKIPPED"
      BY <1>4, <2>1, <2>5
    <3>2. d.state[m] \in Settled /\ (m \in d.input[n] => d.state[m] # "COMPLETED")
      BY <2>2, <2>5, <3>1 DEF Heard
    <3>3. m \notin open /\ m # f
      BY <1>2, <2>1, <2>5, <3>1, <3>2 DEF Settled
    <3> QED BY <1>4, <2>1, <3>1, <3>2, <3>3
  <2> QED BY <2>3, <2>4, <2>5 DEF Heard
<1>6. e \in Voted(g)
  BY <1>1, <1>4, <1>5 DEF Voted, VotesHeard
<1> QED BY <1>6 DEF e

LEMMA VotedSend ==
    ASSUME NEW g, IsGraph(g), NEW d \in Voted(g), NEW f \in Nodes(g),
           d.state[f] = "READY"
    PROVE  [d EXCEPT !.state[f] = "RUNNING"] \in Voted(g)
<1> DEFINE e == [d EXCEPT !.state[f] = "RUNNING"]
<1>1. d \in Engines(g) /\ VotesHeard(g, d) /\ e \in Engines(g)
  BY SetOneTyped DEF Voted, NodeStates
<1>2. /\ e.loops = d.loops /\ e.handed = d.handed /\ e.after = d.after /\ e.input = d.input
      /\ \A m \in Nodes(g) : e.state[m] = IF m = f THEN "RUNNING" ELSE d.state[m]
  BY <1>1 DEF Engines
<1> HIDE DEF e
<1>3. ASSUME NEW n \in Joins(g) PROVE Heard(g, e, n) /\ \A m \in e.after[n] : e.state[m] \in Results
  <2>1. n \in Nodes(g) /\ g.after[n] \subseteq Nodes(g) /\ d.after[n] \subseteq Nodes(g)
        /\ Heard(g, d, n) /\ \A m \in d.after[n] : d.state[m] \in Results
    BY <1>1 DEF Joins, IsGraph, Engines, Satisfied, VotesHeard
  <2> QED BY <1>2, <2>1 DEF Heard, Results, Settled
<1>4. e \in Voted(g)
  BY <1>1, <1>2, <1>3 DEF Voted, VotesHeard
<1> QED BY <1>4 DEF e

(* What an await node waits for is no vote.                                *)
LEMMA VotesAwait ==
    ASSUME NEW g, IsGraph(g), NEW d \in AnyEngines(g), VotesHeard(g, d),
           NEW e, e.loops = d.loops, e.handed = d.handed, e.after = d.after, e.input = d.input,
           \A n \in Nodes(g) : \/ e.state[n] = d.state[n]
                               \/ Await(g, n) /\ e.state[n] \in {"WAITING_FOR_COMMAND", "COMPLETED"}
    PROVE  VotesHeard(g, e)
<1>1. ASSUME NEW n \in Joins(g) PROVE Heard(g, e, n) /\ \A m \in e.after[n] : e.state[m] \in Results
  <2>1. n \in Nodes(g) /\ g.after[n] \subseteq Nodes(g) /\ d.after[n] \subseteq Nodes(g)
    BY DEF Joins, IsGraph, AnyEngines, Satisfied
  <2>2. /\ Heard(g, d, n)
        /\ \A m \in d.after[n] : d.state[m] \in Results /\ ~Await(g, m)
    BY DEF VotesHeard
  <2>3. e.state[n] = "SKIPPED" => d.state[n] = "SKIPPED"
    BY <2>1
  <2>4. \A m \in g.after[n] \cup d.after[n] : ~Await(g, m) => e.state[m] = d.state[m]
    BY <2>1
  <2> QED BY <2>2, <2>3, <2>4 DEF Heard
<1> QED BY <1>1 DEF VotesHeard

LEMMA NewEngineVoted ==
    ASSUME NEW g, IsGraph(g), LoopSources(g) = {}
    PROVE  NewEngine(g) \in Voted(g)
<1> DEFINE e == NewEngine(g)
<1>1. /\ e.loops = {} /\ e.handed = {}
      /\ \A n \in Nodes(g) : /\ e.after[n] = {} /\ e.input[n] = {}
                             /\ e.state[n] = IF g.after[n] = {} THEN "READY" ELSE "PENDING"
  BY DEF NewEngine
<1>2. e \in Engines(g)
  BY NewEngineTyped
<1> HIDE DEF e
<1>3. e \in Voted(g)
  BY <1>1, <1>2 DEF Voted, VotesHeard, Heard, Joins
<1> QED BY <1>3 DEF e

(* A round opens every join that waited for what it opens, and of the rest *)
(* nothing changes: no join stays skipped behind an open voter.            *)
LEMMA VotedReset ==
    ASSUME NEW g, IsGraph(g), NEW d \in AnyEngines(g), VotesHeard(g, d), NEW S,
           \A n \in Nodes(g) : n \in S \/ d.state[n] \in Settled,
           \A n \in Joins(g) : \A m \in g.after[n] \cap S : Await(g, m) \/ n \in S,
           NEW carried \in Mailboxes(g), \A n \in Nodes(g) : \A m \in carried[n] : ~Await(g, m)
    PROVE  ResetForRound(g, d, S, carried) \in Voted(g)
<1> DEFINE e == Reset(g, d, S, carried)
<1>1. \A n \in Nodes(g) : d.state[n] = "WAITING_FOR_COMMAND" => n \in S
  BY DEF Settled
<1>2. IsReset(g, d, S, carried, e)
  BY <1>1, ResetTyped
<1> HIDE DEF e
<1>3. /\ e \in Engines(g) /\ e.loops = {} /\ \A n \in e.handed : ~Await(g, n)
      /\ ResetForRound(g, d, S, carried) = PromoteAll(g, e, S)
      /\ \A n \in Nodes(g) : e.state[n] = IF n \in S THEN "PENDING" ELSE d.state[n]
  BY <1>2 DEF IsReset, VotesHeard
<1>4. ASSUME NEW n \in Joins(g)
      PROVE  /\ Heard(g, e, n)
             /\ \A m \in e.after[n] : e.state[m] \in Results
             /\ \A m \in e.after[n] \cup e.input[n] : ~Await(g, m)
  <2>1. n \in Nodes(g) /\ g.after[n] \subseteq Nodes(g) /\ d.after[n] \subseteq g.after[n]
    BY DEF Joins, IsGraph, AnyEngines, Satisfied
  <2>2. CASE n \in S
    <3>1. /\ e.state[n] = "PENDING" /\ e.input[n] = carried[n]
          /\ \A m \in e.after[n] : m \in g.after[n] /\ Supplied(d, S, m)
      BY <1>2, <2>1, <2>2 DEF IsReset
    <3>2. ASSUME NEW m \in e.after[n] PROVE e.state[m] \in Results /\ ~Await(g, m)
      <4>1. m \in Nodes(g) /\ m \notin S /\ m \in d.handed /\ d.state[m] \notin Unavailable
        BY <2>1, <3>1 DEF Supplied
      <4> QED BY <1>3, <4>1 DEF VotesHeard, Settled, Unavailable, Results
    <3> QED BY <2>1, <3>1, <3>2 DEF Heard
  <2>3. CASE n \notin S
    <3>1. e.state[n] = d.state[n] /\ e.after[n] = d.after[n] /\ e.input[n] = d.input[n]
      BY <1>2, <2>1, <2>3 DEF IsReset
    <3>2. \A m \in g.after[n] : ~Await(g, m) => e.state[m] = d.state[m]
      BY <1>3, <2>1, <2>3
    <3>3. /\ Heard(g, d, n)
          /\ \A m \in d.after[n] : d.state[m] \in Results
          /\ \A m \in d.after[n] \cup d.input[n] : ~Await(g, m)
      BY DEF VotesHeard
    <3> QED BY <2>1, <3>1, <3>2, <3>3 DEF Heard
  <2> QED BY <2>2, <2>3
<1>5. e \in Voted(g)
  BY <1>3, <1>4 DEF Voted, VotesHeard
<1>6. \A q \in Voted(g), n \in Nodes(g) : TryPromote(g, q, n) \in Voted(g)
  BY VotedPromoted
<1> QED BY <1>3, <1>5, <1>6, PromoteAllStays

----------------------------------------------------------------------------
(* What runs stays ahead of what waits *)

(* Whatever routes to a node is a dependency of it.                        *)
Routed(g) == \A n \in Nodes(g) : RouteSources(g, n) \subseteq g.after[n]

(* Of a graph without loops: a node is ready or runs, and in the first     *)
(* round is skipped, only once all that it comes after has settled, and a  *)
(* pending one is satisfied only by what has settled.  No nodes run but    *)
(* those of b.running, and those of b.ready are ready.                     *)
Led(g, d, n) == \A m \in g.after[n] : d.state[m] \in Settled
Leads(g, b, d, n) ==
    /\ d.state[n] \in {"READY", "RUNNING"} => Led(g, d, n)
    /\ d.state[n] = "SKIPPED" /\ b.first => Led(g, d, n)
    /\ d.state[n] = "PENDING" => \A m \in d.after[n] : d.state[m] \in Settled
    /\ d.state[n] = "RUNNING" => n \in b.running
    /\ n \in b.ready => d.state[n] = "READY"
Leading(g, b) == {d \in Engines(g) : d.loops = {} /\ \A n \in Nodes(g) : Leads(g, b, d, n)}

LEMMA LeadingFields ==
    ASSUME NEW g, IsGraph(g), NEW b, NEW d \in Leading(g, b)
    PROVE  /\ d \in Engines(g) /\ d.loops = {}
           /\ \A n \in Nodes(g) : /\ Leads(g, b, d, n)
                                  /\ g.after[n] \subseteq Nodes(g)
                                  /\ d.after[n] \subseteq Nodes(g)
BY DEF Leading, IsGraph, Engines, Satisfied

(* The same with less to keep.                                             *)
LEMMA LeadingLess ==
    ASSUME NEW g, NEW b, NEW d \in Leading(g, b), NEW c, c.first = b.first,
           c.ready \subseteq b.ready, \A n \in Nodes(g) : d.state[n] = "RUNNING" => n \in c.running
    PROVE  d \in Leading(g, c)
BY DEF Leading, Leads

LEMMA LeadingOpened ==
    ASSUME NEW g, IsGraph(g), NEW b, NEW d \in Leading(g, b), NEW e \in Engines(g),
           Opened(g, d, e),
           \A n \in Nodes(g) : e.state[n] # d.state[n] =>
              /\ Led(g, e, n)
              /\ n \in b.ready => e.state[n] = "READY"
    PROVE  e \in Leading(g, b)
<1>1. /\ d.loops = {} /\ e.loops = {} /\ e.after = d.after
      /\ \A n \in Nodes(g) : /\ Leads(g, b, d, n)
                             /\ g.after[n] \subseteq Nodes(g) /\ d.after[n] \subseteq Nodes(g)
  BY LeadingFields DEF Opened
<1>2. \A m \in Nodes(g) : d.state[m] \in Settled => e.state[m] \in Settled
  BY DEF Opened, Settled
<1>3. ASSUME NEW n \in Nodes(g) PROVE Leads(g, b, e, n)
  <2>1. CASE e.state[n] = d.state[n]
    BY <1>1, <1>2, <2>1 DEF Leads, Led
  <2>2. CASE e.state[n] # d.state[n]
    BY <2>2 DEF Leads, Opened
  <2> QED BY <2>1, <2>2
<1> QED BY <1>1, <1>3 DEF Leading

(* A cascade skips no ready node: what it comes after has settled, and a   *)
(* cascade goes on from open nodes.                                        *)
LEMMA LeadingCascades ==
    ASSUME NEW g, IsGraph(g), Routed(g), NEW b, NEW d \in Leading(g, b), NEW S,
           NEW T \in Cascades(g, d, S), \A n \in S \cap Nodes(g) : n \notin b.ready /\ Led(g, d, n)
    PROVE  SetState(d, T, "SKIPPED") \in Leading(g, b)
<1> DEFINE e == SetState(d, T, "SKIPPED")
<1>1. d \in Engines(g) /\ \A n \in Nodes(g) : Leads(g, b, d, n) /\ g.after[n] \subseteq Nodes(g)
  BY LeadingFields
<1>2. e \in Engines(g)
  BY <1>1, SetStateTyped DEF NodeStates
<1>3. /\ e.loops = d.loops /\ e.handed = d.handed /\ e.after = d.after /\ e.input = d.input
      /\ \A n \in Nodes(g) : e.state[n] = IF n \in T THEN "SKIPPED" ELSE d.state[n]
  BY <1>1 DEF SetState, Engines
<1> HIDE DEF e
<1>4. T \subseteq Open(g, d)
  BY DEF Cascades
<1>5. Opened(g, d, e)
  BY <1>3, <1>4 DEF Opened, Open
<1>6. \A m \in Nodes(g) : m \in T \/ d.state[m] \in Settled => e.state[m] \in Settled
  BY <1>3 DEF Settled
<1>7. ASSUME NEW n \in Nodes(g), e.state[n] # d.state[n] PROVE Led(g, e, n) /\ n \notin b.ready
  <2>1. n \in T /\ g.after[n] \subseteq Nodes(g) /\ Leads(g, b, d, n)
    BY <1>1, <1>3, <1>7
  <2>2. CASE n \in S
    BY <1>6, <2>1, <2>2 DEF Led
  <2>3. CASE n \notin S
    <3>1. /\ Predecessors(g, n) \cap T # {}
          /\ \A m \in Predecessors(g, n) : m \in T \/ d.state[m] \in Unavailable
      BY <2>1, <2>3 DEF Cascades
    <3>2. Predecessors(g, n) = g.after[n]
      BY DEF Routed, Predecessors
    <3>3. Led(g, e, n)
      BY <1>6, <2>1, <3>1, <3>2 DEF Led, Unavailable, Settled
    <3>4. ~Led(g, d, n)
      BY <1>4, <3>1, <3>2 DEF Led, Open, Settled
    <3> QED BY <2>1, <3>3, <3>4 DEF Leads
  <2> QED BY <2>2, <2>3
<1>8. e \in Leading(g, b)
  BY <1>2, <1>5, <1>7, LeadingOpened
<1> QED BY <1>8 DEF e

LEMMA LeadingPromoted ==
    ASSUME NEW g, IsGraph(g), NEW b, NEW d \in Leading(g, b), NEW n \in Nodes(g)
    PROVE  /\ TryPromote(g, d, n) \in Leading(g, b)
           /\ TryPromote(g, d, n).state[n] = "PENDING" => TryPromote(g, d, n) = d
<1> DEFINE e == [d EXCEPT !.state[n] = "READY"]
<1>1. /\ d \in Engines(g) /\ e \in Engines(g) /\ Leads(g, b, d, n)
      /\ g.after[n] \subseteq Nodes(g)
  BY LeadingFields, SetOneTyped DEF NodeStates
<1>2. /\ e.loops = d.loops /\ e.handed = d.handed /\ e.after = d.after /\ e.input = d.input
      /\ \A m \in Nodes(g) : e.state[m] = IF m = n THEN "READY" ELSE d.state[m]
  BY <1>1 DEF Engines
<1> HIDE DEF e
<1>3. ASSUME d.state[n] = "PENDING", Promotable(g, d, n) PROVE e \in Leading(g, b)
  <2>1. Opened(g, d, e)
    BY <1>2, <1>3 DEF Opened
  <2>2. Led(g, d, n)
    BY <1>1, <1>3 DEF Promotable, Leads, Led
  <2>3. Led(g, e, n)
    BY <1>1, <1>2, <1>3, <2>2 DEF Led, Settled
  <2> QED BY <1>1, <1>2, <2>1, <2>3, LeadingOpened
<1>4. e.state[n] = "READY"
  BY <1>2
<1> QED BY <1>3, <1>4 DEF TryPromote, e

LEMMA LeadingSettle ==
    ASSUME NEW g, IsGraph(g), NEW b, NEW d \in Leading(g, b)
    PROVE  Settle(g, d) \in Leading(g, b)
<1> DEFINE e == Settle(g, d)
<1>1. /\ d \in Engines(g) /\ e \in Engines(g)
      /\ \A n \in Nodes(g) : Leads(g, b, d, n) /\ g.after[n] \subseteq Nodes(g)
  BY LeadingFields, SettleTyped
<1>2. /\ e.loops = d.loops /\ e.handed = d.handed /\ e.after = d.after /\ e.input = d.input
      /\ \A n \in Nodes(g) : e.state[n] = IF n \notin Stuck(g, d) THEN d.state[n]
                                          ELSE IF Promotable(g, d, n) THEN "READY"
                                          ELSE "SKIPPED"
  BY <1>1 DEF Settle, Engines
<1> HIDE DEF e
<1>3. Opened(g, d, e)
  BY <1>2 DEF Opened, Stuck
<1>4. \A m \in Nodes(g) : d.state[m] \in Settled => e.state[m] \in Settled
  BY <1>3 DEF Opened, Settled
<1>5. ASSUME NEW n \in Nodes(g), e.state[n] # d.state[n] PROVE Led(g, e, n) /\ n \notin b.ready
  <2>1. d.state[n] = "PENDING" /\ Led(g, d, n)
    BY <1>2, <1>5 DEF Stuck, Led
  <2> QED BY <1>1, <1>4, <2>1 DEF Led, Leads
<1>6. e \in Leading(g, b)
  BY <1>1, <1>3, <1>5, LeadingOpened
<1> QED BY <1>6 DEF e

(* A failure skips no node that was ready before: it does not come after   *)
(* the node that failed.                                                   *)
LEMMA LeadingSkips ==
    ASSUME NEW g, IsGraph(g), Routed(g), NEW b, NEW d \in Leading(g, b)
    PROVE  /\ \A f : (\A n \in b.ready \cap Nodes(g) : f \notin g.after[n])
                        => SkipDependentsOfFailed(g, d, f) \in Leading(g, b)
           /\ \A n \in Nodes(g) : SkipUntakenBranch(g, TryPromote(g, d, n), n) \in Leading(g, b)
<1>1. ASSUME NEW f, \A n \in b.ready \cap Nodes(g) : f \notin g.after[n]
      PROVE  SkipDependentsOfFailed(g, d, f) \in Leading(g, b)
  <2> DEFINE plain(n) == /\ \/ f \in g.after[n]
                            \/ \E r \in RoutesTo(g, n) : r.from = f /\ r.port # FailurePort
                         /\ n \notin Receivers(g, f, FailurePort)
                         /\ f \notin d.input[n]
             S == {n \in Nodes(g) : /\ d.state[n] \in {"PENDING", "READY"}
                                    /\ plain(n)
                                    /\ \A m \in Predecessors(g, n) : d.state[m] \in Unavailable}
  <2>1. SkipDependentsOfFailed(g, d, f) = SkipWithDependents(g, d, S)
    BY DEF SkipDependentsOfFailed
  <2>2. S \in SUBSET Open(g, d)
    BY DEF Open
  <2>3. \A n \in S \cap Nodes(g) : n \notin b.ready /\ Led(g, d, n)
    <3> SUFFICES ASSUME NEW n \in S PROVE n \notin b.ready /\ Led(g, d, n)
      OBVIOUS
    <3>1. n \in Nodes(g) /\ plain(n) /\ \A m \in Predecessors(g, n) : d.state[m] \in Unavailable
      OBVIOUS
    <3>2. f \in g.after[n]
      BY <3>1 DEF Routed, RouteSources
    <3> QED BY <1>1, <3>1, <3>2 DEF Led, Predecessors, Unavailable, Settled
  <2> HIDE DEF S
  <2>4. PICK T \in Cascades(g, d, S) : SkipWithDependents(g, d, S) = SetState(d, T, "SKIPPED")
    BY <2>2, SkipCascades
  <2> QED BY <2>1, <2>3, <2>4, LeadingCascades
<1>2. ASSUME NEW n \in Nodes(g)
      PROVE  SkipUntakenBranch(g, TryPromote(g, d, n), n) \in Leading(g, b)
  <2> DEFINE e == TryPromote(g, d, n)
  <2>1. e \in Leading(g, b) /\ (e.state[n] = "PENDING" => e = d)
    BY LeadingPromoted
  <2> HIDE DEF e
  <2>2. ASSUME e.state[n] = "PENDING", g.after[n] \subseteq e.after[n]
        PROVE  SkipUntakenBranch(g, e, n) \in Leading(g, b)
    <3>1. e = d /\ d.state[n] = "PENDING" /\ g.after[n] \subseteq d.after[n]
          /\ {n} \in SUBSET Open(g, d) /\ Leads(g, b, d, n)
      BY <2>1, <2>2, LeadingFields DEF Open
    <3>2. PICK T \in Cascades(g, d, {n}) : SkipWithDependents(g, d, {n}) = SetState(d, T, "SKIPPED")
      BY <3>1, SkipCascades
    <3>3. n \notin b.ready /\ Led(g, d, n)
      BY <3>1 DEF Leads, Led
    <3>4. SkipWithDependents(g, d, {n}) \in Leading(g, b)
      BY <3>2, <3>3, LeadingCascades
    <3>5. SkipUntakenBranch(g, d, n) \in {d, SkipWithDependents(g, d, {n})}
      BY DEF SkipUntakenBranch
    <3> QED BY <3>1, <3>4, <3>5
  <2>3. ASSUME ~(e.state[n] = "PENDING" /\ g.after[n] \subseteq e.after[n])
        PROVE  SkipUntakenBranch(g, e, n) \in Leading(g, b)
    <3>1. SkipUntakenBranch(g, e, n) = e
      BY <2>3 DEF SkipUntakenBranch
    <3> QED BY <2>1, <3>1
  <2>4. SkipUntakenBranch(g, e, n) \in Leading(g, b)
    BY <2>2, <2>3
  <2> QED BY <2>4 DEF e
<1> QED BY <1>1, <1>2

LEMMA LeadingSupple ==
    ASSUME NEW g, IsGraph(g), Routed(g), Iterated(g) = {}, NEW b
    PROVE  /\ Supple(g, Leading(g, b))
           /\ \A f : (\A n \in b.ready \cap Nodes(g) : f \notin g.after[n])
                        => SkipsFor(g, Leading(g, b), f)
<1>1. ASSUME NEW d \in Leading(g, b), NEW n \in Nodes(g)
      PROVE  /\ WakeLoopSource(g, d, n) = d
             /\ \A f : MayWake(g, f, n) => WakeLoopGatewayReceiver(g, d, f, n) = d
  <2>1. d.loops = {}
    BY DEF Leading
  <2>2. WakeLoopSource(g, d, n) = d
    BY <2>1 DEF WakeLoopSource, RunningLoop
  <2>3. \A f : MayWake(g, f, n) => ~LoopGateway(g, f)
    BY DEF MayWake
  <2> QED BY <2>2, <2>3 DEF WakeLoopGatewayReceiver
<1>2. Leading(g, b) \subseteq Engines(g)
  BY DEF Leading
<1>3. ASSUME NEW d \in Leading(g, b)
      PROVE  /\ Settle(g, d) \in Leading(g, b)
             /\ \A n \in Nodes(g) :
                   /\ TryPromote(g, d, n) \in Leading(g, b)
                   /\ SkipUntakenBranch(g, TryPromote(g, d, n), n) \in Leading(g, b)
  BY LeadingSkips, LeadingSettle, LeadingPromoted
<1>4. Supple(g, Leading(g, b))
  BY <1>1, <1>2, <1>3 DEF Supple
<1> QED BY <1>4, LeadingSkips DEF SkipsFor

(* A node that hands off or fails has settled.                             *)
LEMMA LeadingLeaves ==
    ASSUME NEW g, IsGraph(g), NEW b, NEW d \in Leading(g, b), NEW f \in Nodes(g) \ b.ready,
           NEW e \in Engines(g), e.loops = d.loops, e.state[f] \in Results,
           \A n \in Nodes(g) \ {f} : e.state[n] = d.state[n],
           \A n \in Nodes(g) : e.after[n] \in {d.after[n], d.after[n] \cup {f}}
    PROVE  e \in Leading(g, b)
<1>1. /\ d.loops = {}
      /\ \A n \in Nodes(g) : /\ Leads(g, b, d, n)
                             /\ g.after[n] \subseteq Nodes(g) /\ d.after[n] \subseteq Nodes(g)
  BY LeadingFields
<1>2. e.state[f] \in Settled /\ \A m \in Nodes(g) : d.state[m] \in Settled => e.state[m] \in Settled
  BY DEF Results, Settled
<1>3. ASSUME NEW n \in Nodes(g) PROVE Leads(g, b, e, n)
  <2>1. CASE n = f
    BY <2>1 DEF Leads, Results
  <2>2. CASE n # f
    <3>1. e.state[n] = d.state[n] /\ Leads(g, b, d, n)
      BY <1>1, <2>2
    <3>2. Led(g, d, n) => Led(g, e, n)
      BY <1>1, <1>2 DEF Led
    <3>3. (\A m \in d.after[n] : d.state[m] \in Settled) => \A m \in e.after[n] : e.state[m] \in Settled
      BY <1>1, <1>2
    <3> QED BY <3>1, <3>2, <3>3 DEF Leads
  <2> QED BY <2>1, <2>2
<1> QED BY <1>1, <1>3 DEF Leading

LEMMA HandoffLeading ==
    ASSUME NEW g, IsGraph(g), Routed(g), Iterated(g) = {}, NEW b, NEW d \in Leading(g, b),
           NEW f \in Nodes(g) \ b.ready, d.state[f] \notin Settled, NEW port
    PROVE  Handoff(g, d, f, port) \in Leading(g, b)
<1> DEFINE sent == Sent(g, d, f, port)
           told == Told(g, sent, f, port, Satisfies(g, f, port))
           X == Leading(g, b)
<1>1. /\ d \in Engines(g) /\ d.loops = {}
      /\ \A n \in b.ready \cap Nodes(g) : f \notin g.after[n]
  BY LeadingFields DEF Leads, Led
<1>2. /\ sent \in Engines(g) /\ sent.loops = d.loops /\ sent.after = d.after
      /\ sent.state[f] \in Results
      /\ \A n \in Nodes(g) \ {f} : sent.state[n] = d.state[n]
  BY <1>1, SentTyped
<1> HIDE DEF sent
<1>3. /\ told \in Engines(g) /\ told.loops = sent.loops /\ told.state = sent.state
      /\ \A n \in Nodes(g) : told.after[n] \in {sent.after[n], sent.after[n] \cup {f}}
  BY <1>2, ToldTyped DEF Satisfies
<1> HIDE DEF told
<1>4. told \in X
  BY <1>2, <1>3, LeadingLeaves
<1>5. Supple(g, X) /\ SkipsFor(g, X, f)
  BY <1>1, LeadingSupple
<1> HIDE DEF X
<1>6. PICK e \in X : Handoff(g, d, f, port) = ReconcileSettled(g, e)
  BY <1>4, <1>5, HandoffStays DEF told, sent
<1>7. Handoff(g, d, f, port) \in X
  BY <1>5, <1>6, ReconcileSettledStays
<1> QED BY <1>7 DEF X

LEMMA FailNodeLeading ==
    ASSUME NEW g, IsGraph(g), Routed(g), Iterated(g) = {}, NEW b, NEW d \in Leading(g, b),
           NEW f \in Nodes(g) \ b.ready, d.state[f] \notin Settled
    PROVE  FailNode(g, d, f) \in Leading(g, b)
<1> DEFINE lost == Lost(d, f)
           told == Told(g, lost, f, FailurePort, Dependents(g, f))
           X == Leading(g, b)
<1>1. d \in Engines(g) /\ \A n \in b.ready \cap Nodes(g) : f \notin g.after[n]
  BY LeadingFields DEF Leads, Led
<1>2. /\ lost \in Engines(g) /\ lost.loops = d.loops /\ lost.after = d.after
      /\ \A n \in Nodes(g) : lost.state[n] = IF n = f THEN "FAILED" ELSE d.state[n]
  BY <1>1, LostTyped
<1> HIDE DEF lost
<1>3. /\ told \in Engines(g) /\ told.loops = lost.loops /\ told.state = lost.state
      /\ \A n \in Nodes(g) : told.after[n] \in {lost.after[n], lost.after[n] \cup {f}}
  BY <1>2, ToldTyped
<1> HIDE DEF told
<1>4. told \in X
  <2>1. told.state[f] \in Results
    BY <1>2, <1>3 DEF Results
  <2> QED BY <1>2, <1>3, <2>1, LeadingLeaves
<1>5. Supple(g, X) /\ SkipsFor(g, X, f)
  BY <1>1, LeadingSupple
<1> HIDE DEF X
<1>6. PICK e \in X : FailNode(g, d, f) = ReconcileSettled(g, e)
  BY <1>4, <1>5, FailNodeStays DEF told, lost
<1>7. FailNode(g, d, f) \in X
  BY <1>5, <1>6, ReconcileSettledStays
<1> QED BY <1>7 DEF X

(* In the first round nothing was skipped because of a node that runs, so  *)
(* nothing opens again with it.                                            *)
LEMMA LeadingCorrected ==
    ASSUME NEW g, IsGraph(g), Routed(g), NEW b, b.first, NEW d \in Leading(g, b),
           NEW f \in Nodes(g), d.state[f] = "RUNNING", NEW o, o = ReopenSkipped(g, d, f)
    PROVE  [o EXCEPT !.state[f] = "READY", !.handed = @ \ {f}] \in Leading(g, b)
<1> DEFINE e == [o EXCEPT !.state[f] = "READY", !.handed = @ \ {f}]
<1>1. /\ d \in Engines(g) /\ d.loops = {} /\ o \in Engines(g)
      /\ \A n \in Nodes(g) : /\ Leads(g, b, d, n)
                             /\ g.after[n] \subseteq Nodes(g) /\ d.after[n] \subseteq Nodes(g)
  BY LeadingFields, ReopenSkippedTyped
<1>2. \A m \in Nodes(g) : d.state[m] = "SKIPPED" /\ f \in Predecessors(g, m) => m \in {}
  <2>1. \A m \in Nodes(g) : Predecessors(g, m) = g.after[m]
    BY DEF Routed, Predecessors
  <2> QED BY <1>1, <2>1 DEF Leads, Led, Settled
<1>3. SkippedBy(g, d, f) \in SUBSET {}
  BY <1>2, SkippedWithin
<1>4. o.loops = {} /\ o.after = d.after /\ \A m \in Nodes(g) : o.state[m] = d.state[m]
  BY <1>1, <1>3 DEF ReopenSkipped, SetState, Engines
<1>5. /\ e \in Engines(g) /\ e.loops = {} /\ e.after = d.after
      /\ \A m \in Nodes(g) : e.state[m] = IF m = f THEN "READY" ELSE d.state[m]
  BY <1>1, <1>4 DEF Engines, NodeStates
<1> HIDE DEF e
<1>6. \A m \in Nodes(g) : d.state[m] \in Settled => e.state[m] \in Settled
  BY <1>5 DEF Settled
<1>7. ASSUME NEW n \in Nodes(g) PROVE Leads(g, b, e, n)
  BY <1>1, <1>5, <1>6 DEF Leads, Led
<1>8. e \in Leading(g, b)
  BY <1>5, <1>7 DEF Leading
<1> QED BY <1>8 DEF e

LEMMA LeadingSend ==
    ASSUME NEW g, IsGraph(g), NEW b, NEW d \in Leading(g, b), NEW f \in Nodes(g),
           d.state[f] = "READY", NEW c, c.first = b.first, c.ready = b.ready \ {f},
           c.running = b.running \cup {f}
    PROVE  [d EXCEPT !.state[f] = "RUNNING"] \in Leading(g, c)
<1> DEFINE e == [d EXCEPT !.state[f] = "RUNNING"]
<1>1. /\ d \in Engines(g) /\ d.loops = {} /\ e \in Engines(g)
      /\ \A n \in Nodes(g) : /\ Leads(g, b, d, n)
                             /\ g.after[n] \subseteq Nodes(g) /\ d.after[n] \subseteq Nodes(g)
  BY LeadingFields, SetOneTyped DEF NodeStates
<1>2. /\ e.loops = {} /\ e.after = d.after
      /\ \A m \in Nodes(g) : e.state[m] = IF m = f THEN "RUNNING" ELSE d.state[m]
  BY <1>1 DEF Engines
<1> HIDE DEF e
<1>3. \A m \in Nodes(g) : d.state[m] \in Settled => e.state[m] \in Settled
  BY <1>2 DEF Settled
<1>4. ASSUME NEW n \in Nodes(g) PROVE Leads(g, c, e, n)
  BY <1>1, <1>2, <1>3 DEF Leads, Led
<1>5. e \in Leading(g, c)
  BY <1>1, <1>2, <1>4 DEF Leading
<1> QED BY <1>5 DEF e

LEMMA NewEngineLeading ==
    ASSUME NEW g, IsGraph(g), LoopSources(g) = {}, NEW b, b.ready = {}
    PROVE  NewEngine(g) \in Leading(g, b)
<1> DEFINE e == NewEngine(g)
<1>1. /\ e.loops = {}
      /\ \A n \in Nodes(g) : /\ e.after[n] = {}
                             /\ e.state[n] = IF g.after[n] = {} THEN "READY" ELSE "PENDING"
  BY DEF NewEngine
<1>2. e \in Engines(g)
  BY NewEngineTyped
<1> HIDE DEF e
<1>3. e \in Leading(g, b)
  BY <1>1, <1>2 DEF Leading, Leads, Led
<1> QED BY <1>3 DEF e

(* A round starts what it resets once all that it needs is settled, and    *)
(* what it leaves alone is settled.                                        *)
LEMMA LeadingReset ==
    ASSUME NEW g, IsGraph(g), NEW d \in AnyEngines(g), d.loops = {}, NEW S,
           \A n \in Nodes(g) : n \in S \/ d.state[n] \in Settled,
           NEW carried \in Mailboxes(g), NEW b, ~b.first, b.ready = {}
    PROVE  ResetForRound(g, d, S, carried) \in Leading(g, b)
<1> DEFINE e == Reset(g, d, S, carried)
<1>1. \A n \in Nodes(g) : d.state[n] = "WAITING_FOR_COMMAND" => n \in S
  BY DEF Settled
<1>2. IsReset(g, d, S, carried, e)
  BY <1>1, ResetTyped
<1> HIDE DEF e
<1>3. /\ e \in Engines(g) /\ e.loops = {}
      /\ ResetForRound(g, d, S, carried) = PromoteAll(g, e, S)
  BY <1>2 DEF IsReset
<1>4. ASSUME NEW n \in Nodes(g) PROVE Leads(g, b, e, n)
  <2>1. CASE n \in S
    <3>1. /\ e.state[n] = "PENDING"
          /\ \A m \in e.after[n] : m \in g.after[n] /\ m \in Nodes(g) /\ m \notin S
      BY <1>2, <2>1 DEF IsReset, Supplied, IsGraph
    <3>2. \A m \in Nodes(g) \ S : e.state[m] \in Settled
      BY <1>2 DEF IsReset
    <3> QED BY <3>1, <3>2 DEF Leads
  <2>2. CASE n \notin S
    <3>1. e.state[n] \in Settled
      BY <1>2, <2>2 DEF IsReset
    <3> QED BY <3>1 DEF Leads, Settled
  <2> QED BY <2>1, <2>2
<1>5. e \in Leading(g, b)
  BY <1>3, <1>4 DEF Leading
<1>6. \A q \in Leading(g, b), n \in Nodes(g) : TryPromote(g, q, n) \in Leading(g, b)
  BY LeadingPromoted
<1> QED BY <1>3, <1>5, <1>6, PromoteAllStays
=============================================================================
