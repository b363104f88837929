------------------------------ MODULE MCDagRun ------------------------------
(***************************************************************************)
(* Graphs for the model checker: the loops of the repository's tests, and  *)
(* two generated families of three nodes.  The last node of a generated    *)
(* graph is a join or an await node, the first two are agents; every pair  *)
(* is unrelated, ordered by after, or linked by a route of the earlier     *)
(* node's success or failure port, and the later agent may have a feedback *)
(* route on its failure port.                                              *)
(***************************************************************************)
EXTENDS DagRun

Graph(kinds, after, routes) ==
    [size |-> Len(kinds), kind |-> kinds, after |-> after, fatal |-> {},
     routes |-> {[from |-> r[1], port |-> r[2], to |-> r[3]] : r \in routes}]

(* dormantWhileDag of tests/cold-recovery.test.ts *)
WhileGraph ==
    Graph(<<"while", "agent", "agent", "agent">>,
          <<{}, {1}, {1}, {1}>>,
          {<<1, "continue", 2>>, <<2, "done", 1>>, <<1, "done", 3>>, <<1, "exhausted", 4>>})

(* The same with an agent that repairs a failed iteration.                 *)
RecoverableWhile ==
    Graph(<<"while", "agent", "agent", "agent", "agent">>,
          <<{}, {1}, {1, 2}, {1}, {1}>>,
          {<<1, "continue", 2>>, <<2, "done", 1>>, <<2, "failed", 3>>, <<3, "done", 1>>,
           <<1, "done", 4>>, <<1, "exhausted", 5>>})

(* Plan, build, review; a rejected review goes back to the builder.        *)
ReviewLoop ==
    Graph(<<"agent", "agent", "agent">>, <<{}, {1}, {2}>>,
          {<<1, "done", 2>>, <<2, "done", 3>>, <<3, "failed", 2>>})

(* A chain whose second node's failure port ends the run.                  *)
FatalChain == [Graph(<<"agent", "agent", "agent">>, <<{}, {1}, {2}>>,
                       {<<1, "done", 2>>, <<2, "failed", 3>>})
                 EXCEPT !.fatal = {2}]

(* More agents ready at once than the limit lets run.                      *)
Fan == Graph(<<"agent", "agent", "agent", "join_any">>,
             <<{}, {}, {}, {1, 2, 3}>>,
             {<<1, "done", 4>>, <<2, "done", 4>>, <<3, "failed", 4>>})

Pairs    == {p \in (1 .. 3) \X (1 .. 3) : p[1] < p[2]}
Feedback == {{}, {<<2, "failed", 1>>}}

Family(last, links) ==
    {Graph(<<"agent", "agent", last>>,
           [i \in 1 .. 3 |-> {p[1] : p \in {q \in Pairs : q[2] = i /\ link[q] # "none"}}],
           back \cup {<<p[1], link[p], p[2]>> :
                        p \in {q \in Pairs : link[q] \in {"done", "failed"}}}) :
       link \in [Pairs -> links], back \in Feedback}

(* The last node comes after something: it does not start the run.         *)
Sensible(g) == g.after[3] # {}

JoinGraphs  == {g \in Family("join_any", {"none", "done", "failed"})
                        \cup Family("join_all", {"none", "done", "failed"}) : Sensible(g)}
AwaitGraphs == {g \in Family("await", {"none", "after"}) : Sensible(g)}

TestGraphs == {WhileGraph, RecoverableWhile, ReviewLoop, FatalChain, Fan} \cup JoinGraphs \cup AwaitGraphs

(* Graphs beyond the families: a loop that iterates while its agents get   *)
(* Workers, one with an agent in its body that comes after nothing, a join *)
(* whose vote is a failure, a loop gateway between a commanded agent and   *)
(* its await node, an agent that was skipped when the commanded one        *)
(* failed, one that was skipped in the round before and depends on two,    *)
(* and an agent that two others feed back to while it works.               *)
LoopFan ==
    Graph(<<"agent", "agent", "while", "agent", "agent", "agent">>,
          <<{4}, {4}, {}, {3}, {4}, {3}>>,
          {<<3, "continue", 4>>, <<4, "done", 3>>, <<4, "done", 1>>, <<4, "done", 2>>,
           <<3, "done", 6>>})

RootInLoop ==
    Graph(<<"while", "agent", "agent", "agent">>, <<{}, {1}, {}, {1}>>,
          {<<1, "continue", 2>>, <<2, "done", 1>>, <<2, "failed", 3>>, <<1, "exhausted", 4>>})

FailureVote ==
    Graph(<<"agent", "agent", "join_any", "agent">>, <<{}, {}, {1, 2}, {}>>,
          {<<1, "failed", 3>>, <<2, "done", 3>>})

LoopInRound ==
    Graph(<<"agent", "while", "agent", "await">>, <<{}, {1}, {2}, {2, 3}>>,
          {<<1, "done", 2>>, <<2, "continue", 3>>, <<3, "done", 2>>})

SkippedAside ==
    Graph(<<"agent", "agent", "await", "agent">>, <<{}, {1}, {1, 4}, {}>>, {})

SkippedBefore ==
    Graph(<<"agent", "agent", "agent", "await">>, <<{}, {}, {1, 2}, {1, 2}>>,
          {<<2, "failed", 3>>})

TwiceFed ==
    Graph(<<"agent", "agent", "agent", "agent", "agent">>, <<{5}, {5}, {}, {3}, {3}>>,
          {<<3, "done", 4>>, <<3, "done", 5>>, <<4, "done", 3>>, <<5, "done", 3>>})

LoneWhile == {WhileGraph}
Joins     == JoinGraphs
LoopFans     == {LoopFan}
RootsInLoops == {RootInLoop}
FailureVotes == {FailureVote}
LoopsInRound == {LoopInRound}
SkippedAsides == {SkippedAside}
SkippedBefores == {SkippedBefore}
TwiceFeds == {TwiceFed}
=============================================================================
