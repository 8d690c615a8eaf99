------------------------ MODULE MCEvaluationHistory ------------------------
(* Two threads of two processes over two histories that share a head file.     *)
EXTENDS EvaluationHistory

CONSTANTS w1, w2, p1, p2, h1, h2

MCHome == w1 :> p1 @@ w2 :> p2

MCMetric == {"recall"}
MCTolerance == [m \in MCMetric |-> 1]

Offer(id, commit, controlled, recall, p0) ==
    [id |-> id, commit |-> commit, controlled |-> controlled,
     metrics |-> [m \in MCMetric |-> recall], p0 |-> p0]

First == Offer("first", "a", "x", 3, 0)

(* A worse run, and one under other variables. *)
MCRuns == {First, Offer("worse", "b", "x", 1, 1), Offer("other", "c", "y", 3, 0)}
==============================================================================
