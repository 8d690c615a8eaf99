----------------------------- MODULE MCEvaluation -----------------------------
(* The parts of the evaluation that share no state, checked together: graded      *)
(* runs before the gate, the shadow history, and the releases of the dataset,     *)
(* which this module extends.  A behaviour is one of one part; the others stay as *)
(* they began.                                                                    *)
EXTENDS DatasetRelease, GradedRuns, ShadowHistory

ASSUME UnitAssumption == Unit \in Nat \ {0}

MCTolerance == [m \in {"task_completion_rate", "candidate_accuracy", "candidate_macro_f1",
                       "citation_compliance", "tool_recall", "evidence_coverage"} |->
                    IF m = "tool_recall" THEN Unit \div 20 ELSE 0]

------------------------------------------------------------------------------
(* Four simulator runs of two scenarios, and an empty one; two policies. *)
Blockers ==
    {"p0_findings", "sensitive_leaks", "evidence_violations", "device_writes", "notifications"}
Calm == [b \in Blockers |-> 0]
Scenario(name, completed, degraded, safety) ==
    [name |-> name, completed |-> completed, degraded |-> degraded, safety |-> safety]

RunOf(id, commit, controlled, scenarios) ==
    [id |-> id, commit |-> commit, controlled |-> controlled, scenarios |-> scenarios]

Calmly == Scenario("one", TRUE, TRUE, Calm)
MCShadowRun == {
    RunOf("base", "a", "x", {Calmly, Scenario("two", TRUE, FALSE, Calm)}),
    RunOf("worse", "b", "x", {Calmly, Scenario("two", FALSE, FALSE, Calm)}),
    RunOf("unsafe", "c", "x", {Calmly, Scenario("two", TRUE, TRUE, [Calm EXCEPT !["device_writes"] = 2])}),
    RunOf("other", "d", "y", {Calmly}),
    RunOf("base", "b", "x", {})}

MCPolicy == {[r \in {"completed", "degraded"} |-> 0], [r \in {"completed", "degraded"} |-> 50]}

------------------------------------------------------------------------------
MCLabels == [camera |-> {"offline", "lens"}, access |-> {"denied"}]
MCTypes == [camera |-> {"status", "stream"}, access |-> {"door"}]

CaseOf(id, split, fault, shape, label) ==
    [id |-> id, template |-> id, split |-> split, fault |-> fault,
     facts |-> [shape |-> shape, variant |-> id], allowed |-> {"ping", "play"}, label |-> label,
     tools |-> {"ping"}, evidence |-> IF fault = "camera" THEN {"status"} ELSE {"door"},
     source |-> "synthetic", record |-> id, version |-> 1]

MCBaseCases ==
    {CaseOf("b1", "dev", "camera", 1, "offline"), CaseOf("b2", "validation", "camera", 2, "lens"),
     CaseOf("b3", "test", "camera", 3, "offline")}

Annotation(c, id, reviewer, label) ==
    [id |-> <<c.id, id>>, task |-> c.id, reviewer |-> reviewer, label |-> label,
     tools |-> c.tools, evidence |-> c.evidence]

(* The candidate an approved decision leads to. *)
Agreed(x, first, second, d) ==
    [task |-> x.id, case |-> x.case, fault |-> x.fault, label |-> d.label, tools |-> d.tools,
     evidence |-> d.evidence, annotations |-> {first.id, second.id}, adjudication |-> d.id,
     adjudicator |-> d.adjudicator]

(* An addition in good order for a case and a target version. *)
Proposal(c0, target) ==
    LET c == [c0 EXCEPT !.version = target]
        task == [id |-> c.id, case |-> c.id, fault |-> c.fault, facts |-> c.facts, tools |-> c.allowed]
        first == Annotation(c, 1, "ann", c.label)
        second == Annotation(c, 2, "bob", CHOOSE l \in MCLabels[c.fault] : TRUE)
        decision == [id |-> <<c.id, 3>>, task |-> c.id, first |-> first.id, second |-> second.id,
                     adjudicator |-> "cleo", action |-> "approve", label |-> c.label,
                     tools |-> c.tools, evidence |-> c.evidence]
    IN  [case |-> c, task |-> task, first |-> first, second |-> second, decision |-> decision,
         candidate |-> [id |-> <<c.id, 4>>, governed |-> Agreed(task, first, second, decision)],
         provenance |-> [kind |-> "synthetic", record |-> c.record]]

(* The candidate follows the proof, so that only the fault named is in it. *)
Redone(x) == [x EXCEPT !.candidate.governed = Agreed(x.task, x.first, x.second, x.decision)]

MCBatches ==
    LET dev   == CaseOf("n1", "dev", "camera", 4, "lens")
        twin  == CaseOf("n2", "test", "camera", 4, "lens")
        alike == CaseOf("n3", "test", "camera", 1, "offline")
        door  == CaseOf("n4", "test", "access", 1, "denied")
        good  == Proposal(dev, 2)
    IN  {{good}, {good, Proposal(door, 2)}, {good, Proposal(twin, 2)},
         {Proposal(dev, 3)}, {Proposal(twin, 3)}, {Proposal(alike, 2)}}
        \cup {{x} : x \in
                {Redone([Proposal(CaseOf("n5", "dev", "camera", 5, "lens"), 2)
                            EXCEPT !.decision.adjudicator = "bob"]),
                 [Proposal(CaseOf("n6", "dev", "camera", 6, "lens"), 2)
                            EXCEPT !.second.reviewer = "ann"],
                 [good EXCEPT !.case.label = "offline"],
                 [good EXCEPT !.candidate.governed.label = "offline"],
                 Redone([good EXCEPT !.decision.action = "reject"]),
                 Redone([good EXCEPT !.case.label = "denied", !.decision.label = "denied"]),
                 [good EXCEPT !.case.source = "export"]}}

------------------------------------------------------------------------------
VARIABLE part

releaseVars == vars
allVars == <<part, gateVars, shadowVars, releaseVars>>

(* What the proofs about the shadow history assume. *)
ASSUME ShadowAssumption == MarksAreApart /\ OneWriter

EvaluationInit ==
    /\ part \in {"gate", "shadow", "release"}
    /\ GateInit /\ ShadowInit /\ Init

GateStep ==
    part = "gate" /\ GateNext /\ UNCHANGED <<part, shadowVars, releaseVars>>

ShadowStep ==
    part = "shadow" /\ ShadowNext /\ UNCHANGED <<part, gateVars, releaseVars>>

ReleaseStep ==
    part = "release" /\ Next /\ UNCHANGED <<part, gateVars, shadowVars>>

EvaluationNext == GateStep \/ ShadowStep \/ ReleaseStep
EvaluationSpec == EvaluationInit /\ [][EvaluationNext]_allVars
==============================================================================
