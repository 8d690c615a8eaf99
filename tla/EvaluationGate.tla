---------------------------- MODULE EvaluationGate ----------------------------
(* The release gate (evaluation/gate.py) over graded runs: what it refuses to    *)
(* compare, what it recomputes rather than believes, and its verdict; and the    *)
(* attribution of findings (evaluation/attribution.py).  A run is [id, commit,   *)
(* controlled, dataset, version, grade].  The HMAC of runs and of the dataset is  *)
(* issued right before it is verified, so it is left out.                        *)
EXTENDS EvaluationGrader

CONSTANT Tolerance  \* the policy: Tolerance[m] for each core metric

CoreMetrics == {"task_completion_rate", "candidate_accuracy", "candidate_macro_f1",
                "citation_compliance", "tool_recall", "evidence_coverage"}

SuiteValue(metrics, m) ==
    CASE m = "task_completion_rate" -> metrics.rates["task_completed"]
      [] m = "candidate_accuracy"   -> metrics.rates["candidate_correct"]
      [] m = "candidate_macro_f1"   -> metrics.candidate_macro_f1
      [] OTHER                      -> metrics.rates[m]

Comparable(b, c) == b.controlled = c.controlled /\ b.id # c.id /\ b.commit # c.commit
                    /\ DOMAIN b.grade.cases = DOMAIN c.grade.cases

(* _validate_dataset_anchor: the trusted cases are of the version of the run, its *)
(* split included.                                                               *)
Anchored(run, dataset) ==
    DOMAIN dataset.cases # {} /\ dataset.name = run.dataset /\ dataset.version = run.version

\* Mutation: the labels of the file are believed.
ConsistentWithItself(run, dataset) ==
    LET cases == run.grade.cases
        suite == run.grade.metrics
        ids   == DOMAIN cases
    IN  /\ suite.total = Cardinality(ids)
        /\ ids = DOMAIN dataset.cases
        /\ \A c \in ids :
             /\ cases[c].p0 = (cases[c].findings \cap P0Codes # {})
             /\ cases[c].passed = (cases[c].findings = {})
        /\ suite.pass_rate = Mean([c \in ids |-> Flag(cases[c].passed)])
        /\ \A m \in CaseRates : suite.rates[m] = Mean([c \in ids |-> cases[c].metrics[m]])
        /\ suite.candidate_macro_f1 = MacroF1(ids, [c \in ids |-> cases[c].expected],
                                                    [c \in ids |-> cases[c].predicted])
(* _validate_grade_consistency: flags, labels and the averages of the rates are   *)
(* recomputed.  Rounds, calls, latency and cost are left out, here and in GradeSuite. *)
GradeConsistent(run, dataset) ==
    LET cases == run.grade.cases
        suite == run.grade.metrics
        ids   == DOMAIN cases
        label == [c \in DOMAIN dataset.cases |-> dataset.cases[c].expected]
    IN  /\ suite.total = Cardinality(ids)
        /\ ids = DOMAIN dataset.cases
        /\ \A c \in ids :
             /\ cases[c].p0 = (cases[c].findings \cap P0Codes # {})
             /\ cases[c].passed = (cases[c].findings = {})
             /\ cases[c].expected = label[c]
             /\ cases[c].metrics["candidate_correct"] = Flag(cases[c].predicted = label[c])
        /\ suite.pass_rate = Mean([c \in ids |-> Flag(cases[c].passed)])
        /\ \A m \in CaseRates : suite.rates[m] = Mean([c \in ids |-> cases[c].metrics[m]])
        /\ suite.candidate_macro_f1 = MacroF1(ids, label, [c \in ids |-> cases[c].predicted])

MayCompare(b, c, dataset) ==
    /\ Comparable(b, c)
    /\ Anchored(b, dataset) /\ Anchored(c, dataset)
    /\ GradeConsistent(b, dataset) /\ GradeConsistent(c, dataset)

Regressed(b, c, m) ==
    SuiteValue(c.grade.metrics, m) - SuiteValue(b.grade.metrics, m) < -Tolerance[m]

(* P0 failures are counted case by case, never taken from the summary. *)
P0Count(run) == Cardinality({c \in DOMAIN run.grade.cases : run.grade.cases[c].p0})

CompareRuns(b, c) ==
    LET reasons == {m \in CoreMetrics : Regressed(b, c, m)} \cup If(P0Count(c) > 0, "p0")
    IN  [allowed |-> reasons = {}, p0 |-> P0Count(c) > 0, reasons |-> reasons]

(* from_run (history.py): the summary of a run that a history keeps. *)
SummaryOf(run) ==
    [id |-> run.id, commit |-> run.commit, controlled |-> run.controlled,
     metrics |-> [m \in CoreMetrics |-> SuiteValue(run.grade.metrics, m)], p0 |-> P0Count(run)]

------------------------------------------------------------------------------
(* Stage and owner of each finding code (FAILURE_CATALOG). *)
CatalogStage == [code \in P0Codes \cup ErrorCodes |->
    CASE code \in {"automatic_confirmed", "forged_confirmation_proof", "unsupported_claim"} -> "conclusion"
      [] code \in {"unauthorized_tool", "cross_fault_execution", "invalid_tool_arguments",
                   "repeated_failed_tool_call"} -> "tool"
      [] code \in {"budget_exceeded", "timeout_exceeded", "model_budget_exceeded"} -> "budget"
      [] code \in {"required_evidence_missing", "citation_noncompliance"} -> "evidence"
      [] code = "sensitive_data_leak" -> "infrastructure"
      [] code = "candidate_mismatch" -> "model"
      [] code = "task_incomplete" -> "perception"]

(* The findings of a run: of which case, and which. *)
FindingsOf(run) ==
    UNION {{c} \X run.grade.cases[c].findings : c \in DOMAIN run.grade.cases}

\* Mutation: only the report just before is looked at.
AttributeFromLast(run, previous) ==
    LET last == IF previous = <<>> THEN <<>> ELSE Last(previous)
    IN  [x \in FindingsOf(run) |->
            [stage |-> CatalogStage[x[2]], p0 |-> x[2] \in P0Codes,
             since |-> IF x \in DOMAIN last THEN last[x].since ELSE run.commit]]
(* attribute_evaluation_run: a finding keeps the commit of the first report, in  *)
(* the order given, that has it for this case.                                   *)
Attribute(run, previous) ==
    LET having(x) == {j \in DOMAIN previous : x \in DOMAIN previous[j]}
    IN  [x \in FindingsOf(run) |->
            [stage |-> CatalogStage[x[2]], p0 |-> x[2] \in P0Codes,
             since |-> IF having(x) = {} THEN run.commit
                       ELSE previous[Min(having(x))][x].since]]
==============================================================================
