--------------------------- MODULE EvaluationTrend ---------------------------
(* The records of an evaluation history (evaluation/history.py): which run may  *)
(* follow which, the gate's verdict a record keeps, and what loading a document *)
(* checks again.  A document is its sequence of records.  Its HMAC, and that of *)
(* each record, is the content itself: two documents have one tag iff they are  *)
(* equal, so a document written by anyone without the key is not in the model.  *)
(* A run is [id, commit, controlled, metrics, p0]: the nine controlled          *)
(* variables are one value, a content hash is the run itself, and a metric is a *)
(* natural number of units.                                                     *)
EXTENDS Integers, Sequences, SequencesExt

CONSTANTS Run,        \* the evaluation runs that may be offered
          CoreMetric, \* CORE_METRICS, the metrics the gate compares
          Tolerance,  \* Tolerance[m] is how far the policy lets m fall
          None

ASSUME TrendAssumption ==
    /\ \A r \in Run : r.p0 \in Nat /\ r.metrics \in [CoreMetric -> Nat]
    /\ Tolerance \in [CoreMetric -> Nat]
    /\ None \notin Run /\ \A r \in Run : r.id # None

ControlledChanges(b, c) == b.controlled # c.controlled

Regressed(b, c, m) == c.metrics[m] - b.metrics[m] < -Tolerance[m]

(* The verdict computed again from two summaries; "p0" stands for the P0 reason. *)
SummaryGate(b, c) ==
    LET reasons == {m \in CoreMetric : Regressed(b, c, m)} \cup
                   (IF c.p0 > 0 THEN {"p0"} ELSE {})
    IN  [allowed |-> reasons = {}, p0 |-> c.p0 > 0, reasons |-> reasons]

NoVerdict == [allowed |-> None, p0 |-> FALSE, reasons |-> {}]

Ids(doc) == {doc[i].run.id : i \in DOMAIN doc}

Persisted(doc, run) == \E i \in DOMAIN doc : doc[i].run = run

(* append: the conditions of the document under which the run gets a record.  What *)
(* compare_runs refuses besides, the trusted cases being given (MayCompare of      *)
(* EvaluationGate), does not depend on the document.                               *)
Acceptable(doc, run, baseline) ==
    /\ run.id \notin Ids(doc)
    /\ (doc # <<>>) = (baseline # None)
    /\ baseline # None =>
         /\ Persisted(doc, baseline)
         /\ ~ControlledChanges(baseline, run)
         /\ baseline.commit # run.commit

NewRecord(run, baseline) ==
    [run |-> run,
     baseline |-> IF baseline = None THEN None ELSE baseline.id,
     verdict |-> IF baseline = None THEN NoVerdict ELSE SummaryGate(baseline, run)]

(* The records a history may hold. *)
Entry == [run: Run,
          baseline: {r.id : r \in Run} \cup {None},
          verdict: {SummaryGate(b, c) : b, c \in Run} \cup {NoVerdict}]

Appended(doc, run, baseline) == Append(doc, NewRecord(run, baseline))

(* The summary an earlier record of doc keeps under an id. *)
SummaryBefore(doc, i, id) == doc[CHOOSE j \in 1..(i - 1) : doc[j].run.id = id].run

ValidRecord(doc, i) ==
    LET r == doc[i]
        before == {doc[j].run.id : j \in 1..(i - 1)}
    IN  /\ r.run.id \notin before
        /\ IF r.baseline = None
           THEN r.verdict = NoVerdict
           ELSE /\ r.baseline \in before
                /\ r.verdict.allowed = (r.verdict.reasons = {})
                /\ ~(r.verdict.p0 /\ r.verdict.allowed)
                /\ r.verdict = SummaryGate(SummaryBefore(doc, i, r.baseline), r.run)

(* _validate_document *)
Valid(doc) == \A i \in DOMAIN doc : ValidRecord(doc, i)

(* trend refuses a history with more than one comparison fingerprint. *)
Comparable(doc) ==
    \A i, j \in DOMAIN doc : doc[i].run.controlled = doc[j].run.controlled

==============================================================================
