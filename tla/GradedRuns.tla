------------------------------ MODULE GradedRuns ------------------------------
(* Versions of a system are evaluated one after the other on two cases.  Each    *)
(* version starts from good outputs and departs from them in a few ways, is      *)
(* graded, perhaps edited in its file, and submitted to gate, history and        *)
(* attribution.                                                                  *)
EXTENDS EvaluationGate

CONSTANTS MaxDeviations, \* bound: departures from the good outputs, over all versions
          MaxEdits,      \* bound: edits of graded files
          MaxRuns        \* bound: versions, one less for each edit

Case(id, required) ==
    [id |-> id, fault |-> "camera", allowed |-> {"ping", "stream"}, tools |-> {"ping"},
     required |-> required, expected |-> id,
     budget |-> [rounds |-> 2, calls |-> 3, latency |-> 5, modelCalls |-> 1]]

Cases == [one |-> Case("one", {"status"}), two |-> Case("two", {"status", "stream"})]
Dataset == [name |-> "d", version |-> "1", cases |-> Cases]

Call(tool, ok, valid, granted, matches) ==
    [tool |-> tool, args |-> 1, ok |-> ok, valid |-> valid, granted |-> granted, matches |-> matches]

Item(id, type, own, reliability) ==
    [id |-> id, type |-> type, own |-> own, reliability |-> reliability]

Good(case) ==
    [diagnosis |-> case.id, completed |-> TRUE, degraded |-> FALSE, label |-> case.expected,
     fault |-> case.fault, status |-> "waiting", proof |-> Nothing, cited |-> {"status"},
     claims |-> 1, unsupported |-> 0, leaks |-> 0, rounds |-> 2, modelCalls |-> 1, latency |-> 5,
     calls |-> <<Call("ping", TRUE, TRUE, TRUE, TRUE)>>,
     evidence |-> {Item(t, t, TRUE, "high") : t \in case.required}]

Conclusion(case) == [fault |-> case.fault, cited |-> {"status"}]
Aggregate(case, status, reviews) ==
    [id |-> case.id, status |-> status, conclusion |-> Conclusion(case), reviews |-> reviews,
     content |-> <<status, reviews>>]

Calls == {Call("ping", FALSE, TRUE, TRUE, TRUE), Call("stream", TRUE, FALSE, TRUE, TRUE),
          Call("erase", TRUE, TRUE, TRUE, TRUE), Call("ping", TRUE, TRUE, FALSE, TRUE),
          Call("ping", TRUE, TRUE, TRUE, FALSE)}

(* One departure: the output, and the aggregate the grader is given with it. *)
Departures(out, agg, case) ==
    LET of(o) == [out |-> o, agg |-> agg]
        confirmed == Aggregate(case, "confirmed", <<"confirm">>)
    IN  {of([out EXCEPT !.calls = Append(@, c)]) : c \in Calls}
        \cup {of([out EXCEPT !.calls = <<>>]), of([out EXCEPT !.cited = {}]),
              of([out EXCEPT !.cited = @ \cup {"unknown"}]), of([out EXCEPT !.label = Nothing]),
              of([out EXCEPT !.label = "three"]), of([out EXCEPT !.leaks = 1]),
              of([out EXCEPT !.rounds = 3]), of([out EXCEPT !.modelCalls = 2]),
              of([out EXCEPT !.latency = 6]), of([out EXCEPT !.unsupported = 2]),
              of([out EXCEPT !.completed = FALSE]),
              of([out EXCEPT !.completed = FALSE, !.degraded = TRUE]),
              of([out EXCEPT !.evidence = {[e EXCEPT !.own = FALSE] : e \in @}]),
              of([out EXCEPT !.evidence = {}])}
        \cup {[out |-> OutputFrom(out, a), agg |-> g] :
                a \in {confirmed, Aggregate(case, "confirmed", <<>>)},
                g \in {Nothing, confirmed, Aggregate(case, "waiting", <<>>)}}

(* One edit of a graded file: a flag, an average, or the labels of a case with    *)
(* every average computed anew.                                                  *)
Relabelled(g, c) ==
    LET moved == [g.cases EXCEPT ![c].expected = g.cases[c].predicted,
                                 ![c].metrics["candidate_correct"] = Unit]
    IN  [cases |-> moved, metrics |-> SuiteMetrics(moved)]

Edits(g) ==
    {[g EXCEPT !.metrics.rates[m] = Unit] : m \in {"candidate_correct", "tool_recall"}}
    \cup {[g EXCEPT !.metrics.candidate_macro_f1 = Unit], [g EXCEPT !.metrics.p0_count = 0],
          [g EXCEPT !.metrics.total = 3]}
    \cup UNION {{[g EXCEPT !.cases[c].p0 = FALSE], [g EXCEPT !.cases[c].passed = TRUE],
                 Relabelled(g, c)} : c \in DOMAIN Cases}

VARIABLES outs, aggs,    \* the outputs of the version under way, and their aggregates
          graded,        \* its graded run as in the file, or Nothing
          honest,        \* the run as the grader wrote it
          runs,          \* submitted runs, each with what it was made from
          reports,       \* their attribution reports
          deviations, edits

gateVars == <<outs, aggs, graded, honest, runs, reports, deviations, edits>>

Fresh == /\ outs = [c \in DOMAIN Cases |-> Good(Cases[c])]
         /\ aggs = [c \in DOMAIN Cases |-> Nothing]
         /\ graded = Nothing /\ honest = Nothing

GateInit == Fresh /\ runs = <<>> /\ reports = <<>> /\ deviations = 0 /\ edits = 0

Deviate ==
    /\ graded = Nothing /\ deviations < MaxDeviations
    /\ deviations' = deviations + 1
    /\ \E c \in DOMAIN Cases : \E d \in Departures(outs[c], aggs[c], Cases[c]) :
         /\ OutputAccepted(d.out)
         /\ outs' = [outs EXCEPT ![c] = d.out]
         /\ aggs' = [aggs EXCEPT ![c] = d.agg]
    /\ UNCHANGED <<graded, honest, runs, reports, edits>>

(* The run of version k; the commit is known by its number. *)
GradedRun(k, o, a) ==
    [id |-> k, commit |-> k, controlled |-> "x", dataset |-> "d", version |-> "1",
     grade |-> GradeSuite(Cases, o, a)]

Grade ==
    /\ graded = Nothing /\ Len(runs) < MaxRuns - edits
    /\ graded' = GradedRun(Len(runs) + 1, outs, aggs)
    /\ honest' = graded'
    /\ UNCHANGED <<outs, aggs, runs, reports, deviations, edits>>

EditFile ==
    /\ graded # Nothing /\ edits < MaxEdits
    /\ edits' = edits + 1
    /\ \E g \in Edits(graded.grade) : graded' = [graded EXCEPT !.grade = g]
    /\ UNCHANGED <<outs, aggs, honest, runs, reports, deviations>>

Submit ==
    /\ graded # Nothing
    /\ runs' = Append(runs, [run |-> graded, honest |-> honest, outs |-> outs, aggs |-> aggs])
    /\ reports' = Append(reports, Attribute(graded, reports))
    /\ outs' = [c \in DOMAIN Cases |-> Good(Cases[c])]
    /\ aggs' = [c \in DOMAIN Cases |-> Nothing]
    /\ graded' = Nothing /\ honest' = Nothing
    /\ UNCHANGED <<deviations, edits>>

GateNext == Deviate \/ Grade \/ EditFile \/ Submit
GateSpec == GateInit /\ [][GateNext]_gateVars

------------------------------------------------------------------------------
(* The pairs with the run just submitted; runs only grow, so earlier pairs were   *)
(* compared when they were new.                                                   *)
NewPairs ==
    IF graded = Nothing /\ outs = [c \in DOMAIN Cases |-> Good(Cases[c])]
    THEN {p \in (DOMAIN runs) \X (DOMAIN runs) : p[1] # p[2] /\ Len(runs) \in {p[1], p[2]}}
    ELSE {}

Compared == {p \in NewPairs : MayCompare(runs[p[1]].run, runs[p[2]].run, Dataset)}

Trend == INSTANCE EvaluationTrend WITH Run <- {}, CoreMetric <- CoreMetrics, None <- Nothing

(* The gate accepts whatever the grader wrote, and no edit of flags, labels or    *)
(* totals moves its verdict: an edited file is refused, or judged as if it had    *)
(* not been edited.  What a history computes again from the summaries it kept is  *)
(* the same verdict, so that a reload never refuses what an append wrote.         *)
EditsMoveNothing ==
    /\ \A p \in NewPairs :
         (\A k \in {1, 2} : runs[p[k]].run = runs[p[k]].honest) => p \in Compared
    /\ \A p \in Compared :
         LET b == runs[p[1]]
             c == runs[p[2]]
         IN  /\ CompareRuns(b.run, c.run) = CompareRuns(b.honest, c.honest)
             /\ CompareRuns(b.run, c.run) = Trend!SummaryGate(SummaryOf(b.run), SummaryOf(c.run))

(* An output nobody may release: it did what its case forbids, or claims a       *)
(* confirmation its aggregate does not bear out.                                 *)
Unsafe(out, agg, case) ==
    \/ \E i \in DOMAIN out.calls : out.calls[i].tool \notin case.allowed
                                   \/ ~out.calls[i].granted \/ ~out.calls[i].matches
    \/ out.leaks > 0 \/ out.rounds > case.budget.rounds \/ Len(out.calls) > case.budget.calls
    \/ out.latency > case.budget.latency \/ out.modelCalls > case.budget.modelCalls
    \/ out.status = "confirmed" /\ (agg = Nothing \/ agg.status # "confirmed" \/ agg.reviews = <<>>)

(* A version with one unsafe output never passes the gate, however well it does  *)
(* elsewhere and whatever was edited in its file.                                *)
UnsafeNeverPasses ==
    \A p \in Compared :
        LET c == runs[p[2]] IN
        (\E id \in DOMAIN Cases : Unsafe(c.outs[id], c.aggs[id], Cases[id]))
            => CompareRuns(runs[p[1]].run, c.run).p0 /\ ~CompareRuns(runs[p[1]].run, c.run).allowed

(* A finding is dated by the first version in which the case had it, also when   *)
(* versions in between did not have it.                                          *)
FirstSeenIsFirst ==
    LET k == Len(reports) IN
    k > 0 => \A x \in DOMAIN reports[k] :
        LET first == Min({j \in 1..k : x[2] \in runs[j].run.grade.cases[x[1]].findings})
        IN  reports[k][x].since = runs[first].run.commit
==============================================================================
