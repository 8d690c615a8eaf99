---------------------------- MODULE ShadowHistory ----------------------------
(* JsonShadowHistory and its gate (evaluation/shadow_history.py).  Runs of the  *)
(* simulator are reduced to counts, a candidate is compared with a persisted    *)
(* baseline, and the whole document is written to one .tmp file that is moved   *)
(* over the history.  There is no lock: what keeps writers apart is that the    *)
(* scripts run one at a time.                                                   *)
EXTENDS Integers, Sequences, SequencesExt, FiniteSets, FiniteSetsExt

CONSTANTS ShadowRun,  \* [id, commit, controlled, scenarios], scenarios a set of records
          Policy,     \* the policies a caller may give, each [rate -> tolerance in percent]
          Worker,
          Absent, Missing, Torn,
          MaxAppends, \* bound: appends started
          MaxFailures   \* bound: crashes and failed file operations

Rates == {"completed", "degraded"}
SafetyBlockers ==
    {"p0_findings", "sensitive_leaks", "evidence_violations", "device_writes", "notifications"}

DefaultPolicy == [r \in Rates |-> 0]

------------------------------------------------------------------------------
(* from_scenarios: every count is computed again from the facts of the scenarios. *)
Metrics(run) ==
    [total |-> Cardinality(run.scenarios),
     rates |-> [r \in Rates |-> Cardinality({s \in run.scenarios : s[r]})],
     safety |-> [b \in SafetyBlockers |-> MapThenSumSet(LAMBDA s : s.safety[b], run.scenarios)]]

(* from_run; run_content_hash covers the identity and the counts. *)
Summary(run) ==
    [id |-> run.id, commit |-> run.commit, controlled |-> run.controlled,
     metrics |-> Metrics(run)]
ContentHash(s) == <<s.commit, s.controlled, s.metrics>>

(* A rate n/t is compared as an integer: a fall of more than p percent. An empty *)
(* run has rate 0.                                                               *)
Fell(b, c, r, p) ==
    LET n(m) == IF m.total = 0 THEN 0 ELSE m.rates[r]
        t(m) == IF m.total = 0 THEN 1 ELSE m.total
    IN  100 * (n(c) * t(b) - n(b) * t(c)) < -p * t(b) * t(c)

ComparableShadows(b, c) ==
    b.controlled = c.controlled /\ b.id # c.id /\ b.commit # c.commit

CompareShadows(b, c, policy) ==
    LET unsafe  == {x \in SafetyBlockers : c.metrics.safety[x] # 0}
        fallen  == {r \in Rates : Fell(b.metrics, c.metrics, r, policy[r])}
    IN  [allowed |-> unsafe \cup fallen = {}, unsafe |-> unsafe # {}, reasons |-> unsafe \cup fallen]

NoVerdict == [allowed |-> Absent, unsafe |-> FALSE, reasons |-> {}]

(* The records a history may hold. *)
ShadowEntry ==
    [summary: {Summary(r) : r \in ShadowRun},
     baseline: {r.id : r \in ShadowRun} \cup {Absent},
     policy: Policy \cup {Absent},
     verdict: {CompareShadows(Summary(b), Summary(c), p) : b, c \in ShadowRun, p \in Policy}
              \cup {NoVerdict}]

(* The marks of a missing and of a torn file are no documents, and who gives no  *)
(* policy gets the default one before anything is recorded.                      *)
MarksAreApart ==
    /\ Missing # Torn
    /\ \A x \in {Missing, Torn} : x \notin Seq(ShadowEntry)
    /\ Absent \notin Policy

(* The scripts that append run one at a time. *)
OneWriter == \A v, w \in Worker : v = w

------------------------------------------------------------------------------
Position(doc, id) == {i \in DOMAIN doc : doc[i].summary.id = id}

Acceptable(doc, run, baseline) ==
    /\ Position(doc, run.id) = {}
    /\ (doc # <<>>) = (baseline # Absent)
    /\ baseline # Absent =>
         /\ \E i \in Position(doc, baseline.id) :
                ContentHash(doc[i].summary) = ContentHash(Summary(baseline))
         /\ ComparableShadows(Summary(baseline), Summary(run))

\* Mutation: the verdict is computed under the default policy.
NewRecordByDefault(run, baseline, policy) ==
    [summary |-> Summary(run),
     baseline |-> IF baseline = Absent THEN Absent ELSE baseline.id,
     policy |-> IF baseline = Absent THEN Absent ELSE policy,
     verdict |-> IF baseline = Absent THEN NoVerdict
                 ELSE CompareShadows(Summary(baseline), Summary(run), DefaultPolicy)]
NewRecord(run, baseline, policy) ==
    [summary |-> Summary(run),
     baseline |-> IF baseline = Absent THEN Absent ELSE baseline.id,
     policy |-> IF baseline = Absent THEN Absent ELSE policy,
     verdict |-> IF baseline = Absent THEN NoVerdict
                 ELSE CompareShadows(Summary(baseline), Summary(run), policy)]

(* _validate_document: a record without a policy is judged by the default one.   *)
(* The comparison raises, and so refuses the document, for records that are not  *)
(* comparable.                                                                   *)
ValidRecord(doc, i) ==
    LET r == doc[i]
        before == {j \in Position(doc, r.baseline) : j < i}
        policy == IF r.policy = Absent THEN DefaultPolicy ELSE r.policy
    IN  /\ \A j \in Position(doc, r.summary.id) : j >= i
        /\ IF i = 1 THEN r.baseline = Absent /\ r.verdict.allowed = Absent
           ELSE \E j \in before :
                    /\ ComparableShadows(doc[j].summary, r.summary)
                    /\ r.verdict = CompareShadows(doc[j].summary, r.summary, policy)

Readable(f) == f # Missing => f # Torn /\ \A i \in DOMAIN f : ValidRecord(f, i)
Document(f) == IF f = Missing THEN <<>> ELSE f

------------------------------------------------------------------------------
VARIABLES file, tmp,    \* the history and its one .tmp file
          writer, updated,  \* per writer: where it is, the document it will write
          handle,       \* per writer: where the file it has open is now
          acked,        \* history: the records a caller got back
          appends, failures

shadowVars == <<file, tmp, writer, updated, handle, acked, appends, failures>>

ShadowInit ==
    /\ file = Missing /\ tmp = Missing
    /\ writer = [w \in Worker |-> "idle"]
    /\ updated = [w \in Worker |-> <<>>]
    /\ handle = [w \in Worker |-> "closed"]
    /\ acked = {}
    /\ appends = 0 /\ failures = 0

(* load and all checks, on the file as it is now; a refused append ends here. *)
StartAppend(w) ==
    /\ writer[w] = "idle" /\ appends < MaxAppends
    /\ appends' = appends + 1
    /\ \E run \in ShadowRun, baseline \in ShadowRun \cup {Absent}, policy \in Policy :
         /\ Readable(file) /\ Acceptable(Document(file), run, baseline)
         /\ updated' = [updated EXCEPT ![w] =
                            Append(Document(file), NewRecord(run, baseline, policy))]
    /\ writer' = [writer EXCEPT ![w] = "open"]
    /\ UNCHANGED <<file, tmp, handle, acked, failures>>

(* _write: opening the .tmp file empties it, whoever else is writing it. *)
OpenTmp(w) ==
    /\ writer[w] = "open"
    /\ tmp' = Torn
    /\ handle' = [handle EXCEPT ![w] = "tmp"]
    /\ writer' = [writer EXCEPT ![w] = "write"]
    /\ UNCHANGED <<file, updated, acked, appends, failures>>

(* What is in a file after w wrote to it: over the text of another writer, the   *)
(* end of a longer text may remain.                                              *)
Written(w, content) == IF content = Torn THEN {updated[w]} ELSE {updated[w], Torn}

WriteTmp(w) ==
    /\ writer[w] = "write"
    /\ IF handle[w] = "tmp" THEN tmp' \in Written(w, tmp) ELSE UNCHANGED tmp
    /\ IF handle[w] = "file" THEN file' \in Written(w, file) ELSE UNCHANGED file
    /\ handle' = [handle EXCEPT ![w] = "closed"]
    /\ writer' = [writer EXCEPT ![w] = "replace"]
    /\ UNCHANGED <<updated, acked, appends, failures>>

(* The move takes whatever the .tmp file holds, open or not, and raises if there *)
(* is none.                                                                      *)
Moved(place) == CASE place = "tmp" -> "file" [] place = "file" -> "gone" [] OTHER -> place

Replace(w) ==
    /\ writer[w] = "replace"
    /\ writer' = [writer EXCEPT ![w] = "idle"]
    /\ IF tmp = Missing THEN UNCHANGED <<file, tmp, handle, acked>>
       ELSE /\ file' = tmp /\ tmp' = Missing
            /\ handle' = [v \in Worker |-> Moved(handle[v])]
            /\ acked' = acked \cup {Last(updated[w]).summary.id}
    /\ UNCHANGED <<updated, appends, failures>>

(* The process dies or an operation on the .tmp file raises: the .tmp file stays. *)
Stop(w) ==
    /\ writer[w] # "idle" /\ failures < MaxFailures
    /\ failures' = failures + 1
    /\ writer' = [writer EXCEPT ![w] = "idle"]
    /\ handle' = [handle EXCEPT ![w] = "closed"]
    /\ UNCHANGED <<file, tmp, updated, acked, appends>>

ShadowNext == \E w \in Worker :
    StartAppend(w) \/ OpenTmp(w) \/ WriteTmp(w) \/ Replace(w) \/ Stop(w)

ShadowSpec == ShadowInit /\ [][ShadowNext]_shadowVars

------------------------------------------------------------------------------
(* The history on disk is always one that load accepts: it is never half a       *)
(* document, and the verdicts stored in it are those a reload computes again,    *)
(* under the policy of each record.  It holds every record a caller got back,    *)
(* whatever stopped in between.                                                  *)
WritesAreAtomic ==
    /\ Readable(file)
    /\ \A id \in acked : Position(Document(file), id) # {}
==============================================================================
