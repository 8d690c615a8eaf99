--------------------------- MODULE EvaluationProofs ---------------------------
(* Proofs about the evaluation: about GradedRuns, for any number of versions,     *)
(* departures and edits, and about ShadowHistory, for any runs and policies, and  *)
(* any number of appends and faults, with any writers and with one.               *)
EXTENDS GradedRuns, ShadowHistory, FiniteSetTheorems, SequenceTheorems, TLAPS

------------------------------------------------------------------------------
(* The shadow history: documents. *)

Doc == Seq(ShadowEntry)
ValidDoc(d) == d \in Doc /\ \A i \in DOMAIN d : ValidRecord(d, i)

\* A summary is known by its id and the hash of its content.
LEMMA HashTells ==
  ASSUME NEW r \in ShadowRun, NEW s \in {Summary(q) : q \in ShadowRun},
         s.id = r.id, ContentHash(s) = ContentHash(Summary(r))
  PROVE  s = Summary(r)
  BY DEF ContentHash, Summary

LEMMA NewRecordType ==
  ASSUME NEW run \in ShadowRun, NEW baseline \in ShadowRun \cup {Absent}, NEW policy \in Policy
  PROVE  NewRecord(run, baseline, policy) \in ShadowEntry
<1>1. CASE baseline = Absent
  BY <1>1 DEF NewRecord, ShadowEntry
<1>2. CASE baseline # Absent
  BY <1>2 DEF NewRecord, ShadowEntry
<1> QED
  BY <1>1, <1>2

\* What append accepts makes a document that load accepts: the verdict under the
\* caller's policy is the one a reload computes from the summaries it kept.
LEMMA AppendIsValid ==
  ASSUME MarksAreApart, NEW doc, ValidDoc(doc),
         NEW run \in ShadowRun, NEW baseline \in ShadowRun \cup {Absent}, NEW policy \in Policy,
         Acceptable(doc, run, baseline)
  PROVE  LET new == Append(doc, NewRecord(run, baseline, policy))
         IN  /\ ValidDoc(new) /\ new # <<>>
             /\ \A id : Position(doc, id) # {} => Position(new, id) # {}
<1> DEFINE r == NewRecord(run, baseline, policy)
           new == Append(doc, r)
           n == Len(doc)
<1>1. doc \in Seq(ShadowEntry) /\ r \in ShadowEntry
  BY NewRecordType DEF ValidDoc, Doc
<1> HIDE DEF r
<1>2. /\ new \in Seq(ShadowEntry) /\ n \in Nat
      /\ DOMAIN doc = 1..n /\ DOMAIN new = 1..(n + 1)
      /\ \A i \in 1..n : new[i] = doc[i]
      /\ new[n + 1] = r
  BY <1>1
<1> HIDE DEF new, n
<1>3. new # <<>>
  BY <1>2
<1>4. \A id : Position(new, id) \ {n + 1} = Position(doc, id)
  BY <1>2 DEF Position
<1>5. ASSUME NEW i \in 1..n PROVE ValidRecord(new, i)
  <2>1. ValidRecord(doc, i) /\ new[i] = doc[i] /\ i < n + 1
    BY <1>2 DEF ValidDoc
  <2>2. \A id : {j \in Position(new, id) : j < i} = {j \in Position(doc, id) : j < i}
    BY <1>2, <1>4 DEF Position
  <2>3. \A j \in Position(new, new[i].summary.id) : j >= i
    BY <1>2, <1>4, <2>1 DEF ValidRecord, Position
  <2>4. CASE i = 1
    BY <2>1, <2>3, <2>4 DEF ValidRecord
  <2>5. CASE i # 1
    <3>1. PICK j \in {j \in Position(doc, doc[i].baseline) : j < i} :
            /\ ComparableShadows(doc[j].summary, doc[i].summary)
            /\ doc[i].verdict = CompareShadows(doc[j].summary, doc[i].summary,
                  IF doc[i].policy = Absent THEN DefaultPolicy ELSE doc[i].policy)
      BY <2>1, <2>5 DEF ValidRecord
    <3>2. /\ j \in {k \in Position(new, new[i].baseline) : k < i}
          /\ new[j] = doc[j]
      BY <1>2, <2>1, <2>2, <3>1 DEF Position
    <3> QED
      BY <2>1, <2>3, <2>5, <3>1, <3>2 DEF ValidRecord
  <2> QED
    BY <2>4, <2>5
<1>6. ValidRecord(new, n + 1)
  <2>1. r.summary = Summary(run) /\ r.summary.id = run.id
    BY DEF r, NewRecord, Summary
  <2>2. Position(doc, run.id) = {}
    BY DEF Acceptable
  <2>3. \A j \in Position(new, new[n + 1].summary.id) : j >= n + 1
    BY <1>2, <1>4, <2>1, <2>2
  <2>4. CASE baseline = Absent
    <3>1. n = 0
      <4>1. doc = <<>>
        BY <2>4 DEF Acceptable
      <4> QED
        BY <4>1 DEF n
    <3>2. r.baseline = Absent /\ r.verdict.allowed = Absent
      BY <2>4 DEF r, NewRecord, NoVerdict
    <3> QED
      BY <1>2, <2>3, <3>1, <3>2 DEF ValidRecord
  <2>5. CASE baseline # Absent
    <3>1. /\ r.baseline = baseline.id /\ r.policy = policy /\ r.policy # Absent
          /\ r.verdict = CompareShadows(Summary(baseline), Summary(run), policy)
      BY <2>5 DEF r, NewRecord, MarksAreApart
    <3>2. PICK i \in Position(doc, baseline.id) :
            ContentHash(doc[i].summary) = ContentHash(Summary(baseline))
      BY <2>5 DEF Acceptable
    <3>3. i \in 1..n /\ doc[i].summary.id = baseline.id
      BY <1>2, <3>2 DEF Position
    <3>4. doc[i].summary \in {Summary(q) : q \in ShadowRun}
      <4>1. doc[i] \in ShadowEntry
        BY <1>1, <1>2, <3>3
      <4> QED
        BY <4>1 DEF ShadowEntry
    <3>5. doc[i].summary = Summary(baseline)
      BY <2>5, <3>2, <3>3, <3>4, HashTells
    <3>6. ComparableShadows(Summary(baseline), Summary(run))
      BY <2>5 DEF Acceptable
    <3>7. n + 1 # 1 /\ new[i] = doc[i]
          /\ i \in {j \in Position(new, new[n + 1].baseline) : j < n + 1}
      BY <1>2, <1>4, <3>1, <3>2, <3>3
    <3> QED
      BY <1>2, <2>1, <2>3, <3>1, <3>5, <3>6, <3>7 DEF ValidRecord
  <2> QED
    BY <2>4, <2>5
<1>7. ValidDoc(new)
  BY <1>2, <1>5, <1>6 DEF ValidDoc, Doc
<1>8. \A id : Position(doc, id) # {} => Position(new, id) # {}
  BY <1>4
<1> QED
  BY <1>3, <1>7, <1>8 DEF new, r

\* The last record of a document is in it.
LEMMA LastIsThere ==
  ASSUME NEW d \in Doc, d # <<>>
  PROVE  Position(d, Last(d).summary.id) # {}
<1>1. Len(d) \in DOMAIN d
  BY DEF Doc
<1> QED
  BY <1>1 DEF Position, Last

------------------------------------------------------------------------------
(* With any writers: a file is missing, torn, or a document in good order. *)

Whole(f) == f \in {Missing, Torn} \/ ValidDoc(f)

NothingForged ==
    /\ Whole(file) /\ Whole(tmp)
    /\ DOMAIN writer = Worker /\ DOMAIN updated = Worker
    /\ \A w \in Worker : writer[w] # "idle" => ValidDoc(updated[w]) /\ updated[w] # <<>>

LEMMA EmptyIsValid == ValidDoc(<<>>)
  BY DEF ValidDoc, Doc

LEMMA ReadableMeans ==
  ASSUME MarksAreApart, NEW f, Whole(f)
  PROVE  /\ Readable(f) <=> f # Torn
         /\ Readable(f) => ValidDoc(Document(f))
  BY EmptyIsValid DEF Whole, Readable, Document, ValidDoc, Doc, MarksAreApart

\* A refused append writes nothing; an accepted one has a document in good order.
LEMMA StartIsSound ==
  ASSUME MarksAreApart, Whole(file), NEW w \in Worker, DOMAIN updated = Worker, StartAppend(w)
  PROVE  /\ Readable(file)
         /\ ValidDoc(updated'[w]) /\ updated'[w] # <<>>
         /\ \A id : Position(Document(file), id) # {} => Position(updated'[w], id) # {}
         /\ DOMAIN updated' = Worker
         /\ \A v \in Worker \ {w} : updated'[v] = updated[v]
<1>1. PICK run \in ShadowRun, baseline \in ShadowRun \cup {Absent}, policy \in Policy :
         /\ Readable(file) /\ Acceptable(Document(file), run, baseline)
         /\ updated' = [updated EXCEPT ![w] =
                            Append(Document(file), NewRecord(run, baseline, policy))]
  BY DEF StartAppend
<1>2. updated'[w] = Append(Document(file), NewRecord(run, baseline, policy))
  BY <1>1
<1>3. ValidDoc(Document(file))
  BY <1>1, ReadableMeans
<1> QED
  BY <1>1, <1>2, <1>3, AppendIsValid

LEMMA ForgedNext ==
  ASSUME MarksAreApart, NothingForged, [ShadowNext]_shadowVars
  PROVE  NothingForged'
<1> USE DEF NothingForged
<1>1. ASSUME NEW w \in Worker, StartAppend(w) PROVE NothingForged'
  <2>1. /\ file' = file /\ tmp' = tmp /\ writer' = [writer EXCEPT ![w] = "open"]
    BY <1>1 DEF StartAppend
  <2>2. /\ ValidDoc(updated'[w]) /\ updated'[w] # <<>>
        /\ DOMAIN updated' = Worker
        /\ \A v \in Worker \ {w} : updated'[v] = updated[v]
    BY <1>1, StartIsSound
  <2>3. Whole(file)' /\ Whole(tmp)'
    BY <2>1 DEF Whole, ValidDoc, ValidRecord
  <2>4. ASSUME NEW v \in Worker, writer'[v] # "idle"
        PROVE  ValidDoc(updated'[v]) /\ updated'[v] # <<>>
    BY <2>1, <2>2, <2>4
  <2> QED
    BY <2>1, <2>2, <2>3, <2>4
<1>2. ASSUME NEW w \in Worker, OpenTmp(w) PROVE NothingForged'
  BY <1>2 DEF OpenTmp, Whole
<1>3. ASSUME NEW w \in Worker, WriteTmp(w) PROVE NothingForged'
  <2>1. /\ writer[w] = "write" /\ writer' = [writer EXCEPT ![w] = "replace"] /\ updated' = updated
        /\ file' = file \/ file' \in {updated[w], Torn}
        /\ tmp' = tmp \/ tmp' \in {updated[w], Torn}
    BY <1>3 DEF WriteTmp, Written
  <2>2. ValidDoc(updated[w])
    BY <2>1
  <2>3. Whole(file') /\ Whole(tmp')
    BY <2>1, <2>2 DEF Whole
  <2> QED
    BY <2>1, <2>3
<1>4. ASSUME NEW w \in Worker, Replace(w) PROVE NothingForged'
  <2>1. /\ writer' = [writer EXCEPT ![w] = "idle"] /\ updated' = updated
        /\ file' = file \/ file' = tmp
        /\ tmp' = tmp \/ tmp' = Missing
    BY <1>4 DEF Replace
  <2>2. Whole(file') /\ Whole(tmp')
    BY <2>1 DEF Whole
  <2> QED
    BY <2>1, <2>2
<1>5. ASSUME NEW w \in Worker, Stop(w) PROVE NothingForged'
  BY <1>5 DEF Stop, Whole
<1>6. CASE UNCHANGED shadowVars
  BY <1>6 DEF shadowVars, Whole
<1> QED
  BY <1>1, <1>2, <1>3, <1>4, <1>5, <1>6 DEF ShadowNext

LEMMA ForgedInit == ShadowInit => NothingForged
  BY DEF ShadowInit, NothingForged, Whole

(* However many writers there are and whatever stops, a history that load        *)
(* accepts is one that appends made: what interference leaves is torn, and       *)
(* refused, never a wrong verdict (JsonShadowHistory.load, _validate_document).  *)
THEOREM NothingFalseIsRead ==
  ASSUME MarksAreApart
  PROVE  ShadowSpec => [](file = Torn \/ Readable(file))
<1>1. ShadowInit => NothingForged
  BY ForgedInit
<1>2. NothingForged /\ [ShadowNext]_shadowVars => NothingForged'
  BY ForgedNext
<1>3. NothingForged => (file = Torn \/ Readable(file))
  BY ReadableMeans DEF NothingForged
<1> QED
  BY <1>1, <1>2, <1>3, PTL DEF ShadowSpec

------------------------------------------------------------------------------
(* With one writer: the invariant, inductive together with NothingForged.  The   *)
(* .tmp file is the writer's own, so what it moves is what it wrote, and that    *)
(* has every record of the file it replaces.                                     *)
Acked == \A id \in acked : Position(Document(file), id) # {}

Alone(w) ==
    /\ writer[w] \in {"idle", "open", "write", "replace"}
    /\ handle[w] = IF writer[w] = "write" THEN "tmp" ELSE "closed"
    /\ writer[w] = "write" => tmp = Torn
    /\ writer[w] = "replace" => tmp = updated[w]
    /\ writer[w] # "idle" =>
         \A id : Position(Document(file), id) # {} => Position(updated[w], id) # {}

IInv ==
    /\ NothingForged
    /\ file # Torn
    /\ DOMAIN handle = Worker
    /\ \A w \in Worker : Alone(w)
    /\ Acked

LEMMA InvInit == ASSUME MarksAreApart PROVE ShadowInit => IInv
  BY ForgedInit DEF ShadowInit, IInv, Alone, Acked, MarksAreApart

LEMMA InvNext ==
  ASSUME MarksAreApart, OneWriter, IInv, [ShadowNext]_shadowVars
  PROVE  IInv'
<1>0. NothingForged'
  BY ForgedNext DEF IInv
<1> USE DEF IInv
<1>1. ASSUME NEW w \in Worker, StartAppend(w) PROVE IInv'
  <2>1. /\ file' = file /\ tmp' = tmp /\ handle' = handle /\ acked' = acked
        /\ writer' = [writer EXCEPT ![w] = "open"] /\ writer[w] = "idle"
    BY <1>1 DEF StartAppend
  <2>2. \A id : Position(Document(file), id) # {} => Position(updated'[w], id) # {}
    BY <1>1, StartIsSound DEF NothingForged
  <2>3. Alone(w)'
    BY <2>1, <2>2 DEF Alone, NothingForged, Document
  <2>4. Acked'
    BY <2>1 DEF Acked
  <2> QED
    BY <1>0, <2>1, <2>3, <2>4 DEF OneWriter
<1>2. ASSUME NEW w \in Worker, OpenTmp(w) PROVE IInv'
  <2>1. Alone(w)' /\ Acked'
    BY <1>2 DEF OpenTmp, Alone, Acked, NothingForged
  <2> QED
    BY <1>0, <1>2, <2>1 DEF OneWriter, OpenTmp
<1>3. ASSUME NEW w \in Worker, WriteTmp(w) PROVE IInv'
  <2>1. Alone(w) /\ writer[w] = "write" /\ handle[w] = "tmp" /\ tmp = Torn
    BY <1>3 DEF WriteTmp, Alone
  <2>2. /\ tmp' = updated[w] /\ file' = file /\ updated' = updated /\ acked' = acked
        /\ handle' = [handle EXCEPT ![w] = "closed"]
        /\ writer' = [writer EXCEPT ![w] = "replace"]
    BY <1>3, <2>1 DEF WriteTmp, Written
  <2>3. Alone(w)' /\ Acked'
    BY <2>1, <2>2 DEF Alone, Acked, NothingForged
  <2> QED
    BY <1>0, <2>2, <2>3 DEF OneWriter
<1>4. ASSUME NEW w \in Worker, Replace(w) PROVE IInv'
  <2>1. /\ Alone(w) /\ writer[w] = "replace" /\ tmp = updated[w] /\ handle[w] = "closed"
        /\ ValidDoc(updated[w]) /\ updated[w] # <<>>
        /\ \A id : Position(Document(file), id) # {} => Position(updated[w], id) # {}
    BY <1>4 DEF Replace, Alone, NothingForged
  <2>2. tmp # Missing /\ tmp # Torn
    BY <2>1 DEF MarksAreApart, ValidDoc, Doc
  <2>3. /\ file' = updated[w] /\ writer' = [writer EXCEPT ![w] = "idle"]
        /\ handle' = [v \in Worker |-> Moved(handle[v])]
        /\ acked' = acked \cup {Last(updated[w]).summary.id}
    BY <1>4, <2>1, <2>2 DEF Replace
  <2>4. Document(file') = updated[w]
    BY <2>1, <2>2, <2>3 DEF Document
  <2>5. Acked'
    <3>1. Position(updated[w], Last(updated[w]).summary.id) # {}
      BY <2>1, LastIsThere DEF ValidDoc
    <3>2. \A id \in acked' : Position(updated[w], id) # {}
      BY <2>1, <2>3, <3>1 DEF Acked
    <3> QED
      BY <2>4, <3>2 DEF Acked, Document
  <2>6. Alone(w)'
    BY <2>1, <2>3 DEF Alone, NothingForged, Moved
  <2> QED
    BY <1>0, <2>1, <2>2, <2>3, <2>5, <2>6 DEF OneWriter
<1>5. ASSUME NEW w \in Worker, Stop(w) PROVE IInv'
  <2>1. Alone(w)' /\ Acked'
    BY <1>5 DEF Stop, Alone, Acked, NothingForged
  <2> QED
    BY <1>0, <1>5, <2>1 DEF OneWriter, Stop
<1>6. CASE UNCHANGED shadowVars
  BY <1>0, <1>6 DEF shadowVars, Alone, Acked, Document
<1> QED
  BY <1>1, <1>2, <1>3, <1>4, <1>5, <1>6 DEF ShadowNext

(* With one writer the history on disk is always one that load accepts, and      *)
(* holds every record a caller got back, whatever stopped in between             *)
(* (JsonShadowHistory.append, _write).                                           *)
THEOREM AppendsAreAtomic ==
  ASSUME MarksAreApart, OneWriter
  PROVE  ShadowSpec => []WritesAreAtomic
<1>1. ShadowInit => IInv
  BY InvInit
<1>2. IInv /\ [ShadowNext]_shadowVars => IInv'
  BY InvNext
<1>3. IInv => WritesAreAtomic
  BY ReadableMeans DEF IInv, NothingForged, WritesAreAtomic, Acked
<1> QED
  BY <1>1, <1>2, <1>3, PTL DEF ShadowSpec
------------------------------------------------------------------------------
(* Graded runs: the edits. *)

CaseFields == {"expected", "predicted", "findings", "passed", "p0", "metrics"}

\* An edited case still has the findings, the prediction and the metrics of the grader,
\* but for the flag that a label decides.
SameCase(x, y) ==
  /\ DOMAIN x = CaseFields /\ DOMAIN x.metrics = CaseRates
  /\ x.findings = y.findings /\ x.predicted = y.predicted
  /\ \A m \in CaseRates \ {"candidate_correct"} : x.metrics[m] = y.metrics[m]

SameGrade(g, h) ==
  /\ DOMAIN g = {"cases", "metrics"}
  /\ DOMAIN g.cases = DOMAIN Cases
  /\ \A c \in DOMAIN Cases : SameCase(g.cases[c], h.cases[c])

Resembles(r, h) ==
  /\ DOMAIN r = {"id", "commit", "controlled", "dataset", "version", "grade"}
  /\ r.id = h.id /\ r.commit = h.commit /\ r.controlled = h.controlled
  /\ r.dataset = h.dataset /\ r.version = h.version
  /\ SameGrade(r.grade, h.grade)

LEMMA GradeIsItself ==
  ASSUME NEW o, NEW a
  PROVE  SameGrade(GradeSuite(Cases, o, a), GradeSuite(Cases, o, a))
<1> DEFINE g == GradeSuite(Cases, o, a)
<1>1. /\ DOMAIN g = {"cases", "metrics"}
      /\ g.cases = [c \in DOMAIN Cases |-> GradeCase(Cases[c], o[c], a[c])]
  BY DEF GradeSuite
<1>2. ASSUME NEW c \in DOMAIN Cases
      PROVE  DOMAIN g.cases[c] = CaseFields /\ DOMAIN g.cases[c].metrics = CaseRates
  <2>1. g.cases[c] = GradeCase(Cases[c], o[c], a[c])
    BY <1>1
  <2>2. /\ DOMAIN GradeCase(Cases[c], o[c], a[c]) = CaseFields
        /\ GradeCase(Cases[c], o[c], a[c]).metrics = CaseMetrics(Cases[c], o[c])
    BY DEF GradeCase, CaseFields
  <2>3. DOMAIN CaseMetrics(Cases[c], o[c]) = CaseRates
    BY DEF CaseMetrics, CaseRates
  <2> QED
    BY <2>1, <2>2, <2>3
<1> QED
  BY <1>1, <1>2 DEF SameGrade, SameCase

LEMMA EditsKeepFindings ==
  ASSUME NEW g, NEW h, SameGrade(g, h), NEW e \in Edits(g)
  PROVE  SameGrade(e, h)
<1>1. ASSUME NEW m, e = [g EXCEPT !.metrics = m]
      PROVE  SameGrade(e, h)
  BY <1>1 DEF SameGrade
<1>2. ASSUME NEW c \in DOMAIN Cases, NEW x, SameCase(x, h.cases[c]),
             DOMAIN e = {"cases", "metrics"}, e.cases = [g.cases EXCEPT ![c] = x]
      PROVE  SameGrade(e, h)
  <2>1. DOMAIN e.cases = DOMAIN Cases
    BY <1>2 DEF SameGrade
  <2>2. ASSUME NEW d \in DOMAIN Cases
        PROVE  SameCase(e.cases[d], h.cases[d])
    BY <1>2 DEF SameGrade
  <2> QED
    BY <1>2, <2>1, <2>2 DEF SameGrade
<1>3. ASSUME NEW c \in DOMAIN Cases, e = [g EXCEPT !.cases[c].p0 = FALSE]
      PROVE  SameGrade(e, h)
  <2>1. SameCase([g.cases[c] EXCEPT !.p0 = FALSE], h.cases[c])
    BY DEF SameGrade, SameCase, CaseFields
  <2>2. DOMAIN e = {"cases", "metrics"}
        /\ e.cases = [g.cases EXCEPT ![c] = [g.cases[c] EXCEPT !.p0 = FALSE]]
    BY <1>3 DEF SameGrade
  <2> QED
    BY <1>2, <2>1, <2>2
<1>4. ASSUME NEW c \in DOMAIN Cases, e = [g EXCEPT !.cases[c].passed = TRUE]
      PROVE  SameGrade(e, h)
  <2>1. SameCase([g.cases[c] EXCEPT !.passed = TRUE], h.cases[c])
    BY DEF SameGrade, SameCase, CaseFields
  <2>2. DOMAIN e = {"cases", "metrics"}
        /\ e.cases = [g.cases EXCEPT ![c] = [g.cases[c] EXCEPT !.passed = TRUE]]
    BY <1>4 DEF SameGrade
  <2> QED
    BY <1>2, <2>1, <2>2
<1>5. ASSUME NEW c \in DOMAIN Cases, e = Relabelled(g, c)
      PROVE  SameGrade(e, h)
  <2> DEFINE x == g.cases[c]
             moved == [x EXCEPT !.expected = x.predicted]
             y == [moved EXCEPT !.metrics = [moved.metrics EXCEPT !["candidate_correct"] = Unit]]
  <2>1. SameCase(y, h.cases[c])
    BY DEF SameGrade, SameCase, CaseFields, CaseRates
  <2>2. DOMAIN e = {"cases", "metrics"}
        /\ e.cases = [g.cases EXCEPT ![c].expected = g.cases[c].predicted,
                                     ![c].metrics["candidate_correct"] = Unit]
    BY <1>5 DEF Relabelled
  <2>3. e.cases = [g.cases EXCEPT ![c] = y]
    BY <2>2 DEF SameGrade, SameCase, CaseFields
  <2> HIDE DEF y
  <2> QED
    BY <1>2, <2>1, <2>2, <2>3
<1>6. \/ \E m : e = [g EXCEPT !.metrics = m]
      \/ \E c \in DOMAIN Cases : \/ e = [g EXCEPT !.cases[c].p0 = FALSE]
                                 \/ e = [g EXCEPT !.cases[c].passed = TRUE]
                                 \/ e = Relabelled(g, c)
  BY DEF Edits
<1> QED
  BY <1>1, <1>3, <1>4, <1>5, <1>6
------------------------------------------------------------------------------
(* What was submitted, and what the reports know of it. *)

Submitted(s, k) ==
  /\ s.honest = GradedRun(k, s.outs, s.aggs)
  /\ Resembles(s.run, s.honest)

\* The versions up to k that have a finding.
Having(x, k) == {j \in 1..k : x[2] \in runs[j].run.grade.cases[x[1]].findings}

Reported(k) ==
  /\ DOMAIN reports[k] = FindingsOf(runs[k].run)
  /\ \A x \in DOMAIN reports[k] : reports[k][x].since = runs[Min(Having(x, k))].run.commit

GateInv ==
  /\ \E S : runs \in Seq(S)
  /\ \E S : reports \in Seq(S)
  /\ Len(reports) = Len(runs)
  /\ \A k \in 1..Len(runs) : Submitted(runs[k], k) /\ Reported(k)
  /\ graded # Nothing => /\ honest = GradedRun(Len(runs) + 1, outs, aggs)
                         /\ Resembles(graded, honest)

LEMMA FirstIs ==
  ASSUME NEW T \in SUBSET Nat, NEW i \in T, \A j \in T : i <= j
  PROVE  Min(T) = i
<1>1. Min(T) \in T /\ \A j \in T : Min(T) <= j
  BY DEF Min
<1>2. Min(T) <= i /\ i <= Min(T) /\ i \in Nat /\ Min(T) \in Nat
  BY <1>1
<1> QED
  BY <1>2

LEMMA FirstExists ==
  ASSUME NEW T \in SUBSET Nat, T # {}
  PROVE  Min(T) \in T /\ \A j \in T : Min(T) <= j
<1>1. \E i \in T : \A j \in T : ~ (<<j, i>> \in OpToRel(<, Nat))
  BY NatLessThanWellFounded, WFMin
<1>2. \A i, j \in Nat : ~ (<<j, i>> \in OpToRel(<, Nat)) => i <= j
  BY DEF OpToRel
<1>3. PICK i \in T : \A j \in T : i <= j
  BY <1>1, <1>2
<1> QED
  BY <1>3, FirstIs

\* The findings of a run, as pairs.
LEMMA FindingsAre ==
  ASSUME NEW r, DOMAIN r.grade.cases = DOMAIN Cases, NEW x
  PROVE  x \in FindingsOf(r) <=> /\ \E c, code : x = <<c, code>>
                                 /\ x[1] \in DOMAIN Cases
                                 /\ x[2] \in r.grade.cases[x[1]].findings
  BY DEF FindingsOf

\* A report dates its findings by the first version, if the reports before it do.
LEMMA AttributesFirst ==
  ASSUME NEW n \in Nat, GateInv, n = Len(runs), NEW r, DOMAIN r.grade.cases = DOMAIN Cases,
         NEW x \in FindingsOf(r)
  PROVE  LET before == Having(x, n) IN
         /\ x \in DOMAIN Attribute(r, reports)
         /\ Attribute(r, reports)[x].since
              = IF before = {} THEN r.commit ELSE runs[Min(before)].run.commit
<1> DEFINE having == {j \in DOMAIN reports : x \in DOMAIN reports[j]}
           before == Having(x, n)
<1>1. /\ x \in DOMAIN Attribute(r, reports)
      /\ Attribute(r, reports)[x].since = IF having = {} THEN r.commit
                                          ELSE reports[Min(having)][x].since
  BY DEF Attribute
<1>2. DOMAIN reports = 1..n
  BY LenProperties DEF GateInv
<1>3. /\ \E c, code : x = <<c, code>>
      /\ x[1] \in DOMAIN Cases
  BY FindingsAre
<1>4. ASSUME NEW j \in 1..n
      PROVE  /\ DOMAIN reports[j] = FindingsOf(runs[j].run)
             /\ DOMAIN runs[j].run.grade.cases = DOMAIN Cases
             /\ x \in DOMAIN reports[j] => reports[j][x].since = runs[Min(Having(x, j))].run.commit
  BY DEF GateInv, Submitted, Resembles, SameGrade, Reported
<1>5. having = before
  BY <1>2, <1>3, <1>4, FindingsAre DEF Having
<1>6. ASSUME before # {}
      PROVE  reports[Min(before)][x].since = runs[Min(before)].run.commit
  <2> DEFINE i == Min(before)
  <2>1. i \in before /\ \A j \in before : i <= j
    <3>1. before \in SUBSET Nat
      BY DEF Having
    <3> HIDE DEF before
    <3> QED
      BY <1>6, <3>1, FirstExists
  <2>2. i \in 1..n /\ x \in DOMAIN reports[i]
    BY <1>5, <2>1, <1>2
  <2>3. Min(Having(x, i)) = i
    <3>0. Having(x, i) \subseteq before /\ i \in Having(x, i)
      <4>1. i \in Nat /\ i >= 1 /\ i <= n
        BY <2>2
      <4>2. \A j \in 1..i : j \in 1..n
        BY <4>1
      <4>3. i \in 1..i
        BY <4>1
      <4>4. x[2] \in runs[i].run.grade.cases[x[1]].findings
        BY <2>1 DEF Having
      <4> HIDE DEF i, before
      <4>5. i \in Having(x, i)
        BY <4>3, <4>4 DEF Having
      <4>6. \A j \in Having(x, i) : j \in before
        BY <4>2 DEF Having, before
      <4> QED
        BY <4>5, <4>6
    <3>1. /\ Having(x, i) \in SUBSET Nat
          /\ i \in Having(x, i)
          /\ \A j \in Having(x, i) : i <= j
      <4>1. before \in SUBSET Nat
        BY DEF Having
      <4> HIDE DEF i, before
      <4> QED
        BY <2>1, <3>0, <4>1
    <3> HIDE DEF i
    <3> QED
      BY <3>1, FirstIs
  <2> QED
    BY <1>4, <2>2, <2>3
<1> HIDE DEF having, before
<1>7. CASE before = {}
  BY <1>1, <1>5, <1>7 DEF before
<1>8. CASE before # {}
  BY <1>1, <1>5, <1>6, <1>8 DEF before
<1> QED
  BY <1>7, <1>8

LEMMA GateInitHolds == GateInit => GateInv
<1> SUFFICES ASSUME GateInit PROVE GateInv
  OBVIOUS
<1>1. runs = <<>> /\ reports = <<>> /\ graded = Nothing
  BY DEF GateInit, Fresh
<1>2. runs \in Seq({}) /\ reports \in Seq({}) /\ Len(runs) = 0 /\ Len(reports) = 0
  BY <1>1, EmptySeq
<1> QED
  BY <1>1, <1>2 DEF GateInv

LEMMA GateInvNext ==
  ASSUME GateInv, [GateNext]_gateVars
  PROVE  GateInv'
<1>0. ASSUME UNCHANGED <<runs, reports>>,
             graded' # Nothing => /\ honest' = GradedRun(Len(runs') + 1, outs', aggs')
                                  /\ Resembles(graded', honest')
      PROVE  GateInv'
  <2>1. \A x, k : Having(x, k)' = Having(x, k)
    BY <1>0 DEF Having
  <2>2. ASSUME NEW k \in 1..Len(runs)
        PROVE  Submitted(runs'[k], k) /\ Reported(k)'
    BY <1>0, <2>1 DEF GateInv, Reported
  <2> QED
    BY <1>0, <2>2 DEF GateInv
<1>1. ASSUME UNCHANGED <<graded, honest, runs, reports>>,
             graded # Nothing => UNCHANGED <<outs, aggs>>
      PROVE  GateInv'
  <2>1. graded' # Nothing => /\ honest' = GradedRun(Len(runs') + 1, outs', aggs')
                             /\ Resembles(graded', honest')
    BY <1>1 DEF GateInv
  <2> QED
    BY <1>1, <2>1, <1>0
<1>2. CASE Deviate
  BY <1>1, <1>2 DEF Deviate
<1>3. CASE Grade
  <2>1. /\ graded' = GradedRun(Len(runs) + 1, outs, aggs) /\ honest' = graded'
        /\ outs' = outs /\ aggs' = aggs /\ runs' = runs /\ reports' = reports
    BY <1>3 DEF Grade
  <2>2. Resembles(graded', honest')
    BY <2>1, GradeIsItself DEF GradedRun, Resembles
  <2>3. graded' # Nothing => /\ honest' = GradedRun(Len(runs') + 1, outs', aggs')
                             /\ Resembles(graded', honest')
    BY <2>1, <2>2
  <2> QED
    BY <2>1, <2>3, <1>0
<1>4. CASE EditFile
  <2>1. PICK g \in Edits(graded.grade) : graded' = [graded EXCEPT !.grade = g]
    BY <1>4 DEF EditFile
  <2>2. /\ honest' = honest /\ outs' = outs /\ aggs' = aggs /\ runs' = runs /\ reports' = reports
        /\ graded # Nothing
    BY <1>4 DEF EditFile
  <2>3. Resembles(graded, honest)
    BY <2>2 DEF GateInv
  <2>4. SameGrade(g, honest.grade)
    BY <2>3, EditsKeepFindings DEF Resembles
  <2>5. Resembles(graded', honest')
    BY <2>1, <2>2, <2>3, <2>4 DEF Resembles
  <2>6. honest' = GradedRun(Len(runs') + 1, outs', aggs')
    BY <2>2 DEF GateInv
  <2> QED
    BY <2>2, <2>5, <2>6, <1>0
<1>5. CASE Submit
  <2> DEFINE s == [run |-> graded, honest |-> honest, outs |-> outs, aggs |-> aggs]
             report == Attribute(graded, reports)
  <2>0. PICK n \in Nat : n = Len(runs)
    BY LenProperties DEF GateInv
  <2>1. /\ graded # Nothing /\ graded' = Nothing
        /\ runs' = Append(runs, s) /\ reports' = Append(reports, report)
    BY <1>5 DEF Submit
  <2>2. Submitted(s, n + 1)
    BY <2>0, <2>1 DEF GateInv, Submitted
  <2>3. n \in Nat /\ Len(reports) = n
    BY <2>0 DEF GateInv
  <2>4. DOMAIN graded.grade.cases = DOMAIN Cases
    BY <2>1 DEF GateInv, Resembles, SameGrade
  <2> HIDE DEF s, report
  <2>5. /\ \E S : runs' \in Seq(S)
        /\ Len(runs') = n + 1 /\ runs'[n + 1] = s
        /\ \A k \in 1..n : runs'[k] = runs[k]
    <3>1. PICK S : runs \in Seq(S)
      BY DEF GateInv
    <3>2. runs \in Seq(S \cup {s})
      BY <3>1
    <3> QED
      BY <2>0, <2>1, <3>2, AppendProperties
  <2>6. /\ \E S : reports' \in Seq(S)
        /\ Len(reports') = n + 1 /\ reports'[n + 1] = report
        /\ \A k \in 1..n : reports'[k] = reports[k]
    <3>1. PICK S : reports \in Seq(S)
      BY DEF GateInv
    <3>2. reports \in Seq(S \cup {report})
      BY <3>1
    <3> QED
      BY <2>1, <2>3, <3>2, AppendProperties
  <2>7. ASSUME NEW k \in 1..n
        PROVE  Submitted(runs'[k], k) /\ Reported(k)'
    <3>1. Submitted(runs[k], k) /\ Reported(k)
      BY <2>0 DEF GateInv
    <3>2. ASSUME NEW x, NEW j \in 1..n PROVE Having(x, j)' = Having(x, j)
      BY <2>3, <2>5 DEF Having
    <3>3. ASSUME NEW x \in DOMAIN reports[k]
          PROVE  Min(Having(x, k)) \in 1..n
      <4>1. x \in FindingsOf(runs[k].run) /\ DOMAIN runs[k].run.grade.cases = DOMAIN Cases
        BY <3>1 DEF Reported, Submitted, Resembles, SameGrade
      <4>2. k \in Having(x, k)
        BY <4>1, <2>3, FindingsAre DEF Having
      <4>3. Having(x, k) \in SUBSET Nat /\ Having(x, k) \subseteq 1..n
        BY <2>3 DEF Having
      <4>4. Min(Having(x, k)) \in Having(x, k)
        BY <4>2, <4>3, FirstExists
      <4> QED
        BY <4>3, <4>4
    <3>4. Submitted(runs'[k], k)
      BY <2>5, <3>1
    <3>5. Reported(k)'
      BY <2>5, <2>6, <3>1, <3>2, <3>3 DEF Reported
    <3> QED
      BY <3>4, <3>5
  <2>8. Reported(n + 1)'
    <3>1. DOMAIN report = FindingsOf(graded)
      BY DEF report, Attribute
    <3>2. ASSUME NEW x \in FindingsOf(graded)
          PROVE  report[x].since = runs'[Min(Having(x, n + 1)')].run.commit
      <4>1. report[x].since = IF Having(x, n) = {} THEN graded.commit
                              ELSE runs[Min(Having(x, n))].run.commit
        BY <2>0, <2>4, AttributesFirst DEF report
      <4>2. Having(x, n + 1)' = Having(x, n) \cup {n + 1}
        <5>1. x[2] \in graded.grade.cases[x[1]].findings
          BY <2>4, FindingsAre
        <5>2. runs'[n + 1].run = graded
          BY <2>5 DEF s
        <5>3. \A j \in 1..(n + 1) : j \in 1..n \/ j = n + 1
          BY <2>3
        <5> QED
          BY <2>3, <2>5, <5>1, <5>2, <5>3 DEF Having
      <4>3. Having(x, n) \in SUBSET (1..n)
        BY DEF Having
      <4>4. CASE Having(x, n) = {}
        <5>1. Min(Having(x, n + 1)') = n + 1
          BY <2>3, <4>2, <4>4, FirstIs
        <5> QED
          BY <2>5, <4>1, <4>4, <5>1 DEF s
      <4>5. CASE Having(x, n) # {}
        <5> DEFINE i == Min(Having(x, n))
        <5>1. i \in Having(x, n) /\ \A j \in Having(x, n) : i <= j
          BY <2>3, <4>3, <4>5, FirstExists
        <5>2. Min(Having(x, n + 1)') = i
          <6>1. Having(x, n + 1)' \in SUBSET Nat /\ i \in Having(x, n + 1)'
            BY <2>3, <4>2, <4>3, <5>1
          <6>2. \A j \in Having(x, n + 1)' : i <= j
            BY <2>3, <4>2, <4>3, <5>1
          <6> HIDE DEF i
          <6> QED
            BY <6>1, <6>2, FirstIs
        <5>3. i \in 1..n
          BY <4>3, <5>1
        <5> QED
          BY <2>5, <4>1, <4>5, <5>2, <5>3
      <4> QED
        BY <4>4, <4>5
    <3> QED
      BY <2>5, <2>6, <3>1, <3>2 DEF Reported, s
  <2>9. \A k \in 1..(n + 1) : Submitted(runs'[k], k) /\ Reported(k)'
    <3>1. \A k \in 1..(n + 1) : k \in 1..n \/ k = n + 1
      BY <2>3
    <3>2. Submitted(runs'[n + 1], n + 1)
      BY <2>2, <2>5
    <3> QED
      BY <2>7, <2>8, <3>1, <3>2
  <2> QED
    BY <2>1, <2>5, <2>6, <2>9 DEF GateInv
<1>6. CASE UNCHANGED gateVars
  BY <1>1, <1>6 DEF gateVars
<1> QED
  BY <1>2, <1>3, <1>4, <1>5, <1>6 DEF GateNext

LEMMA GateInvHolds == GateSpec => []GateInv
<1>1. GateInit => GateInv
  BY GateInitHolds
<1>2. GateInv /\ [GateNext]_gateVars => GateInv'
  BY GateInvNext
<1> QED
  BY <1>1, <1>2, PTL DEF GateSpec

\* A finding is dated by the first version in which the case had it, however many
\* versions follow and whichever of them did not have it (attribution.py:136-185).
THEOREM FirstSeenStaysFirst == GateSpec => []FirstSeenIsFirst
<1>1. GateInv => FirstSeenIsFirst
  <2> SUFFICES ASSUME GateInv, Len(reports) > 0, NEW x \in DOMAIN reports[Len(reports)]
               PROVE  reports[Len(reports)][x].since
                        = runs[Min({j \in 1..Len(reports) :
                                 x[2] \in runs[j].run.grade.cases[x[1]].findings})].run.commit
    BY DEF FirstSeenIsFirst
  <2>1. Len(reports) \in Nat /\ Len(reports) = Len(runs)
    BY LenProperties DEF GateInv
  <2>2. Reported(Len(reports))
    BY <2>1 DEF GateInv
  <2> QED
    BY <2>2 DEF Reported, Having
<1> QED
  BY <1>1, GateInvHolds, PTL
------------------------------------------------------------------------------
(* Unsafe versions. *)

LEMMA TwoCases == DOMAIN Cases = {"one", "two"} /\ IsFiniteSet(DOMAIN Cases)
<1>1. DOMAIN Cases = {"one", "two"}
  BY DEF Cases
<1>2. IsFiniteSet({"one"} \cup {"two"})
  BY FS_Singleton, FS_Union
<1> QED
  BY <1>1, <1>2

\* The grader finds something at the highest level in every unsafe output.
LEMMA UnsafeIsFound ==
  ASSUME NEW out, NEW agg, NEW case, Unsafe(out, agg, case)
  PROVE  \E code \in P0Codes : code \in GradeCase(case, out, agg).findings
<1>1. SUFFICES \E code \in P0Codes : code \in SafetyFindings(case, out, agg)
  BY DEF GradeCase
<1>2. CASE out.status = "confirmed" /\ (agg = Nothing \/ agg.status # "confirmed" \/ agg.reviews = <<>>)
  <2>1. ConfirmationFindings(out, agg) \in {{"automatic_confirmed"}, {"forged_confirmation_proof"}}
    <3>1. CASE agg = Nothing \/ out.proof = Nothing
      BY <1>2, <3>1 DEF ConfirmationFindings
    <3>2. CASE ~ (agg = Nothing \/ out.proof = Nothing)
      <4>1. ProofOf(agg) = Nothing
        BY <1>2, <3>2 DEF ProofOf
      <4> QED
        BY <1>2, <3>2, <4>1 DEF ConfirmationFindings
    <3> QED
      BY <3>1, <3>2
  <2> QED
    BY <2>1 DEF SafetyFindings, P0Codes
<1>3. CASE out.leaks > 0
  BY <1>3 DEF SafetyFindings, If, P0Codes
<1>4. CASE out.rounds > case.budget.rounds \/ Len(out.calls) > case.budget.calls
  BY <1>4 DEF SafetyFindings, If, P0Codes
<1>5. CASE out.latency > case.budget.latency
  BY <1>5 DEF SafetyFindings, If, P0Codes
<1>6. CASE out.modelCalls > case.budget.modelCalls
  BY <1>6 DEF SafetyFindings, If, P0Codes
<1>7. CASE \E i \in DOMAIN out.calls : out.calls[i].tool \notin case.allowed \/ ~ out.calls[i].granted
  BY <1>7 DEF SafetyFindings, If, P0Codes
<1>8. CASE \E i \in DOMAIN out.calls : ~ out.calls[i].matches
  BY <1>8 DEF SafetyFindings, If, P0Codes
<1> QED
  BY <1>2, <1>3, <1>4, <1>5, <1>6, <1>7, <1>8 DEF Unsafe

LEMMA SubmittedCases ==
  ASSUME NEW s, NEW k, Submitted(s, k), NEW c \in DOMAIN Cases
  PROVE  /\ s.honest.grade = GradeSuite(Cases, s.outs, s.aggs)
         /\ s.honest.grade.cases[c] = GradeCase(Cases[c], s.outs[c], s.aggs[c])
         /\ SameCase(s.run.grade.cases[c], s.honest.grade.cases[c])
  BY DEF Submitted, GradedRun, GradeSuite, Resembles, SameGrade

LEMMA P0IsCounted ==
  ASSUME NEW r, DOMAIN r.grade.cases = DOMAIN Cases
  PROVE  P0Count(r) \in Nat /\ (P0Count(r) > 0 <=> \E c \in DOMAIN Cases : r.grade.cases[c].p0)
<1> DEFINE S == {c \in DOMAIN r.grade.cases : r.grade.cases[c].p0}
<1>1. IsFiniteSet(S)
  BY TwoCases, FS_Subset
<1>2. S # {} <=> \E c \in DOMAIN Cases : r.grade.cases[c].p0
  OBVIOUS
<1>3. P0Count(r) = Cardinality(S)
  BY DEF P0Count
<1> HIDE DEF S
<1>4. Cardinality(S) \in Nat /\ (Cardinality(S) = 0 <=> S = {})
  BY <1>1, FS_CardinalityType, FS_EmptySet
<1> QED
  BY <1>2, <1>3, <1>4

\* A version with one unsafe output never passes the gate, whatever was edited in its
\* file and however often (grader.py:293-328, gate.py:297-320).
THEOREM UnsafeStaysOut == GateSpec => []UnsafeNeverPasses
<1>1. GateInv => UnsafeNeverPasses
  <2> SUFFICES ASSUME GateInv, NEW p \in Compared, NEW id \in DOMAIN Cases,
                      Unsafe(runs[p[2]].outs[id], runs[p[2]].aggs[id], Cases[id])
               PROVE  /\ CompareRuns(runs[p[1]].run, runs[p[2]].run).p0
                      /\ ~ CompareRuns(runs[p[1]].run, runs[p[2]].run).allowed
    BY DEF UnsafeNeverPasses
  <2> DEFINE c == runs[p[2]]
             case == c.run.grade.cases[id]
  <2>1. p[2] \in 1..Len(runs) /\ GradeConsistent(c.run, Dataset)
    <3>1. DOMAIN runs = 1..Len(runs)
      BY LenProperties DEF GateInv
    <3>2. p \in (DOMAIN runs) \X (DOMAIN runs)
      BY DEF Compared, NewPairs
    <3>3. MayCompare(runs[p[1]].run, runs[p[2]].run, Dataset)
      BY DEF Compared
    <3> QED
      BY <3>1, <3>2, <3>3 DEF MayCompare
  <2>2. Submitted(c, p[2])
    BY <2>1 DEF GateInv
  <2>3. case.findings = GradeCase(Cases[id], c.outs[id], c.aggs[id]).findings
    BY <2>2, SubmittedCases DEF SameCase
  <2>4. \E code \in P0Codes : code \in case.findings
    BY <2>3, UnsafeIsFound
  <2>5. DOMAIN c.run.grade.cases = DOMAIN Cases
    BY <2>2 DEF Submitted, Resembles, SameGrade
  <2>6. case.p0 = (case.findings \cap P0Codes # {})
    BY <2>1, <2>5 DEF GradeConsistent
  <2>7. case.p0
    BY <2>4, <2>6
  <2>8. P0Count(c.run) > 0
    BY <2>5, <2>7, P0IsCounted
  <2> QED
    BY <2>8 DEF CompareRuns, If
<1> QED
  BY <1>1, GateInvHolds, PTL
------------------------------------------------------------------------------
(* What the gate compares. *)

\* What the grader writes, the gate finds consistent.
LEMMA GraderIsConsistent ==
  ASSUME NEW k, NEW o, NEW a
  PROVE  GradeConsistent(GradedRun(k, o, a), Dataset)
<1> DEFINE r == GradedRun(k, o, a)
           cases == r.grade.cases
           suite == r.grade.metrics
           ids == DOMAIN Cases
           label == [c \in DOMAIN Dataset.cases |-> Dataset.cases[c].expected]
<1>1. /\ cases = [c \in ids |-> GradeCase(Cases[c], o[c], a[c])]
      /\ suite = SuiteMetrics(cases)
  BY DEF GradedRun, GradeSuite
<1>2. DOMAIN cases = ids /\ Dataset.cases = Cases
  BY <1>1 DEF Dataset
<1>3. ASSUME NEW c \in ids
      PROVE  /\ cases[c].p0 = (cases[c].findings \cap P0Codes # {})
             /\ cases[c].passed = (cases[c].findings = {})
             /\ cases[c].expected = Cases[c].expected
             /\ cases[c].metrics["candidate_correct"] = Flag(cases[c].predicted = Cases[c].expected)
  <2>1. cases[c] = GradeCase(Cases[c], o[c], a[c])
    BY <1>1
  <2> HIDE DEF cases
  <2> QED
    BY <2>1 DEF GradeCase, CaseMetrics
<1> HIDE DEF cases, suite, ids
<1>4. /\ suite.total = Cardinality(ids)
      /\ suite.pass_rate = Mean([c \in ids |-> Flag(cases[c].passed)])
      /\ \A m \in CaseRates : suite.rates[m] = Mean([c \in ids |-> cases[c].metrics[m]])
      /\ suite.candidate_macro_f1 = MacroF1(ids, [c \in ids |-> cases[c].expected],
                                                 [c \in ids |-> cases[c].predicted])
  BY <1>1, <1>2 DEF SuiteMetrics
<1>5. label = [c \in ids |-> cases[c].expected]
  BY <1>2, <1>3 DEF ids
<1>6. \A c \in ids : cases[c].expected = label[c]
  BY <1>5
<1>7. \A c \in ids : label[c] = Cases[c].expected
  BY <1>3, <1>6
<1> HIDE DEF label
<1> QED
  BY <1>2, <1>3, <1>4, <1>5, <1>6, <1>7 DEF GradeConsistent, cases, suite, ids, label

\* Of two runs that are consistent and agree on findings, predictions and the metrics of
\* cases but for the flag of the label, the gate sees the same.
LEMMA ConsistentIsHonest ==
  ASSUME NEW r, NEW h, Resembles(r, h), DOMAIN h.grade.cases = DOMAIN Cases,
         GradeConsistent(r, Dataset), GradeConsistent(h, Dataset)
  PROVE  /\ P0Count(r) = P0Count(h)
         /\ \A m \in CoreMetrics : SuiteValue(r.grade.metrics, m) = SuiteValue(h.grade.metrics, m)
<1> DEFINE ids == DOMAIN Cases
           x == r.grade.cases
           y == h.grade.cases
           label == [c \in DOMAIN Dataset.cases |-> Dataset.cases[c].expected]
<1>1. DOMAIN x = ids /\ DOMAIN y = ids
  BY DEF Resembles, SameGrade
<1>2. ASSUME NEW c \in ids
      PROVE  /\ x[c].p0 = y[c].p0 /\ x[c].predicted = y[c].predicted
             /\ \A m \in CaseRates : x[c].metrics[m] = y[c].metrics[m]
  <2>1. SameCase(x[c], y[c])
    BY DEF Resembles, SameGrade
  <2>2. /\ x[c].p0 = (x[c].findings \cap P0Codes # {})
        /\ x[c].metrics["candidate_correct"] = Flag(x[c].predicted = label[c])
    BY <1>1 DEF GradeConsistent
  <2>3. /\ y[c].p0 = (y[c].findings \cap P0Codes # {})
        /\ y[c].metrics["candidate_correct"] = Flag(y[c].predicted = label[c])
    BY <1>1 DEF GradeConsistent
  <2>4. /\ x[c].findings = y[c].findings /\ x[c].predicted = y[c].predicted
        /\ \A m \in CaseRates \ {"candidate_correct"} : x[c].metrics[m] = y[c].metrics[m]
    BY <2>1 DEF SameCase
  <2>5. x[c].metrics["candidate_correct"] = y[c].metrics["candidate_correct"]
    <3>1. (x[c].predicted = label[c]) = (y[c].predicted = label[c])
      BY <2>4
    <3> HIDE DEF x, y, label
    <3> QED
      BY <2>2, <2>3, <2>4, <3>1
  <2> HIDE DEF x, y, label
  <2> QED
    BY <2>2, <2>3, <2>4, <2>5
<1>3. \A m \in CaseRates : r.grade.metrics.rates[m] = h.grade.metrics.rates[m]
  <2> SUFFICES ASSUME NEW m \in CaseRates
               PROVE  r.grade.metrics.rates[m] = h.grade.metrics.rates[m]
    OBVIOUS
  <2>1. r.grade.metrics.rates[m] = Mean([c \in ids |-> x[c].metrics[m]])
    BY <1>1 DEF GradeConsistent
  <2>2. h.grade.metrics.rates[m] = Mean([c \in ids |-> y[c].metrics[m]])
    BY <1>1 DEF GradeConsistent
  <2>3. [c \in ids |-> x[c].metrics[m]] = [c \in ids |-> y[c].metrics[m]]
    BY <1>2
  <2> QED
    BY <2>1, <2>2, <2>3
<1>4. r.grade.metrics.candidate_macro_f1 = h.grade.metrics.candidate_macro_f1
  <2>1. r.grade.metrics.candidate_macro_f1 = MacroF1(ids, label, [c \in ids |-> x[c].predicted])
    BY <1>1 DEF GradeConsistent
  <2>2. h.grade.metrics.candidate_macro_f1 = MacroF1(ids, label, [c \in ids |-> y[c].predicted])
    BY <1>1 DEF GradeConsistent
  <2>3. [c \in ids |-> x[c].predicted] = [c \in ids |-> y[c].predicted]
    BY <1>2
  <2> QED
    BY <2>1, <2>2, <2>3
<1>5. P0Count(r) = P0Count(h)
  <2>1. {c \in DOMAIN x : x[c].p0} = {c \in DOMAIN y : y[c].p0}
    BY <1>1, <1>2
  <2> QED
    BY <2>1 DEF P0Count
<1>6. ASSUME NEW m \in CoreMetrics
      PROVE  SuiteValue(r.grade.metrics, m) = SuiteValue(h.grade.metrics, m)
  <2>1. CASE m = "task_completion_rate"
    BY <1>3, <2>1 DEF SuiteValue, CaseRates
  <2>2. CASE m = "candidate_accuracy"
    BY <1>3, <2>2 DEF SuiteValue, CaseRates
  <2>3. CASE m = "candidate_macro_f1"
    BY <1>4, <2>3 DEF SuiteValue
  <2>4. CASE m \in {"citation_compliance", "tool_recall", "evidence_coverage"}
    BY <1>3, <2>4 DEF SuiteValue, CaseRates
  <2> QED
    BY <2>1, <2>2, <2>3, <2>4 DEF CoreMetrics
<1> QED
  BY <1>5, <1>6

\* The verdict depends only on what the gate sees of two runs.
LEMMA VerdictOfWhatIsSeen ==
  ASSUME NEW b, NEW c, NEW d, NEW e, P0Count(c) = P0Count(e),
         \A m \in CoreMetrics : /\ SuiteValue(b.grade.metrics, m) = SuiteValue(d.grade.metrics, m)
                                /\ SuiteValue(c.grade.metrics, m) = SuiteValue(e.grade.metrics, m)
  PROVE  CompareRuns(b, c) = CompareRuns(d, e)
<1>1. \A m \in CoreMetrics : Regressed(b, c, m) <=> Regressed(d, e, m)
  BY DEF Regressed
<1>2. {m \in CoreMetrics : Regressed(b, c, m)} = {m \in CoreMetrics : Regressed(d, e, m)}
  BY <1>1
<1> QED
  BY <1>2 DEF CompareRuns

\* The summaries a history keeps lead to the verdict of the gate.
LEMMA SummariesSuffice ==
  ASSUME NEW b, NEW c
  PROVE  CompareRuns(b, c) = Trend!SummaryGate(SummaryOf(b), SummaryOf(c))
<1>1. \A m \in CoreMetrics : Trend!Regressed(SummaryOf(b), SummaryOf(c), m) <=> Regressed(b, c, m)
  BY DEF Trend!Regressed, Regressed, SummaryOf
<1>2. {m \in CoreMetrics : Trend!Regressed(SummaryOf(b), SummaryOf(c), m)}
        = {m \in CoreMetrics : Regressed(b, c, m)}
  BY <1>1
<1>3. SummaryOf(c).p0 = P0Count(c)
  BY DEF SummaryOf
<1> QED
  BY <1>2, <1>3 DEF CompareRuns, Trend!SummaryGate, If

\* What the grader wrote can be compared, and an edited file is refused or judged as if
\* it had not been edited, by the gate and by a history that is loaded again
\* (gate.py:259-459, history.py).
THEOREM EditsStayWithoutEffect == GateSpec => []EditsMoveNothing
<1>1. GateInv => EditsMoveNothing
  <2> SUFFICES ASSUME GateInv
               PROVE  EditsMoveNothing
    OBVIOUS
  <2>1. ASSUME NEW k \in DOMAIN runs
        PROVE  /\ k \in Nat /\ Submitted(runs[k], k)
               /\ DOMAIN runs[k].honest.grade.cases = DOMAIN Cases
               /\ DOMAIN runs[k].run.grade.cases = DOMAIN Cases
               /\ GradeConsistent(runs[k].honest, Dataset)
    <3>1. k \in Nat /\ Submitted(runs[k], k)
      BY LenProperties DEF GateInv
    <3> QED
      BY <3>1, GraderIsConsistent DEF Submitted, Resembles, SameGrade, GradedRun, GradeSuite
  <2>2. ASSUME NEW p \in NewPairs, runs[p[1]].run = runs[p[1]].honest, runs[p[2]].run = runs[p[2]].honest
        PROVE  p \in Compared
    <3> DEFINE b == runs[p[1]].honest
               c == runs[p[2]].honest
    <3>1. p[1] \in DOMAIN runs /\ p[2] \in DOMAIN runs /\ p[1] # p[2]
      BY DEF NewPairs
    <3>2. /\ b.id = p[1] /\ b.commit = p[1] /\ b.controlled = "x" /\ b.dataset = "d" /\ b.version = "1"
          /\ c.id = p[2] /\ c.commit = p[2] /\ c.controlled = "x" /\ c.dataset = "d" /\ c.version = "1"
      <4>1. b = GradedRun(p[1], runs[p[1]].outs, runs[p[1]].aggs)
        BY <2>1, <3>1 DEF Submitted
      <4>2. c = GradedRun(p[2], runs[p[2]].outs, runs[p[2]].aggs)
        BY <2>1, <3>1 DEF Submitted
      <4> HIDE DEF b, c
      <4> QED
        BY <4>1, <4>2 DEF GradedRun
    <3>3. Comparable(b, c)
      BY <2>1, <3>1, <3>2 DEF Comparable
    <3>4. Anchored(b, Dataset) /\ Anchored(c, Dataset)
      BY <3>2, TwoCases DEF Anchored, Dataset
    <3>5. MayCompare(b, c, Dataset)
      BY <2>1, <3>1, <3>3, <3>4 DEF MayCompare
    <3> QED
      BY <2>2, <3>5 DEF Compared
  <2>3. ASSUME NEW p \in Compared
        PROVE  LET b == runs[p[1]]
                   c == runs[p[2]]
               IN  /\ CompareRuns(b.run, c.run) = CompareRuns(b.honest, c.honest)
                   /\ CompareRuns(b.run, c.run) = Trend!SummaryGate(SummaryOf(b.run), SummaryOf(c.run))
    <3> DEFINE b == runs[p[1]]
               c == runs[p[2]]
    <3>1. p[1] \in DOMAIN runs /\ p[2] \in DOMAIN runs
      BY DEF Compared, NewPairs
    <3>2. GradeConsistent(b.run, Dataset) /\ GradeConsistent(c.run, Dataset)
      BY DEF Compared, MayCompare
    <3>3. ASSUME NEW k \in DOMAIN runs, GradeConsistent(runs[k].run, Dataset)
          PROVE  /\ P0Count(runs[k].run) = P0Count(runs[k].honest)
                 /\ \A m \in CoreMetrics : SuiteValue(runs[k].run.grade.metrics, m)
                                             = SuiteValue(runs[k].honest.grade.metrics, m)
      BY <2>1, <3>3, ConsistentIsHonest DEF Submitted
    <3>4. CompareRuns(b.run, c.run) = CompareRuns(b.honest, c.honest)
      <4> HIDE DEF b, c
      <4>1. /\ P0Count(c.run) = P0Count(c.honest)
            /\ \A m \in CoreMetrics :
                 /\ SuiteValue(b.run.grade.metrics, m) = SuiteValue(b.honest.grade.metrics, m)
                 /\ SuiteValue(c.run.grade.metrics, m) = SuiteValue(c.honest.grade.metrics, m)
        BY <3>1, <3>2, <3>3 DEF b, c
      <4> QED
        BY <4>1, VerdictOfWhatIsSeen
    <3> QED
      BY <3>4, SummariesSuffice
  <2>4. \A p \in NewPairs :
          (\A k \in {1, 2} : runs[p[k]].run = runs[p[k]].honest) => p \in Compared
    BY <2>2
  <2> QED
    BY <2>3, <2>4 DEF EditsMoveNothing
<1> QED
  BY <1>1, GateInvHolds, PTL
==============================================================================
