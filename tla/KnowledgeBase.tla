----------------------------- MODULE KnowledgeBase -----------------------------
(* Knowledge candidates (domain/knowledge.py), where they come from              *)
(* (application/knowledge_candidates.py and knowledge_governance.py), and what    *)
(* the consistency scan (application/consistency.py) finds in a database.        *)
(* A diagnosis is its journal (DiagnosisLifecycle), its version the length of    *)
(* it; a conclusion is named by the entry of the run that offered it.            *)
EXTENDS Naturals, Sequences, FiniteSets, FiniteSetsExt

CONSTANTS Diagnosis,
          Seed,      \* manual seeds; the id of the candidate follows from the seed
          Generated, \* fresh ids of candidates made from diagnoses
          Actor,
          None

ASSUME IdsDiffer == Diagnosis \cap (Seed \cup Generated) = {} /\ Seed \cap Generated = {}

Knowledge == Seed \cup Generated

------------------------------------------------------------------------------
NewCandidate(source, conclusion, importer) ==
    [source |-> source, conclusion |-> conclusion, importer |-> importer,
     reviews |-> <<>>, status |-> "candidate", version |-> 0]

Offers(entries) == {i \in DOMAIN entries : entries[i].left = "waiting_for_confirmation"}

(* The conclusion a diagnosis holds: that of the last run that offered one. *)
ConclusionOf(entries) == IF Offers(entries) = {} THEN 0 ELSE Max(Offers(entries))

(* _validate_source.  That the conclusion cites evidence of its diagnosis holds of *)
(* every one that is stored (ConclusionSupported of DiagnosisService).             *)
CanGenerate(entries, status) ==
    /\ status = "confirmed"
    /\ \E i \in DOMAIN entries : entries[i].operation = "confirm"
    /\ ConclusionOf(entries) # 0

ReviewActions == {"confirm", "reject", "retire"}

ReviewTarget(action) ==
    CASE action = "confirm" -> "confirmed"
      [] action = "reject"  -> "rejected"
      [] action = "retire"  -> "retired"

(* _validate_review_history, carried out at every read and write. *)
HistoryFits(k) ==
    LET expected == CASE k.status = "candidate" -> <<>>
                      [] k.status = "confirmed" -> <<"confirm">>
                      [] k.status = "rejected"  -> <<"reject">>
                      [] k.status = "retired"   -> <<"confirm", "retire">>
    IN  [i \in DOMAIN k.reviews |-> k.reviews[i].action] = expected

\* Mutation: who imported a seed may review it.
MayReviewOwn(k, action, reviewer) ==
    /\ HistoryFits(k)
    /\ k.status = IF action = "retire" THEN "confirmed" ELSE "candidate"
(* review and apply_review raise nothing. *)
MayReview(k, action, reviewer) ==
    /\ HistoryFits(k)
    /\ k.source \in Seed => k.importer # reviewer
    /\ k.status = IF action = "retire" THEN "confirmed" ELSE "candidate"

Reviewed(k, action, reviewer) ==
    [k EXCEPT !.reviews = Append(@, [action |-> action, reviewer |-> reviewer]),
              !.status = ReviewTarget(action)]

------------------------------------------------------------------------------
(* scan, over what it read: the diagnoses, the candidates and the audit events,   *)
(* which are listed by time and, at one time, by version.                         *)
CandidateFindings(k, journal, status) ==
    LET d == k.source
    IN  IF k = None \/ d \notin Diagnosis THEN {}
        ELSE IF status[d] = "absent" THEN {"missing_source_diagnosis"}
        ELSE (IF status[d] # "confirmed" THEN {"source_diagnosis_not_confirmed"} ELSE {})
             \cup (IF ConclusionOf(journal[d]) # k.conclusion
                   THEN {"missing_source_conclusion"} ELSE {})
             \cup (IF Len(journal[d]) < k.conclusion
                   THEN {"missing_source_evidence"} ELSE {})

SourceFindings(journal, status, knowledge) ==
    UNION {CandidateFindings(knowledge[id], journal, status) : id \in Knowledge}

TrailFindings(version, events) ==
    LET versions == {x.version : x \in events}
    IN  IF events = {} THEN {}
        ELSE IF version = 0 THEN {"orphan_audit_event"}
        ELSE (IF Cardinality(versions) # Cardinality(events) THEN {"duplicate_audit_version"} ELSE {})
             \cup (IF \E x, y \in events : x.version < y.version /\ x.time > y.time
                   THEN {"audit_version_out_of_order"} ELSE {})
             \cup (IF Max(versions) > version THEN {"audit_version_ahead"} ELSE {})
             \cup (IF (1..version) \ versions # {} THEN {"audit_version_gap"} ELSE {})

VersionOf(journal, knowledge, entity) ==
    IF entity \in Diagnosis THEN Len(journal[entity])
    ELSE IF knowledge[entity] = None THEN 0 ELSE knowledge[entity].version

Findings(journal, status, knowledge, trail) ==
    SourceFindings(journal, status, knowledge)
    \cup UNION {TrailFindings(VersionOf(journal, knowledge, e), {x \in trail : x.entity = e}) :
                    e \in Diagnosis \cup Knowledge}
==============================================================================
