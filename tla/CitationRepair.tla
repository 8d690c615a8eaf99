--------------------------- MODULE CitationRepair ---------------------------
(***************************************************************************)
(* The citation repair of application/diagnoses.py over the evidence list  *)
(* of a case and the list of ids a model returned, in the order in which   *)
(* the code walks them.                                                    *)
(***************************************************************************)
EXTENDS Citation, SequencesExt

\* case.evidence is a list; add_evidence appends what no item has the content of.
AppendEvidence(evidence, draft) ==
  IF \E i \in DOMAIN evidence : SameContent(evidence[i], draft)
  THEN evidence
  ELSE Append(evidence, draft)

\* A comprehension over a list: its items at some of its positions, in its order.
AtPositions(list, places) ==
  LET upTo(i) == Cardinality({j \in places : j <= i})
  IN  [k \in 1..Cardinality(places) |-> list[CHOOSE i \in places : upTo(i) = k]]

\* Mutation: low-reliability facts are picked too.
AnyDeviceFacts(evidence, covered, needed) ==
  LET pool == SelectSeq(evidence, LAMBDA e : IsFact(e) /\ e.type \notin covered)
  IN  SubSeq(pool, 1, IF Len(pool) < needed THEN Len(pool) ELSE needed)
\* missing_device_fact_evidence_ids: the first solid fact of every type outside
\* `covered`, in list order, `needed` of them at most.
FirstSolidFacts(evidence, covered) ==
  {i \in DOMAIN evidence :
     /\ SolidFact(evidence[i])
     /\ evidence[i].type \notin covered
     /\ \A j \in 1..(i - 1) :
          ~ (SolidFact(evidence[j]) /\ evidence[j].type = evidence[i].type)}
MissingDeviceFacts(evidence, covered, needed) ==
  LET picks == AtPositions(evidence, FirstSolidFacts(evidence, covered))
  IN  SubSeq(picks, 1, IF Len(picks) < needed THEN Len(picks) ELSE needed)

\* _repair_cited_evidence_ids
RepairIds(evidence, cited, confidence) ==
  LET known(e) == e \in Range(evidence)
      kept     == AtPositions(cited, {i \in DOMAIN cited : known(cited[i])})
      covered  == FactTypesOf(Range(kept))
      missing  == MinFactTypes - Cardinality(covered)
      first    == IF evidence = <<>> THEN <<>> ELSE <<Head(evidence)>>
      merged   == kept \o MissingDeviceFacts(evidence, covered, missing)
      fallback == IF merged # <<>> THEN merged ELSE first
  IN  CASE confidence = "probable" /\ missing <= 0 ->
             [ids |-> kept, confidence |-> confidence, downgraded |-> FALSE]
        [] confidence = "probable" /\ missing > 0
           /\ Cardinality(FactTypesOf(Range(merged))) >= MinFactTypes ->
             [ids |-> merged, confidence |-> confidence, downgraded |-> FALSE]
        [] confidence = "probable" /\ missing > 0
           /\ Cardinality(FactTypesOf(Range(merged))) < MinFactTypes ->
             IF fallback = <<>>
             THEN [ids |-> <<>>, confidence |-> confidence, downgraded |-> FALSE]
             ELSE [ids |-> fallback, confidence |-> "possible", downgraded |-> TRUE]
        [] confidence # "probable" ->
             [ids |-> IF kept # <<>> THEN kept ELSE first,
              confidence |-> confidence, downgraded |-> FALSE]

\* repair_cited_evidence_ids: the repair, and what it added and dropped.
Repair(evidence, cited, confidence) ==
  LET r       == RepairIds(evidence, cited, confidence)
      added   == Range(r.ids) \ Range(cited)
      dropped == Range(cited) \ Range(r.ids)
  IN  [ids |-> r.ids, confidence |-> r.confidence, downgraded |-> r.downgraded,
       added |-> added, dropped |-> dropped,
       repaired |-> added # {} \/ dropped # {}]
=============================================================================
