------------------------------ MODULE Citation ------------------------------
(***************************************************************************)
(* What a candidate conclusion may cite (domain/citation_policy.py), and   *)
(* what the application service makes of the citations a model proposed    *)
(* (application/diagnoses.py, repair_cited_evidence_ids), over sets of     *)
(* evidence.  The order in which the code picks one item per missing fact  *)
(* type is left open here; CitationRepair gives the algorithm itself, over *)
(* the evidence list, and its run shows that it makes one of these picks.  *)
(*                                                                         *)
(* An evidence item stands for the row and for its evidence_id: add_evidence *)
(* keeps one item per content, so within a case the item identifies the id. *)
(***************************************************************************)
EXTENDS FiniteSets, Integers

CONSTANTS Evidence,   \* the items tools and models can name: [type, reliability, content]
          FactTypes   \* the evidence types that are device facts

ASSUME EvidenceShape ==
  \A e \in Evidence : {"type", "reliability", "content"} \subseteq DOMAIN e

Confidence == {"possible", "probable"}

\* content_hash covers type, source, summary and payload, and not reliability.
SameContent(a, b) == a.type = b.type /\ a.content = b.content

IsFact(e) == e.type \in FactTypes
SolidFact(e) == IsFact(e) /\ e.reliability # "low"

FactTypesOf(items) == {e.type : e \in items} \cap FactTypes

\* Mutation: the threshold off by one.
OneFactType == 1
\* MIN_DEVICE_FACT_TYPES_FOR_PROBABLE
MinFactTypes == 2
EnoughFactTypes(items) ==
  \E a, b \in items : IsFact(a) /\ IsFact(b) /\ a.type # b.type

-----------------------------------------------------------------------------
\* Mutation: a rerun replaces the evidence of the case.
ReplaceEvidence(evidence, drafts) == drafts
\* add_evidence, once per draft: a draft whose content the case already holds is dropped.
\* The drafts of one run differ in content (DraftsDiffer in DiagnosisService).
AddEvidence(evidence, drafts) ==
  evidence \cup {d \in drafts : \A e \in evidence : ~ SameContent(d, e)}

\* missing_device_fact_evidence_ids: one solid fact for each uncovered type,
\* until `needed` were found or no type is left.
Completions(evidence, covered, needed) ==
  LET pool == {e \in evidence : SolidFact(e) /\ e.type \notin covered}
  IN  {A \in SUBSET pool :
         /\ \A a, b \in A : a.type = b.type => a = b
         /\ \/ Cardinality(A) = needed
            \/ Cardinality(A) < needed /\ FactTypesOf(A) = FactTypesOf(pool)}

\* repair_cited_evidence_ids: every [cited, confidence] it may come back with.
\* An empty `cited` tells the caller that there is no evidence at all.
Repairs(evidence, cited, confidence) ==
  LET kept == cited \cap evidence
      \* nothing kept: the first evidence of the case stands in
      orAny(items) == IF items # {} \/ evidence = {} THEN {items}
                      ELSE {{e} : e \in evidence}
  IN  IF confidence = "probable" /\ ~ EnoughFactTypes(kept)
      THEN LET covered == FactTypesOf(kept)
               merged  == {kept \cup A : A \in
                             Completions(evidence, covered, MinFactTypes - Cardinality(covered))}
           IN  {[cited |-> m, confidence |-> "probable"] :
                   m \in {x \in merged : EnoughFactTypes(x)}}
               \cup
               {[cited |-> f, confidence |-> IF f = {} THEN confidence ELSE "possible"] :
                   f \in UNION {orAny(x) : x \in {y \in merged : ~ EnoughFactTypes(y)}}}
      ELSE {[cited |-> f, confidence |-> confidence] :
                f \in IF confidence = "probable" THEN {kept} ELSE orAny(kept)}

\* Mutation: the policy no longer looks at reliability.
PolicyIgnoresReliability(evidence, cited, confidence) ==
  /\ cited # {} /\ cited \subseteq evidence
  /\ confidence = "probable" => EnoughFactTypes(cited)
\* CitationPolicy.validate after its fault-type check.  That diagnosis ids agree
\* holds because the service builds the conclusion from the case itself.
PolicyAccepts(evidence, cited, confidence) ==
  /\ confidence \in Confidence
  /\ cited # {}
  /\ cited \subseteq evidence
  /\ confidence = "probable" =>
       /\ EnoughFactTypes(cited)
       /\ \A e \in cited : IsFact(e) => e.reliability # "low"
=============================================================================
