-------------------------- MODULE MCCitationRepair --------------------------
(***************************************************************************)
(* Enumerates evidence lists, as add_evidence builds them, and the         *)
(* citations a model may return, and checks the repair on each of them.    *)
(***************************************************************************)
EXTENDS CitationRepair

CONSTANTS MaxEvidence, MaxCited   \* bounds of the two lists

MCItem(t, r, c) == [type |-> t, reliability |-> r, content |-> c]

MCFactTypes == {"device_status", "device_stream"}
\* The last item is an id no evidence of the case has: a hallucinated citation.
Ghost == MCItem("ghost", "medium", 0)
MCEvidence == {MCItem("device_status", "medium", 1), MCItem("device_status", "low", 1),
               MCItem("device_status", "low", 2), MCItem("device_stream", "medium", 1),
               MCItem("device_stream", "low", 2), MCItem("knowledge_sop", "medium", 1), Ghost}

VARIABLES evidence,  \* the evidence list of the case
          request,   \* what the model asked for
          result     \* what the repair answered

vars == <<evidence, request, result>>

NoRequest == [cited |-> <<>>, confidence |-> "none"]
NoResult  == [ids |-> <<>>, confidence |-> "none", downgraded |-> FALSE,
              added |-> {}, dropped |-> {}, repaired |-> FALSE]

Init == evidence = <<>> /\ request = NoRequest /\ result = NoResult

Land(draft) ==
  /\ Len(evidence) < MaxEvidence
  /\ request = NoRequest
  /\ evidence' = AppendEvidence(evidence, draft)
  /\ UNCHANGED <<request, result>>

Propose(cited, confidence) ==
  /\ request = NoRequest
  /\ request' = [cited |-> cited, confidence |-> confidence]
  /\ result' = Repair(evidence, cited, confidence)
  /\ UNCHANGED evidence

Next ==
  \/ \E d \in MCEvidence \ {Ghost} : Land(d)
  \/ \E n \in 0..MaxCited : \E cited \in [1..n -> MCEvidence], c \in Confidence :
       Propose(cited, c)

Spec == Init /\ [][Next]_vars

Answered == request # NoRequest
held == Range(evidence)

-----------------------------------------------------------------------------
\* What the repair answers is one of the picks the set-level Repairs of
\* Citation allows, so what is proved of the service for every pick holds of
\* the algorithm (diagnoses.py:205-298).
RepairIsAnAllowedPick ==
  Answered => [cited |-> Range(result.ids), confidence |-> result.confidence]
                \in Repairs(held, Range(request.cited), request.confidence)

\* The repair and the policy disagree in one case only: a probable conclusion
\* whose kept citations include a low-reliability fact, which the repair counts
\* as covering its type and the policy refuses.
PolicyRefusesOnlyLowFacts ==
  Answered /\ result.ids # <<>> =>
    (PolicyAccepts(held, Range(result.ids), result.confidence)
       <=> ~ /\ result.confidence = "probable"
             /\ \E e \in Range(result.ids) : IsFact(e) /\ ~ SolidFact(e))

\* A conclusion that cites evidence the case does not have is refused: that is what
\* docs/06-learning/01 and 02 say; the repair drops the id instead, and what is
\* left may pass the policy.
UnknownCitationsAreRefused ==
  Answered /\ Range(request.cited) \ held # {} =>
    ~ PolicyAccepts(held, Range(result.ids), result.confidence)
=============================================================================
