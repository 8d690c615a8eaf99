---------------------------- MODULE DiagnosisCase ----------------------------
(***************************************************************************)
(* The diagnosis aggregate (domain/case.py): the status machine, evidence, *)
(* the candidate conclusion and human reviews, as operators on case        *)
(* records.  A case of version 0 has never been stored.                    *)
(***************************************************************************)
EXTENDS Citation, Sequences

CONSTANT FaultType

NoFault == "no_fault"
ASSUME NoFaultIsNoType == NoFault \notin FaultType

Statuses == {"created", "investigating", "waiting_for_input", "waiting_for_confirmation",
             "confirmed", "rejected", "inconclusive"}
TerminalStatuses == {"confirmed", "rejected", "inconclusive"}

AllowedTransitions == [s \in Statuses |->
  CASE s = "created"                  -> {"investigating", "waiting_for_input",
                                          "rejected", "inconclusive"}
    [] s = "investigating"            -> {"waiting_for_input", "waiting_for_confirmation",
                                          "rejected", "inconclusive"}
    [] s = "waiting_for_input"        -> {"investigating", "rejected", "inconclusive"}
    [] s = "waiting_for_confirmation" -> {"investigating", "waiting_for_input", "rejected"}
    [] s \in TerminalStatuses         -> {}]

\* transition_to succeeds; confirmed is never the target of a plain transition.
CanTransition(from, to) == to # "confirmed" /\ to \in AllowedTransitions[from]

ReviewActions == {"confirm", "reject", "request_more_info"}

\* conclusion_id is fresh per conclusion: the version its run writes stands for it.
Conclusion == [id : Nat, fault : FaultType \cup {NoFault},
               confidence : Confidence \cup {"none"}, cited : SUBSET Evidence]
NoConclusion == [id |-> 0, fault |-> NoFault, confidence |-> "none", cited |-> {}]

Case == [fault : FaultType \cup {NoFault}, status : Statuses, evidence : SUBSET Evidence,
         conclusion : Conclusion, reviews : Seq(ReviewActions), version : Nat]

NewCase(fault) == [fault |-> fault, status |-> "created", evidence |-> {},
                   conclusion |-> NoConclusion, reviews |-> <<>>, version |-> 0]

-----------------------------------------------------------------------------
LastReview(c) == c.reviews[Len(c.reviews)]

\* _validate_aggregate, rerun on every write (sanitize_case) and read.
WellFormed(c) ==
  IF c.status = "confirmed"
  THEN c.conclusion # NoConclusion /\ c.reviews # <<>> /\ LastReview(c) = "confirm"
  ELSE \A i \in DOMAIN c.reviews : c.reviews[i] # "confirm"

\* set_conclusion raises neither of its errors.
CanConclude(c, conclusion) ==
  /\ conclusion.fault = c.fault
  /\ conclusion.cited \subseteq c.evidence

\* Mutations: confirm does not ask for a case that waits for it; a closed case can
\* be reviewed.
ConfirmAnyConclusion(c, action) ==
  /\ c.status \notin TerminalStatuses
  /\ action = "confirm" => c.conclusion # NoConclusion
ReviewClosed(c, action) == action = "confirm" => c.status = "waiting_for_confirmation"
\* apply_human_review raises nothing.
CanReview(c, action) ==
  /\ c.status \notin TerminalStatuses
  /\ action = "confirm" => /\ c.status = "waiting_for_confirmation"
                           /\ c.conclusion # NoConclusion

ReviewTarget(action) ==
  CASE action = "confirm"           -> "confirmed"
    [] action = "reject"            -> "rejected"
    [] action = "request_more_info" -> "waiting_for_input"

\* Mutation: the review replaces those before it.
KeepOnlyLastReview(c, action) ==
  [c EXCEPT !.reviews = <<action>>, !.status = ReviewTarget(action)]
ApplyReview(c, action) ==
  [c EXCEPT !.reviews = Append(@, action), !.status = ReviewTarget(action)]
=============================================================================
