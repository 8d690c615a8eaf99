------------------------ MODULE MCKnowledgeGovernance ------------------------
(* One diagnosis, one seed, one candidate made from the diagnosis, and two      *)
(* persons who import and review.                                               *)
EXTENDS KnowledgeGovernance, TLC

MCInitialJournal ==
    [d \in Diagnosis |-> <<[operation |-> "create", left |-> "created"],
                           [operation |-> "run", left |-> "waiting_for_confirmation"]>>]

(* Nothing is said of what follows once a restore overtook a request, and a clock *)
(* set back matters to a scan that is under way or may still begin.             *)
MCBounds ==
    /\ ~overtaken
    /\ clock < MaxDisturbances => scan # NoScan \/ disturbed < MaxDisturbances

MCSymmetry == Permutations(Actor) \cup Permutations(Worker)
==============================================================================
