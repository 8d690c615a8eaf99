------------------------- MODULE MCDiagnosisService -------------------------
(***************************************************************************)
(* Small instances of DiagnosisService: one diagnosis under concurrent     *)
(* requests, a fact that comes back with low reliability, and one runner   *)
(* outcome per way run_diagnosis can end.                                  *)
(***************************************************************************)
EXTENDS DiagnosisService, TLC

CONSTANTS w1, w2, w3

item(t, r, c) == [type |-> t, reliability |-> r, content |-> c]
StatusFact == item("device_status", "medium", 1)
StatusLow  == item("device_status", "low", 1)
StreamFact == item("device_stream", "medium", 1)
Ghost      == item("ghost", "medium", 0)

MCEvidence  == {StatusFact, StatusLow, StreamFact, Ghost}
MCFactTypes == {"device_status", "device_stream"}

ended(drafts, failures) ==
  [stopped |-> TRUE, drafts |-> drafts, failures |-> failures, concluded |-> FALSE,
   fault |-> "camera", confidence |-> "possible", cited |-> {}, conflict |-> FALSE]
concluded(drafts, failures, confidence, cited) ==
  [ended(drafts, failures) EXCEPT !.concluded = TRUE, !.confidence = confidence, !.cited = cited]

MCOutcome ==
  {[ended({StatusFact}, "none") EXCEPT !.stopped = FALSE],
   ended({}, "capability"),
   ended({}, "device"),
   ended({StatusLow}, "none"),
   concluded({}, "device", "possible", {}),
   concluded({StatusFact, StreamFact}, "none", "probable", {Ghost}),
   concluded({StreamFact}, "none", "probable", {StatusLow}),
   [concluded({StatusFact}, "none", "possible", {}) EXCEPT !.conflict = TRUE],
   [concluded({StatusFact}, "none", "possible", {}) EXCEPT !.fault = "access"]}

Symmetry == Permutations(Worker)
=============================================================================
