----------------------------- MODULE ScriptedRun -----------------------------
(* The containers of the evaluations (bootstrap/container.py): a model that      *)
(* follows a script asks for a fixed list of tools and then concludes without    *)
(* citing anything, over a gateway that answers from a file                      *)
(* (adapters/device_gateway/static.py) and may be told to fail                   *)
(* (adapters/device_gateway/simulator.py).  A run is                             *)
(* [container, fault, known, results, traces]; known says whether the file has   *)
(* the device.  Every tool of a script calls another operation, so what a        *)
(* scenario says of the operations is chosen call by call.                       *)
EXTENDS Naturals, Sequences, SequencesExt, FiniteSets

Device == INSTANCE DeviceTools

DeviceFacts == Device!EvidenceTypes \ {"knowledge_sop"}
Citations == INSTANCE CitationRepair
    WITH FactTypes <- DeviceFacts,
         Evidence <- [type : Device!EvidenceTypes, reliability : {"high", "medium", "low"},
                      content : Nat]

------------------------------------------------------------------------------
\* build_registry, and what the containers of the other faults register besides.
CameraTools ==
    {Device!DeviceStatusTool, Device!DeviceChannelTool, Device!DeviceStreamTool,
     Device!PlatformPullStatusTool, Device!DeviceAlarmEventsTool,
     Device!DeviceConfigSnapshotTool, Device!KnowledgeSearchTool}
RecordingRegistry == CameraTools \cup
    {Device!RecordingPlanTool, Device!StorageStatusTool, Device!RecordingPlaybackTool}
AccessRegistry == CameraTools \cup
    {Device!AccessControllerTool, Device!AccessDoorTool, Device!AccessCredentialTool,
     Device!AccessPolicyTool, Device!AccessEventsTool}
AlarmRegistry == CameraTools \cup
    {Device!AlarmRuleTool, Device!AlarmSignalTool, Device!AlarmEnvironmentTool,
     Device!AlarmVerificationTool, Device!AlarmCorrelationTool}

\* PHASE0_TOOLS to PHASE4_TOOLS
Knowledge == {Device!KnowledgeSearchTool}
Allowlists ==
    [phase0 |-> {Device!DeviceStatusTool, Device!DeviceAlarmEventsTool,
                 Device!DeviceConfigSnapshotTool} \cup Knowledge,
     phase1 |-> CameraTools,
     phase2 |-> (RecordingRegistry \ CameraTools) \cup Knowledge,
     phase3 |-> (AccessRegistry \ CameraTools) \cup Knowledge,
     phase4 |-> (AlarmRegistry \ CameraTools) \cup Knowledge]

\* The calls each script makes in its first round, in their order.
CameraScript(all) ==
    <<Device!DeviceStatusTool, Device!DeviceAlarmEventsTool, Device!DeviceConfigSnapshotTool,
      Device!KnowledgeSearchTool>>
    \o IF all THEN <<Device!DeviceChannelTool, Device!DeviceStreamTool,
                     Device!PlatformPullStatusTool>>
              ELSE <<>>
RecordingScript ==
    <<Device!RecordingPlanTool, Device!StorageStatusTool, Device!RecordingPlaybackTool,
      Device!KnowledgeSearchTool>>
AccessScript ==
    <<Device!AccessControllerTool, Device!AccessDoorTool, Device!AccessCredentialTool,
      Device!AccessPolicyTool, Device!AccessEventsTool, Device!KnowledgeSearchTool>>
AlarmScript ==
    <<Device!AlarmRuleTool, Device!AlarmSignalTool, Device!AlarmEnvironmentTool,
      Device!AlarmVerificationTool, Device!AlarmCorrelationTool, Device!KnowledgeSearchTool>>

Static(fault, script, registry, allowlist, budget) ==
    [fault |-> fault, script |-> script, registry |-> registry, allowlist |-> allowlist,
     budget |-> budget, simulated |-> FALSE]

CameraContainer(all) ==
    Static("camera", CameraScript(all), CameraTools,
           IF all THEN Allowlists.phase1 ELSE Allowlists.phase0, IF all THEN 8 ELSE 5)
RecordingContainer == Static("recording", RecordingScript, RecordingRegistry, Allowlists.phase2, 8)
AccessContainer == Static("access", AccessScript, AccessRegistry, Allowlists.phase3, 10)
AlarmContainer == Static("alarm", AlarmScript, AlarmRegistry, Allowlists.phase4, 10)
SimulatorContainer ==
    [Static("camera", CameraScript(TRUE), CameraTools, Allowlists.phase1, 8)
        EXCEPT !.simulated = TRUE]

Containers ==
    [phase0 |-> CameraContainer(FALSE), phase1 |-> CameraContainer(TRUE),
     phase2 |-> RecordingContainer, phase3 |-> AccessContainer, phase4 |-> AlarmContainer,
     phase9a |-> SimulatorContainer]

------------------------------------------------------------------------------
(* What the file may hold for a query: the fact, no such fact, or one that its   *)
(* model rejects.  A device it does not have is not found ...                    *)
DeviceAnswers(known) == IF known THEN {"facts", "bad_local_data", "other"} ELSE {"asset_not_found"}
(* ... a search finds nothing at worst ...                                       *)
SearchAnswers(known) == IF known THEN {"facts", "nothing", "other"} ELSE {"asset_not_found"}
(* ... and credentials and policies are looked up beside the device.             *)
CatalogAnswers == {"facts", "bad_local_data", "other"}

StaticAnswers(tool, known) ==
    CASE tool = Device!KnowledgeSearchTool -> {"nothing"}
      [] tool \in {Device!AccessCredentialTool, Device!AccessPolicyTool} -> CatalogAnswers
      [] tool \in {Device!AccessEventsTool, Device!DeviceAlarmEventsTool} -> SearchAnswers(known)
      [] OTHER -> DeviceAnswers(known)

\* What a scenario has an operation do.
Behaviours == {"success"} \cup Device!AdapterErrors

\* Mutation: the call is traced before the gateway behind the simulator answered.
TraceFirst(traces, operation, behaviour, answer) ==
    Append(traces, [operation |-> operation, ok |-> behaviour = "success",
                    kind |-> IF behaviour = "success" THEN "none" ELSE behaviour])
(* SimulatorDeviceGateway._call: one trace of each call.  An exception that is   *)
(* no adapter error is traced as unavailable.                                    *)
Traced(traces, operation, behaviour, answer) ==
    LET seen == IF behaviour = "success" THEN answer ELSE behaviour
        failed == seen \in Device!GatewayErrors
    IN  Append(traces, [operation |-> operation, ok |-> ~failed,
                        kind |-> CASE ~failed -> "none"
                                   [] seen \in Device!AdapterErrors -> seen
                                   [] failed /\ seen \notin Device!AdapterErrors -> "unavailable"])

------------------------------------------------------------------------------
Script(run) == Containers[run.container].script
NextTool(run) == Script(run)[Len(run.results) + 1]
Simulated(run, tool) == Containers[run.container].simulated /\ tool.permission = "device:read"

(* The next call of the script, with the behaviour the scenario gives its        *)
(* operation and the answer of the file.                                         *)
Call(run, behaviour, answer) ==
    LET tool == NextTool(run)
        container == Containers[run.container]
        seen == IF behaviour = "success" THEN answer ELSE behaviour
        result == IF tool \in container.allowlist \cap container.registry
                  THEN Device!Query(tool, seen) ELSE Device!Failure("none")
    IN  [run EXCEPT
            !.results = Append(@, [tool |-> tool, seen |-> seen, ok |-> result.ok,
                                   kind |-> result.kind, drafts |-> result.drafts]),
            !.traces = IF Simulated(run, tool)
                       THEN Traced(@, tool.operation, behaviour, answer) ELSE @]

Finished(run) == Len(run.results) = Len(Script(run))

(* The evidence of the results, in their order; no two tools make the same. *)
EvidenceOf(run) ==
    LET held == SelectSeq(run.results, LAMBDA r : r.drafts # {})
    IN  [i \in DOMAIN held |-> [type |-> held[i].tool.fact, reliability |-> held[i].tool.reliability,
                                content |-> 0]]

FailureKinds(run) == {run.results[i].kind : i \in DOMAIN run.results} \ {"none"}

(* run_diagnosis with what the script concludes: probable, no citations, and no  *)
(* candidate label.  A conclusion of another fault raises, and nothing of the    *)
(* run is written.                                                               *)
Outcome(run) ==
    LET container == Containers[run.container]
        evidence == EvidenceOf(run)
        kinds == FailureKinds(run)
        repair == Citations!RepairIds(evidence, <<>>, "probable")
        cited == {repair.ids[i] : i \in DOMAIN repair.ids}
        held == {evidence[i] : i \in DOMAIN evidence}
        end(status) == [status |-> status, confidence |-> "none", cited |-> {}]
    IN  IF kinds # {} /\ evidence = <<>>
        THEN end(IF kinds \subseteq Device!CapabilityFailureKinds THEN "inconclusive"
                                                                  ELSE "waiting_for_input")
        ELSE IF Len(Script(run)) > container.budget THEN end("waiting_for_input")
        ELSE IF repair.ids = <<>> THEN end("inconclusive")
        ELSE IF run.fault # container.fault THEN end("refused")
        ELSE IF Citations!PolicyAccepts(held, cited, repair.confidence)
        THEN [status |-> "waiting_for_confirmation", confidence |-> repair.confidence, cited |-> cited]
        ELSE end("inconclusive")

------------------------------------------------------------------------------
(* Whatever a scenario makes fail, the run adds up: the simulator traced exactly *)
(* the device calls and their success, what did not fail left evidence           *)
(* (scripts/eval_phase9a_simulator_e2e.py:72), and the run ends in a conclusion  *)
(* of its own fault, probable where facts of two kinds were answered.  As the    *)
(* knowledge search leaves evidence even of finding nothing, this is so also     *)
(* when every device call failed.                                                *)
RunAddsUp(run) ==
    Finished(run) =>
        LET ofDevices == SelectSeq(run.results, LAMBDA r : r.tool.permission = "device:read")
            failed == {i \in DOMAIN run.results : ~run.results[i].ok}
            facts == {run.results[i].tool.fact :
                        i \in {j \in DOMAIN run.results : run.results[j].drafts # {}}} \cap DeviceFacts
            outcome == Outcome(run)
        IN  /\ \A i \in failed : run.results[i].seen \in Device!GatewayErrors
            /\ Containers[run.container].simulated =>
                 /\ [i \in DOMAIN run.traces |-> <<run.traces[i].operation, run.traces[i].ok>>]
                      = [i \in DOMAIN ofDevices |-> <<ofDevices[i].tool.operation, ofDevices[i].ok>>]
                 /\ Len(EvidenceOf(run))
                      = Len(Script(run)) - Len(SelectSeq(run.traces, LAMBDA t : ~t.ok))
            /\ (outcome.status = "waiting_for_confirmation")
                  <=> (run.fault = Containers[run.container].fault)
            /\ outcome.status = "waiting_for_confirmation" =>
                 /\ (outcome.confidence = "probable") <=> Cardinality(facts) > 1
                 /\ outcome.confidence = "possible" =>
                      {e.type : e \in outcome.cited}
                        = IF facts = {} THEN {"knowledge_sop"} ELSE facts
==============================================================================
