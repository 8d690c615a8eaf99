----------------------------- MODULE DeviceTools -----------------------------
(***************************************************************************)
(* The read-only tools of tools/*.py, how the registry executes one        *)
(* (tools/registry.py), and what a failure of the gateway becomes          *)
(* (tools/device_failures.py).  A tool is what sets it apart from the      *)
(* others: the gateway operation it calls, the evidence it makes of the    *)
(* answer, and what it does with an exception.                             *)
(***************************************************************************)
EXTENDS Naturals, FiniteSets

-----------------------------------------------------------------------------
\* DeviceAdapterError carries one of these kinds across the gateway.
AdapterErrors == {"authentication", "timeout", "rate_limited", "unavailable",
                  "unsupported_capability", "invalid_response"}
\* What a gateway query may raise besides: asset catalog, router, registry and
\* local data errors, and anything else (an authorization denial among them).
GatewayErrors == AdapterErrors \cup
  {"asset_not_found", "asset_disabled", "capability_missing",
   "routing_context_required", "adapter_not_ready", "bad_local_data", "other"}

FailureKinds == AdapterErrors \cup
  {"asset_not_found", "asset_disabled", "capability_missing", "adapter_not_ready",
   "routing_context_required", "unexpected"}
CapabilityFailureKinds == {"capability_missing", "unsupported_capability"}

\* classify_device_failure
Classify(error) ==
  CASE error = "bad_local_data"                 -> "invalid_response"
    [] error \in FailureKinds \ {"unexpected"} -> error
    [] OTHER                                    -> "unexpected"

-----------------------------------------------------------------------------
EvidenceTypes ==
  {"device_status", "device_channel", "device_stream", "platform_pull", "device_config",
   "device_alarm", "recording_plan", "storage_status", "playback_check", "access_controller",
   "access_door", "access_credential", "access_policy", "access_event", "alarm_rule",
   "alarm_signal", "alarm_environment", "alarm_verification", "alarm_correlation",
   "knowledge_sop"}
Drafts == [type : EvidenceTypes, reliability : {"high", "medium", "low"}]
Tool == [operation : STRING, fact : EvidenceTypes, reliability : {"high", "medium", "low"},
         permission : {"device:read", "knowledge:read"}, classifies : BOOLEAN,
         whenEmpty : {"never", "draft", "no_draft"}]

\* A device tool that maps its exceptions with device_failure_result ...
Classifying(operation, fact, reliability) ==
  [operation |-> operation, fact |-> fact, reliability |-> reliability,
   permission |-> "device:read", classifies |-> TRUE, whenEmpty |-> "never"]
\* ... and one that reports the text of the exception, with no failure kind.
Reporting(operation, fact, reliability) ==
  [Classifying(operation, fact, reliability) EXCEPT !.classifies = FALSE]

DeviceStatusTool         == Classifying("query_status", "device_status", "high")
DeviceChannelTool        == Classifying("query_channel_snapshot", "device_channel", "high")
DeviceStreamTool         == Classifying("query_stream_snapshot", "device_stream", "high")
PlatformPullStatusTool   == Classifying("query_platform_pull_status", "platform_pull", "medium")
DeviceConfigSnapshotTool == Reporting("read_config_snapshot", "device_config", "medium")
DeviceAlarmEventsTool    == [Reporting("search_alarm_events", "device_alarm", "medium")
                               EXCEPT !.whenEmpty = "draft"]
RecordingPlanTool        == Reporting("query_recording_plan", "recording_plan", "high")
StorageStatusTool        == Reporting("query_storage_status", "storage_status", "high")
RecordingPlaybackTool    == Reporting("check_recording_playback", "playback_check", "high")
AccessControllerTool     == Reporting("query_access_controller", "access_controller", "high")
AccessDoorTool           == Reporting("query_door", "access_door", "high")
AccessCredentialTool     == Reporting("query_credential", "access_credential", "high")
AccessPolicyTool         == Reporting("query_access_policy", "access_policy", "high")
\* The only tool that makes no evidence of an empty answer.
AccessEventsTool         == [Reporting("search_access_events", "access_event", "high")
                               EXCEPT !.whenEmpty = "no_draft"]
AlarmRuleTool            == Reporting("query_alarm_rule", "alarm_rule", "high")
AlarmSignalTool          == Reporting("query_alarm_signal", "alarm_signal", "high")
AlarmEnvironmentTool     == Reporting("query_alarm_environment", "alarm_environment", "high")
AlarmVerificationTool    == Reporting("query_alarm_verification", "alarm_verification", "high")
AlarmCorrelationTool     == Reporting("query_alarm_correlation", "alarm_correlation", "high")
\* Searches the knowledge base.  It catches nothing, so what its retriever raises
\* is classified by the registry.
KnowledgeSearchTool ==
  [Classifying("search_confirmed", "knowledge_sop", "low")
     EXCEPT !.permission = "knowledge:read", !.whenEmpty = "draft"]

\* What a query of the tool may come back with.  Only searches find nothing, and
\* the knowledge base is no device.
AnswersOf(tool) ==
  {"facts", "other"}
  \cup (IF tool.whenEmpty = "never" THEN {} ELSE {"nothing"})
  \cup (IF tool.permission = "device:read" THEN GatewayErrors ELSE {})

-----------------------------------------------------------------------------
\* A failed result never carries a draft (ToolExecutionResult._redact_before_model_context).
Failure(kind) == [ok |-> FALSE, kind |-> kind, drafts |-> {}]
Success(drafts) == [ok |-> TRUE, kind |-> "none", drafts |-> drafts]

Draft(tool) == [type |-> tool.fact, reliability |-> tool.reliability]

\* Mutation: a failed query still leaves its draft.
DraftAnyAnswer(tool, answer) == Success({Draft(tool)})
\* BaseTool._execute once the arguments are parsed: query the gateway, and turn
\* its answer into a draft or its exception into a failure.
Query(tool, answer) ==
  CASE answer = "facts"                -> Success({Draft(tool)})
    [] answer = "nothing"              -> Success(IF tool.whenEmpty = "draft" THEN {Draft(tool)} ELSE {})
    [] answer \in GatewayErrors        ->
         Failure(IF tool.classifies THEN Classify(answer) ELSE "none")

\* ToolRegistry.execute of an allowed tool; no tool restricts the fault types it may
\* be called for, so that check refuses none.  Arguments are "valid", "malformed"
\* (the input model rejects them) or "refused" (a window the tool will not query).
Execute(tool, permissions, arguments, answer) ==
  IF tool.permission \in permissions /\ arguments = "valid"
  THEN Query(tool, answer)
  ELSE Failure("none")
=============================================================================
