--------------------------- MODULE RuntimeAssembly ---------------------------
(* How the runtime container is put together (runtime.py): which fault types it  *)
(* says it supports (application/runtime_capabilities.py), which tools a run may *)
(* use, and which device operations the authorization it makes for the local     *)
(* sample allows.  An asset is [enabled, adapter, capabilities].                 *)
EXTENDS FiniteSets

CONSTANT None   \* an argument that is left out

Routing == INSTANCE DeviceTools

\* METHOD_CAPABILITIES of the router.
CapabilityOf ==
    [query_status |-> "status", query_channel_snapshot |-> "channel",
     query_stream_snapshot |-> "stream", query_platform_pull_status |-> "stream",
     search_alarm_events |-> "alarm", read_config_snapshot |-> "config",
     query_recording_plan |-> "recording", query_storage_status |-> "recording",
     check_recording_playback |-> "recording"]

\* The capabilities and tools a fault type needs; two of the four.
Needs ==
    [camera |-> [capabilities |-> {"status", "channel", "stream"},
                 tools |-> {"device__query_status", "device__query_channel",
                            "device__query_stream", "platform__query_pull_status"}],
     recording |-> [capabilities |-> {"recording"},
                    tools |-> {"recording__query_plan", "storage__query_status",
                               "recording__check_playback"}]]

\* The tools themselves, and the operation each of them really calls.
ToolNamed ==
    [device__query_status |-> Routing!DeviceStatusTool,
     device__query_channel |-> Routing!DeviceChannelTool,
     device__query_stream |-> Routing!DeviceStreamTool,
     platform__query_pull_status |-> Routing!PlatformPullStatusTool,
     device__search_alarm_events |-> Routing!DeviceAlarmEventsTool,
     device__read_config_snapshot |-> Routing!DeviceConfigSnapshotTool,
     knowledge__search |-> Routing!KnowledgeSearchTool,
     recording__query_plan |-> Routing!RecordingPlanTool,
     storage__query_status |-> Routing!StorageStatusTool,
     recording__check_playback |-> Routing!RecordingPlaybackTool]

DefaultAdapter == "runtime-static-adapter"
\* FORMAL_RUNTIME_TOOL_ALLOWLIST
ToolAllowlist ==
    {"device__query_status", "device__search_alarm_events", "device__read_config_snapshot",
     "knowledge__search", "device__query_channel", "device__query_stream",
     "platform__query_pull_status"}
\* _TOOL_DEVICE_OPERATIONS
ToolOperations ==
    [device__query_status |-> "query_status",
     device__query_channel |-> "query_channel_snapshot",
     device__query_stream |-> "query_stream_snapshot",
     platform__query_pull_status |-> "query_platform_pull_status",
     device__search_alarm_events |-> "search_alarm_events",
     device__read_config_snapshot |-> "read_config_snapshot"]

\* derive_runtime_allowed_operations
AllowedOperations(allowlist, assets) ==
    {ToolOperations[t] : t \in allowlist \cap DOMAIN ToolOperations}
      \cap {o \in DOMAIN CapabilityOf : \E a \in assets : CapabilityOf[o] \in a.capabilities}

\* _tool_supported_fault_types: the registry holds every tool that is needed.  No
\* tool restricts its fault types (BaseTool.supported_fault_types is None), so the
\* second condition, supports_fault_type, is true of each.
ToolsCover(registry, fault) == Needs[fault].tools \subseteq registry

\* Mutation: several assets have the capabilities between them.
CoveredTogether(assets, needed) == needed \subseteq UNION {a.capabilities : a \in assets}
\* One asset has them all.
Covered(assets, needed) == \E a \in assets : needed \subseteq a.capabilities

\* _evaluate_fault_support: the first condition that fails is the reason.
Verdict(assets, ready, checked, registry, fault) ==
    LET enabled == {a \in assets : a.enabled}
        reachable == {a \in enabled : a.adapter \in ready}
        trusted == {a \in reachable : a.adapter \in checked}
    IN  CASE enabled = {} -> "no_enabled_asset"
          [] enabled # {} /\ reachable = {} -> "adapter_not_ready"
          [] reachable # {} /\ trusted = {} -> "self_check_failed"
          [] trusted # {} /\ ~Covered(trusted, Needs[fault].capabilities) -> "missing_capability"
          [] Covered(trusted, Needs[fault].capabilities) ->
               IF ToolsCover(registry, fault) THEN "supported" ELSE "tool_coverage_missing"

(* build_runtime_container: an adapter from outside needs an authorization of    *)
(* its own; without either, one for the local sample is made.  The only adapter  *)
(* is registered under its default key.                                          *)
Build(assets, adapterReady, checked, registry, injected, authorization) ==
    LET ready == IF adapterReady THEN {DefaultAdapter} ELSE {}
    IN  IF injected /\ authorization = None THEN [built |-> FALSE]
        ELSE [built |-> TRUE,
              operations |-> IF authorization = None
                             THEN AllowedOperations(ToolAllowlist, assets)
                             ELSE authorization,
              ready |-> ready,
              supported |-> {f \in DOMAIN Needs : "supported" =
                  Verdict(assets, ready, IF checked = None THEN ready ELSE checked, registry, f)}]
==============================================================================
