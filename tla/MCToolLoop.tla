----------------------------- MODULE MCToolLoop -----------------------------
(***************************************************************************)
(* Small runs: two device tools, one of either way of reporting failures,  *)
(* the knowledge search, and a tool that is registered but not allowed.    *)
(***************************************************************************)
EXTENDS ToolLoop

MCTools ==
  [n \in {"status", "playback", "events", "knowledge"} |->
     CASE n = "status"    -> DeviceStatusTool
       [] n = "playback"  -> RecordingPlaybackTool
       [] n = "events"    -> AccessEventsTool
       [] n = "knowledge" -> KnowledgeSearchTool]
\* A model may also ask for a tool there is not.
MCNames == DOMAIN MCTools \cup {"made_up"}
MCAllowed == {"status", "events", "knowledge"}
MCRecordingAllowed == {"status", "playback"}
\* knowledge:read is not granted.
MCPermissions == {"device:read"}

response(tools, concludes) ==
  [kind |-> "answer", calls |-> tools, size |-> 1, concludes |-> concludes]
MCResponses ==
  {response(<<"status", "events">>, FALSE),
   response(<<"knowledge", "playback", "made_up">>, TRUE),
   response(<<>>, TRUE),
   response(<<>>, FALSE),
   [response(<<>>, TRUE) EXCEPT !.size = 3],
   [response(<<"status">>, FALSE) EXCEPT !.kind = "error"]}
=============================================================================
