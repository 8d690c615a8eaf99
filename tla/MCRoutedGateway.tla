---------------------------- MODULE MCRoutedGateway ----------------------------
(***************************************************************************)
(* Two threads, two devices the catalog knows, one it has disabled and one *)
(* name that is no alias, manifests whose budgets are smaller than the     *)
(* number of calls, and a session that begins with its budget partly used. *)
(***************************************************************************)
EXTENDS RoutedGateway, TLC

CONSTANTS w1, w2

MCDevice == {"camera", "door", "shed", "Camera!"}
MCAlias == {"camera", "door", "shed"}
MCOperation == {"query_status", "query_stream_snapshot", "query_credential"}
MCCatalog ==
  [d \in {"camera", "Camera!"} |->
     [enabled |-> TRUE, adapter |-> "local", capabilities |-> {"status", "stream"}]]
  @@ "door" :> [enabled |-> TRUE, adapter |-> "local", capabilities |-> {"status", "access"}]
  @@ "shed" :> [enabled |-> FALSE, adapter |-> "local", capabilities |-> {"status"}]

narrow == [environment |-> "site", assets |-> {"camera"}, operations |-> {"query_status"},
           from |-> 0, until |-> 1, maxTotal |-> 2,
           max |-> [o \in MCOperation |-> 1]]
wide == [environment |-> "site", assets |-> {"camera", "shed", "Camera!"},
         operations |-> {"query_status", "query_stream_snapshot"},
         from |-> 0, until |-> 2, maxTotal |-> 2,
         max |-> [o \in MCOperation |-> 2]]
elsewhere == [wide EXCEPT !.environment = "lab"]
MCManifests == {narrow, wide, elsewhere, NoManifest}

MCInitialBudget == [total |-> 1, calls |-> [EmptyBudget.calls EXCEPT !["query_status"] = 1]]
=============================================================================
