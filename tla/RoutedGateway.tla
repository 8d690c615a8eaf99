----------------------------- MODULE RoutedGateway -----------------------------
(***************************************************************************)
(* The routed device gateway (adapters/device_gateway/routed.py): a call   *)
(* looks its device up in the asset catalog, is authorized by the session  *)
(* it shares with all other calls, takes its adapter from the registry and *)
(* calls it.  Session and registry have a lock each; nothing is locked     *)
(* between the steps, so calls, rotations, a close and changes of adapter  *)
(* readiness interleave.                                                   *)
(***************************************************************************)
EXTENDS DeviceAuthorization, DeviceTools, Sequences

CONSTANTS
  Worker,         \* threads that make device calls
  Adapter,        \* adapter keys
  Catalog,        \* the asset catalog: a function from devices to assets
  Manifests,      \* manifests the session starts with or is rotated to
  InitialBudget,  \* initial_budget_state
  Answering,      \* what the adapters come back with
  MaxCalls,       \* device calls made
  MaxBatches,     \* rotations
  Horizon         \* the clock is not followed beyond this tick

\* DeviceReadOperation, and the two of its operations that name no device
ReadOperations ==
  {"query_status", "query_channel_snapshot", "query_stream_snapshot",
   "query_platform_pull_status", "query_recording_plan", "query_storage_status",
   "check_recording_playback", "query_access_controller", "query_door",
   "query_credential", "query_access_policy", "search_access_events",
   "query_alarm_rule", "query_alarm_signal", "query_alarm_environment",
   "query_alarm_verification", "query_alarm_correlation", "search_alarm_events",
   "read_config_snapshot"}
Unroutable == {"query_credential", "query_access_policy"}

\* METHOD_CAPABILITIES
CapabilityOf(operation) ==
  CASE operation = "query_status"            -> "status"
    [] operation = "query_channel_snapshot"  -> "channel"
    [] operation \in {"query_stream_snapshot", "query_platform_pull_status"} -> "stream"
    [] operation \in {"query_recording_plan", "query_storage_status",
                      "check_recording_playback"} -> "recording"
    [] operation \in {"query_access_controller", "query_door", "search_access_events"} -> "access"
    [] operation \in {"query_alarm_rule", "query_alarm_signal", "query_alarm_environment",
                      "query_alarm_verification", "query_alarm_correlation"} -> "alarm_diagnosis"
    [] operation = "search_alarm_events"     -> "alarm"
    [] operation = "read_config_snapshot"    -> "config"

\* What an adapter may answer or raise
AdapterAnswerKinds == {"facts", "bad_local_data", "asset_not_found"} \cup AdapterErrors

ASSUME KnownAnswers == Answering \subseteq AdapterAnswerKinds
ASSUME KnownOperations == Operation \subseteq ReadOperations
ASSUME CatalogShape ==
  /\ DOMAIN Catalog \subseteq Device
  /\ \A d \in DOMAIN Catalog :
       Catalog[d].enabled \in BOOLEAN /\ Catalog[d].adapter \in Adapter
ASSUME ManifestShape == Manifests \subseteq Manifest \cup {NoManifest}
ASSUME StartingBudget == InitialBudget \in Budget
ASSUME Bounds == {MaxCalls, MaxBatches, Horizon} \subseteq Nat

VARIABLES
  manifest, budget, batch, closed,  \* the session
  ready,      \* the registry: what it knows of each adapter key
  clock,
  pc, call,   \* where each thread is, and the call it makes
  started,    \* how many calls have been made
  grants,     \* history: the calls that were authorized, in order
  manifests   \* history: the manifest of each batch

session == <<manifest, budget, batch, closed, manifests>>
vars == <<session, ready, clock, pc, call, started, grants>>

Call == [device : Device, operation : Operation, grant : Nat]
NoCall == [grant |-> 0]
Grant == [batch : Nat, device : Device, operation : Operation, at : Nat,
          fate : {"pending", "not_ready"} \cup AdapterAnswerKinds]

TypeOK ==
  /\ manifest \in Manifests
  /\ budget \in Budget
  /\ batch \in 0..MaxBatches
  /\ closed \in BOOLEAN
  /\ ready \in [Adapter -> {"unknown", "not_ready", "ready"}]
  /\ clock \in 0..Horizon
  /\ pc \in [Worker -> {"idle", "authorizing", "granted", "calling"}]
  /\ call \in [Worker -> Call \cup {NoCall}]
  /\ \A w \in Worker : pc[w] # "idle" => call[w] \in Call
  /\ started \in 0..MaxCalls
  /\ grants \in Seq(Grant)
  /\ manifests \in Seq(Manifests)
  /\ Len(manifests) = batch + 1
  /\ manifest = manifests[batch + 1]

Init ==
  /\ manifest \in Manifests
  /\ budget = InitialBudget
  /\ batch = 0
  /\ closed = FALSE
  /\ ready \in [Adapter -> {"unknown", "not_ready", "ready"}]
  /\ clock = 0
  /\ pc = [w \in Worker |-> "idle"]
  /\ call = [w \in Worker |-> NoCall]
  /\ started = 0
  /\ grants = <<>>
  /\ manifests = <<manifest>>

-----------------------------------------------------------------------------
\* The call is over, with an answer or an error.
End(w) ==
  /\ pc' = [pc EXCEPT ![w] = "idle"]
  /\ call' = [call EXCEPT ![w] = NoCall]

\* What a call must satisfy to get as far as its authorization; otherwise it raises
\* routing_context_required, asset_not_found, asset_disabled or capability_missing.
Routable(device, operation) ==
  /\ operation \notin Unroutable
  /\ device \in DOMAIN Catalog
  /\ Catalog[device].enabled
  /\ CapabilityOf(operation) \in Catalog[device].capabilities

\* The gateway method and _route, up to the authorization.
StartCall(w, device, operation) ==
  /\ pc[w] = "idle"
  /\ started < MaxCalls
  /\ started' = started + 1
  /\ \/ ~ Routable(device, operation) /\ UNCHANGED <<pc, call>>
     \/ /\ Routable(device, operation)
        /\ pc' = [pc EXCEPT ![w] = "authorizing"]
        /\ call' = [call EXCEPT ![w] =
             [device |-> device, operation |-> operation, grant |-> 0]]
  /\ UNCHANGED <<session, ready, clock, grants>>

\* DeviceAuthorizationSession.authorize: the decision and the consumption of
\* budget under one lock.
Allows(device, operation) ==
  /\ ~ closed
  /\ device \in Alias
  /\ Preflight(manifest, device, operation, clock, budget)

Authorize(w) ==
  LET device    == call[w].device
      operation == call[w].operation
  IN
  /\ pc[w] = "authorizing"
  /\ \/ /\ ~ Allows(device, operation)
        /\ End(w)   \* DeviceAuthorizationDeniedError
        /\ UNCHANGED <<budget, grants>>
     \/ /\ Allows(device, operation)
        /\ budget' = Consume(budget, operation)
        /\ grants' = Append(grants, [batch |-> batch, device |-> device, operation |-> operation,
                                     at |-> clock, fate |-> "pending"])
        /\ pc' = [pc EXCEPT ![w] = "granted"]
        /\ call' = [call EXCEPT ![w].grant = Len(grants) + 1]
  /\ UNCHANGED <<manifest, batch, closed, manifests, ready, clock, started>>

\* Mutation: a call waits for its adapter to become ready.
WaitForAdapter(w) ==
  /\ pc[w] = "granted"
  /\ ready[Catalog[call[w].device].adapter] = "ready"
  /\ pc' = [pc EXCEPT ![w] = "calling"]
  /\ UNCHANGED <<session, ready, clock, call, started, grants>>
\* InMemoryDeviceAdapterRegistry.get_ready: an adapter that is not registered or not
\* ready ends the call; its budget stays consumed.
GetReady(w) ==
  LET key == Catalog[call[w].device].adapter IN
  /\ pc[w] = "granted"
  /\ \/ /\ ready[key] = "ready"
        /\ pc' = [pc EXCEPT ![w] = "calling"]
        /\ UNCHANGED <<call, grants>>
     \/ /\ ready[key] # "ready"
        /\ grants' = [grants EXCEPT ![call[w].grant].fate = "not_ready"]
        /\ End(w)
  /\ UNCHANGED <<session, ready, clock, started>>

\* Mutation: a call that timed out is made again.
RetryTimeouts(w, answer) ==
  /\ pc[w] = "calling"
  /\ grants' = [grants EXCEPT ![call[w].grant].fate = answer]
  /\ \/ answer = "timeout" /\ UNCHANGED <<pc, call>>
     \/ answer # "timeout" /\ End(w)
  /\ UNCHANGED <<session, ready, clock, started>>
\* The adapter answers or raises; the call is over either way.
AdapterAnswers(w, answer) ==
  /\ pc[w] = "calling"
  /\ grants' = [grants EXCEPT ![call[w].grant].fate = answer]
  /\ End(w)
  /\ UNCHANGED <<session, ready, clock, started>>

CallStep(w) ==
  \/ Authorize(w)
  \/ GetReady(w)
  \/ \E answer \in Answering : AdapterAnswers(w, answer)

-----------------------------------------------------------------------------
\* Mutation: a rotation opens a closed session again.
RotateReopens(m) ==
  /\ batch < MaxBatches
  /\ manifest' = m
  /\ budget' = EmptyBudget
  /\ batch' = batch + 1
  /\ manifests' = Append(manifests, m)
  /\ closed' = FALSE
  /\ UNCHANGED <<ready, clock, pc, call, started, grants>>
\* rotate; of a closed session it raises and changes nothing.
Rotate(m) ==
  /\ ~ closed
  /\ batch < MaxBatches
  /\ manifest' = m
  /\ budget' = EmptyBudget
  /\ batch' = batch + 1
  /\ manifests' = Append(manifests, m)
  /\ UNCHANGED <<closed, ready, clock, pc, call, started, grants>>

\* close; a second time it changes nothing.
Close ==
  /\ ~ closed
  /\ closed' = TRUE
  /\ UNCHANGED <<manifest, budget, batch, manifests, ready, clock, pc, call, started, grants>>

\* register of a new key; a key that is known is refused.
Register(key, state) ==
  /\ ready[key] = "unknown"
  /\ ready' = [ready EXCEPT ![key] = state]
  /\ UNCHANGED <<session, clock, pc, call, started, grants>>

\* mark_ready and mark_not_ready
Mark(key, state) ==
  /\ ready[key] \notin {"unknown", state}
  /\ ready' = [ready EXCEPT ![key] = state]
  /\ UNCHANGED <<session, clock, pc, call, started, grants>>

Tick ==
  /\ clock < Horizon
  /\ clock' = clock + 1
  /\ UNCHANGED <<session, ready, pc, call, started, grants>>

Next ==
  \/ \E w \in Worker :
       \/ \E d \in Device, o \in Operation : StartCall(w, d, o)
       \/ CallStep(w)
  \/ \E m \in Manifests \ {NoManifest} : Rotate(m)
  \/ Close
  \/ \E key \in Adapter, state \in {"ready", "not_ready"} : Register(key, state) \/ Mark(key, state)
  \/ Tick

Spec == Init /\ [][Next]_vars

\* Every step of a call is taken by its thread, and adapters bound their I/O.
FairSpec == Spec /\ \A w \in Worker : WF_vars(CallStep(w))

-----------------------------------------------------------------------------
GrantsIn(b) == {i \in DOMAIN grants : grants[i].batch = b}
GrantsOf(b, o) == {i \in GrantsIn(b) : grants[i].operation = o}
UsedBefore(b) == IF b = 0 THEN InitialBudget ELSE EmptyBudget

\* Whatever calls race and whenever the session is rotated, no batch ever grants
\* more calls than its own manifest allows, in all and of each operation
\* (device_authorization.py:309-368, 488-523).
BatchesKeepTheirBudget ==
  \A b \in 0..batch :
    LET m == manifests[b + 1] IN
    /\ GrantsIn(b) # {} =>
         m # NoManifest /\ UsedBefore(b).total + Cardinality(GrantsIn(b)) <= m.maxTotal
    /\ \A o \in Operation : GrantsOf(b, o) # {} =>
         UsedBefore(b).calls[o] + Cardinality(GrantsOf(b, o)) <= m.max[o]

\* Every granted call was of a device and an operation the catalog and the manifest
\* of its batch allow, inside the window of that manifest (routed.py:178-193).
GrantsAreInScope ==
  \A i \in DOMAIN grants :
    LET g == grants[i]  m == manifests[g.batch + 1] IN
    /\ g.batch <= batch /\ m # NoManifest /\ m.environment = Environment
    /\ g.device \in m.assets \cap Alias /\ g.operation \in m.operations
    /\ m.from <= g.at /\ g.at < m.until
    /\ g.device \in DOMAIN Catalog /\ Catalog[g.device].enabled
    /\ CapabilityOf(g.operation) \in Catalog[g.device].capabilities

\* The budget counts the grants of the batch and nothing else: a refused call
\* costs nothing, a granted one costs one whether its adapter is reached or not
\* (device_authorization.py:384-394, routed.py:193).
BudgetCountsGrants ==
  /\ budget.total = UsedBefore(batch).total + Cardinality(GrantsIn(batch))
  /\ \A o \in Operation :
       budget.calls[o] = UsedBefore(batch).calls[o] + Cardinality(GrantsOf(batch, o))

\* A grant is good for one call of the device and operation it was given for: each
\* is pending in exactly one thread, was used by one call, or was lost to an adapter
\* that was not ready.
OneCallPerGrant ==
  LET holds(w, i) == pc[w] \in {"granted", "calling"} /\ call[w].grant = i IN
  /\ \A i \in DOMAIN grants :
       grants[i].fate = "pending" <=> \E w \in Worker : holds(w, i)
  /\ \A w \in Worker : pc[w] \in {"granted", "calling"} =>
       /\ call[w].grant \in DOMAIN grants
       /\ grants[call[w].grant].device = call[w].device
       /\ grants[call[w].grant].operation = call[w].operation
       /\ \A v \in Worker : holds(v, call[w].grant) => v = w

\* Only a rotation gives budget back, and only to a batch of its own; what earlier
\* batches were granted stays as it was (device_authorization.py:470-481).
OnlyRotationRefills ==
  [][/\ batch' = batch =>
          /\ manifest' = manifest /\ budget'.total >= budget.total
          /\ \A o \in Operation : budget'.calls[o] >= budget.calls[o]
     /\ batch' # batch => batch' = batch + 1 /\ Len(grants') = Len(grants)]_vars

\* A closed session stays closed: from then on no call is granted and no batch
\* begins, though calls granted before may still reach their adapters
\* (device_authorization.py:483-503).
NothingGrantedOnceClosed ==
  [][closed => closed' /\ batch' = batch /\ Len(grants') = Len(grants)]_vars

\* Every call comes back (routed.py:178-193).
EveryCallEnds == \A w \in Worker : pc[w] # "idle" ~> pc[w] = "idle"
=============================================================================
