---------------------------- MODULE MCConclusions ----------------------------
(* What a conclusion of a diagnosis rests on, one scene at a time: the citations *)
(* a model may return (MCCitationRepair), the evidence that decides the label of *)
(* a fault, the plans and windows of recordings, and the runtimes that may be    *)
(* put together.                                                                *)
EXTENDS MCCitationRepair, DiagnosisRules

Runtime == INSTANCE RuntimeAssembly
Scripted == INSTANCE ScriptedRun
Retrieval == INSTANCE KnowledgeRetrieval WITH MinNear <- 1, MaxBatch <- 2

CONSTANTS MaxFacts,  \* bound: items of evidence
          MaxDays    \* bound: days of a window

VARIABLES scene,   \* "citation", a fault type, "plan", "runtime", "run" or "search"
          facts,   \* the evidence of the case, in the order in which it landed
          plan,    \* the ranges of a recording plan and a window
          runtime, \* the arguments of a build
          run,     \* a run of a scripted container
          search   \* a knowledge base, what was embedded of it, and the last search

scenes == <<facts, plan, runtime, run, search>>
mcvars == <<evidence, request, result, scene, scenes>>
citation == <<evidence, request, result, scene>>

------------------------------------------------------------------------------
Fact1(type, says) == [type |-> type, stream |-> "none", says |-> says]
StreamSays(stream, pull, timeout, load, black) ==
    [type |-> "device_stream", stream |-> stream,
     says |-> [pull |-> pull, timeout |-> timeout, load |-> load, black |-> black]]

Plan(status, ranges) == [status |-> status, ranges |-> ranges]
AllDay == [days |-> 0..MaxDays, from |-> 0, to |-> 0]

MCSays ==
    [camera |->
        {Fact1("device_status", [online |-> "yes", stream |-> "normal"]),
         Fact1("device_status", [online |-> "yes", stream |-> "abnormal"]),
         Fact1("device_status", [online |-> "no", stream |-> "normal"]),
         Fact1("device_channel", "out_of_order"), Fact1("device_channel", "in_order"),
         Fact1("platform_pull", "failed"), Fact1("device_alarm", "encoder_timeout"),
         Fact1("device_config", "high"),
         StreamSays("main", "success", FALSE, None, "yes"),
         StreamSays("main", "failed", FALSE, "low", None),
         StreamSays("main", "success", FALSE, "low", "no"),
         StreamSays("sub", "success", TRUE, "high", "yes"),
         StreamSays("sub", "timeout", FALSE, "low", "no")},
     recording |->
        {Fact1("recording_plan", Plan("disabled", <<>>)),
         Fact1("recording_plan", Plan("misconfigured", <<AllDay>>)),
         Fact1("recording_plan", Plan("enabled", <<>>)),
         Fact1("recording_plan", Plan("enabled", <<AllDay>>)),
         Fact1("storage_status", "low"), Fact1("storage_status", "normal"),
         Fact1("playback_check", [status |-> "missing", window |-> [from |-> 1, to |-> 3]]),
         Fact1("playback_check", [status |-> "corrupted", window |-> [from |-> 1, to |-> 3]]),
         Fact1("playback_check", [status |-> "available", window |-> [from |-> 1, to |-> 3]])},
     access |->
        {Fact1("access_controller", "abnormal"), Fact1("access_door", "abnormal"),
         Fact1("access_credential", "abnormal"), Fact1("access_credential", "normal"),
         Fact1("access_policy", "allowed"), Fact1("access_policy", "denied")}
        \cup {Fact1("access_event", reason) :
                reason \in {"granted", "controller", "permission", "time_window"}},
     alarm |->
        {Fact1(type, says) : type \in {"alarm_rule", "alarm_signal"},
                             says \in {"suspicious", "normal"}}
        \cup {Fact1(type, "suspicious") :
                type \in {"alarm_environment", "alarm_verification", "alarm_correlation"}}]

\* How a fact lands: reliably or not, early or late, once more with another snapshot.
MCLandings ==
    {[reliability |-> "high", at |-> 1, snapshot |-> 1], [reliability |-> "high", at |-> 2, snapshot |-> 1],
     [reliability |-> "high", at |-> 2, snapshot |-> 2], [reliability |-> "low", at |-> 2, snapshot |-> 1]}
Landed(fact, landing) ==
    [type |-> fact.type, stream |-> fact.stream, says |-> fact.says,
     reliability |-> landing.reliability, at |-> landing.at, snapshot |-> landing.snapshot]

\* A report of a stream always names how pulling it went.
ASSUME NotReported == None \notin {"success", "failed", "timeout"}

LandFact ==
    /\ scene \in DOMAIN MCSays /\ Len(facts) < MaxFacts
    /\ \E fact \in MCSays[scene], landing \in MCLandings :
         /\ Landed(fact, landing) \notin Range(facts)
         /\ facts' = Append(facts, Landed(fact, landing))
    /\ UNCHANGED <<citation, plan, runtime, run, search>>

------------------------------------------------------------------------------
MCRanges == [days : {{0}, {1}, 0..MaxDays}, from : 0..(DayLength - 1), to : 0..(DayLength - 1)]
MCWindows == {w \in [from : 0..(MaxDays * DayLength - 1), to : 1..(MaxDays * DayLength)] :
                 w.from < w.to}
(* A unit is more than the tolerance of one in a thousand of any window. *)
ASSUME UnitsCount ==
    DayLength \in Nat \ {0} /\ MaxDays \in Nat /\ MaxDays * DayLength < 1000

NoPlan == [ranges |-> <<>>, window |-> [from |-> 0, to |-> 1]]

AddRange ==
    /\ scene = "plan" /\ Len(plan.ranges) < 2
    /\ \E range \in MCRanges : plan' = [plan EXCEPT !.ranges = Append(@, range)]
    /\ UNCHANGED <<citation, facts, runtime, run, search>>

------------------------------------------------------------------------------
MCAssets == [enabled : BOOLEAN, adapter : {Runtime!DefaultAdapter, "other"},
             capabilities : SUBSET {"status", "channel", "stream", "recording"}]
MCRegistries ==
    {DOMAIN Runtime!ToolNamed, Runtime!ToolAllowlist,
     Runtime!ToolAllowlist \ {"platform__query_pull_status"}}
NoRuntime == [assets |-> {}, ready |-> TRUE, checked |-> None, registry |-> Runtime!ToolAllowlist]

AddAsset ==
    /\ scene = "runtime" /\ Cardinality(runtime.assets) < 2
    /\ \E asset \in MCAssets : runtime' = [runtime EXCEPT !.assets = @ \cup {asset}]
    /\ UNCHANGED <<citation, facts, plan, run, search>>

Built == Runtime!Build(runtime.assets, runtime.ready, runtime.checked, runtime.registry, FALSE, None)

------------------------------------------------------------------------------
NoRun == [container |-> "phase0", fault |-> "camera", known |-> TRUE, results |-> <<>>, traces |-> <<>>]

\* Two of the ways an operation may be told to fail.
MCBehaviours == {"success", "timeout", "unsupported_capability"}

NextCall ==
    /\ scene = "run" /\ ~Scripted!Finished(run)
    /\ LET tool == Scripted!NextTool(run)
           behaviours == IF Scripted!Simulated(run, tool) THEN MCBehaviours ELSE {"success"}
       IN  \E behaviour \in behaviours, answer \in Scripted!StaticAnswers(tool, run.known) :
             run' = Scripted!Call(run, behaviour, answer)
    /\ UNCHANGED <<citation, facts, plan, runtime, search>>

------------------------------------------------------------------------------
\* The words an item shares with the query, and how near it is.
MCMeasures == {<<0, 1>>, <<0, 2>>, <<2, 0>>, <<2, 1>>, <<3, 0>>, <<3, 2>>}
MCItemNo(id, measure, status, fault) ==
    [id |-> id, updated |-> 1, status |-> status, fault |-> fault,
     words |-> measure[1], near |-> measure[2]]
MCStores ==
    {{MCItemNo(1, a, "confirmed", "camera"), MCItemNo(2, b, "confirmed", "camera"),
      MCItemNo(3, c, status, fault)} :
        a, b, c \in MCMeasures, status \in {"candidate", "confirmed"}, fault \in {"camera", "alarm"}}
NoSearch == [store |-> {}, cache |-> {}, asked |-> None, answer |-> None]

MCAsked == [kind : {"repository", "semantic", "hybrid"}, blank : BOOLEAN, limit : {1, 3},
            up : BOOLEAN, upAfter : BOOLEAN, cache : {search.cache}]

Answer(asked) ==
    CASE asked.kind = "repository" ->
            Retrieval!Keyword(search.store, "camera", asked.blank, asked.limit, search.cache)
      [] asked.kind = "semantic" ->
            Retrieval!Semantic(search.store, "camera", asked.limit, search.cache,
                               asked.up, asked.upAfter)
      [] asked.kind = "hybrid" ->
            Retrieval!Hybrid(search.store, "camera", asked.blank, asked.limit, search.cache,
                             asked.up, asked.upAfter)

Search ==
    /\ scene = "search" /\ search.asked = None
    /\ \E asked \in MCAsked :
         /\ asked.up \/ ~asked.upAfter
         /\ search' = [search EXCEPT !.asked = asked, !.answer = Answer(asked),
                                     !.cache = Answer(asked).cache]
    /\ UNCHANGED <<citation, facts, plan, runtime, run>>

(* After a search the knowledge is confirmed that was not. *)
Confirm ==
    /\ scene = "search" /\ search.asked # None
    /\ \E i \in search.store :
         /\ i.status = "candidate"
         /\ search' = [search EXCEPT
                !.store = (@ \ {i}) \cup {[i EXCEPT !.status = "confirmed", !.updated = @ + 1]},
                !.asked = None, !.answer = None]
    /\ UNCHANGED <<citation, facts, plan, runtime, run>>

------------------------------------------------------------------------------
MCInit ==
    /\ Init
    /\ scene \in {"citation", "plan", "runtime", "run", "search"} \cup DOMAIN MCSays
    /\ facts = <<>>
    /\ IF scene = "plan" THEN plan \in [ranges : {<<>>}, window : MCWindows] ELSE plan = NoPlan
    /\ IF scene = "runtime"
       THEN runtime \in [assets : {{}}, ready : BOOLEAN, checked : {None, {}, {"other"}},
                         registry : MCRegistries]
       ELSE runtime = NoRuntime
    /\ IF scene = "run"
       THEN /\ run \in [container : DOMAIN Scripted!Containers, fault : {"camera", "alarm"},
                        known : BOOLEAN, results : {<<>>}, traces : {<<>>}]
            /\ Scripted!Containers[run.container].simulated => run.fault = "camera"
       ELSE run = NoRun
    /\ IF scene = "search"
       THEN search \in [store : MCStores, cache : {{}}, asked : {None}, answer : {None}]
       ELSE search = NoSearch

CitationStep == scene = "citation" /\ Next /\ UNCHANGED <<scene, scenes>>

MCNext == CitationStep \/ LandFact \/ AddRange \/ AddAsset \/ NextCall \/ Search \/ Confirm
MCSpec == MCInit /\ [][MCNext]_mcvars

------------------------------------------------------------------------------
(* There is a more reliable item of its kind, or a newer one as reliable. *)
Outranked(item) ==
    \E other \in Items(facts, item.type, item.stream) :
        \/ Rank[other.reliability] > Rank[item.reliability]
        \/ other.reliability = item.reliability /\ other.at > item.at

(* Whatever order facts land in, the label is the one the items lead to that     *)
(* nothing outranks (evidence_resolution.py:35-49).                              *)
LabelsRestOnDecidingFacts ==
    scene \in DOMAIN MCSays =>
        Label(facts, scene) = Label(SetToSeq({i \in Range(facts) : ~Outranked(i)}), scene)

(* Of ranges that do not overlap and do not run past midnight, a plan covers a   *)
(* window exactly when each unit of it lies in a range                           *)
(* (recording_diagnosis_rules.py:193).                                           *)
InRange(unit, range) ==
    /\ Day(unit) \in range.days
    /\ range.from = range.to \/ unit % DayLength \in range.from..(range.to - 1)
Units(window) == window.from..(window.to - 1)

PlanCoverageIsExact ==
    LET ranges == Range(plan.ranges)
        units == 0..(MaxDays * DayLength - 1)
    IN  scene = "plan" /\ plan.ranges # <<>>
        /\ (\A range \in ranges : range.from <= range.to)
        /\ (\A i, j \in DOMAIN plan.ranges : i # j =>
                \A unit \in units : ~(InRange(unit, plan.ranges[i]) /\ InRange(unit, plan.ranges[j])))
        => (PlanCovers(plan.ranges, plan.window)
              <=> \A unit \in Units(plan.window) : \E range \in ranges : InRange(unit, range))

(* A range that ends before it begins runs past midnight, so one that is in      *)
(* force every day covers a window that lies in it (domain/recording.py:83).     *)
OvernightRangesCover ==
    scene = "plan" /\ plan.ranges # <<>> =>
        LET range == plan.ranges[1]
            inside(unit) == unit % DayLength >= range.from \/ unit % DayLength < range.to
        IN  /\ range.days = 0..MaxDays /\ range.to < range.from
            /\ \A unit \in Units(plan.window) : inside(unit)
            => PlanCovers(plan.ranges, plan.window)

(* What a runtime says it supports it can also do: one enabled asset behind a    *)
(* ready adapter has every capability that is needed, and the authorization that *)
(* is made for it allows every operation its tools call.  Of a registry from     *)
(* outside this holds for the tools a run may use (runtime.py:237).              *)
SupportIsUsable ==
    scene = "runtime" => \A fault \in Built.supported :
        \E asset \in runtime.assets :
            /\ asset.enabled /\ asset.adapter \in Built.ready
            /\ \A tool \in Runtime!Needs[fault].tools \cap Runtime!ToolAllowlist :
                 LET operation == Runtime!ToolNamed[tool].operation
                 IN  /\ tool \in runtime.registry
                     /\ operation \in Built.operations
                     /\ Runtime!CapabilityOf[operation] \in asset.capabilities

(* Whatever a scenario makes fail, a scripted run adds up. *)
ScriptedRunsAddUp == scene = "run" => Scripted!RunAddsUp(run)

(* What is found of the knowledge base is found well, also beside an embedding   *)
(* service that fails in the middle of a search.                                 *)
SearchesAnswerWell ==
    scene = "search" /\ search.asked # None =>
        LET asked == search.asked
        IN  Retrieval!AnswersWell(search.store, "camera", asked.blank, asked.limit, asked.cache,
                                  asked.up, asked.upAfter, search.answer)
==============================================================================
