---------------------------- MODULE DiagnosisRules ----------------------------
(* The candidate label each list of evidence leads to: which of several facts of *)
(* one kind decides (application/evidence_resolution.py), what the four rule     *)
(* sets make of the facts that decide (application/*_diagnosis_rules.py), and    *)
(* whether a recording plan covers a window.                                     *)
(* An item is [type, stream, reliability, at, snapshot, says]: at is when it      *)
(* landed, and two payloads are equal when snapshot and says are.  Of a payload  *)
(* says keeps the findings the rules draw from it.                               *)
EXTENDS Naturals, Sequences, SequencesExt, FiniteSets

CONSTANTS None,      \* a fact that was not reported
          DayLength  \* units of time in a day

Rank == [low |-> 0, medium |-> 1, high |-> 2]
Streams == <<"main", "sub">>

\* The types of evidence each rule set looks at.
TypesOf ==
    [camera |-> {"device_status", "device_channel", "device_stream", "platform_pull",
                 "device_alarm", "device_config"},
     recording |-> {"recording_plan", "storage_status", "playback_check"},
     access |-> {"access_controller", "access_door", "access_credential", "access_policy",
                 "access_event"},
     alarm |-> {"alarm_rule", "alarm_signal", "alarm_environment", "alarm_verification",
                "alarm_correlation"}]

Items(evidence, type, stream) ==
    {item \in Range(evidence) : item.type = type /\ item.stream = stream}

\* Mutation: what landed last decides, however unreliable.
LastOf(items) == {item \in items : \A other \in items : other.at <= item.at}
(* Of the most reliable items the newest decide. *)
Newest(items) ==
    LET reliable == {item \in items : \A other \in items :
                        Rank[other.reliability] <= Rank[item.reliability]}
    IN  {item \in reliable : \A other \in reliable : other.at <= item.at}

Payloads(items) == {<<item.snapshot, item.says>> : item \in Newest(items)}
Conflict(items) == Cardinality(Payloads(items)) > 1

(* What the deciding fact of a type says, or None. *)
StreamFact(evidence, type, stream) ==
    LET said == Payloads(Items(evidence, type, stream))
    IN  IF Cardinality(said) = 1 THEN (CHOOSE p \in said : TRUE)[2] ELSE None
Fact(evidence, type) == StreamFact(evidence, type, "none")

Conflicting(evidence, fault) ==
    \E item \in Range(evidence) :
        item.type \in TypesOf[fault] /\ Conflict(Items(evidence, item.type, item.stream))

Insufficient == "insufficient"
(* The rules are tried in order, each a condition and the label it gives. *)
FirstOf(rules) ==
    LET applies(rule) == rule[1]
        hits == SelectSeq(rules, applies)
    IN  IF hits = <<>> THEN Insufficient ELSE Head(hits)[2]

------------------------------------------------------------------------------
IsStream(item, stream) == item.type = "device_stream" /\ item.stream = stream

(* The kinds of streams in the order in which the evidence first shows them. *)
StreamOrder(evidence) ==
    IF \E i \in DOMAIN evidence : /\ IsStream(evidence[i], "main")
                                 /\ \A j \in 1..(i - 1) : ~ IsStream(evidence[j], "sub")
    THEN Streams ELSE Reverse(Streams)

Failed(pull) == pull \in {"failed", "timeout"}

(* The main stream decides, another one only where nothing was reported so far.  *)
(* Bitrate and resolution go the same way and are one load here.                 *)
Take(facts, stream, says) ==
    LET decides == stream = "main" \/ facts.pull = None
        shows == says.black # None /\ (stream = "main" \/ facts.black = None)
    IN  [pull |-> IF decides THEN says.pull ELSE facts.pull,
         timeout |-> IF decides THEN says.timeout ELSE facts.timeout,
         load |-> IF decides THEN says.load ELSE facts.load,
         black |-> IF shows THEN says.black ELSE facts.black,
         failed |-> facts.failed \/ Failed(says.pull)]

(* The streams come after everything else, so a stream that reports no load      *)
(* hides the one of the configuration.                                           *)
StreamFacts(evidence) ==
    LET order == StreamOrder(evidence)
        start == [pull |-> None, timeout |-> FALSE, load |-> Fact(evidence, "device_config"),
                  black |-> None, failed |-> FALSE]
        with(facts, stream) ==
            IF Items(evidence, "device_stream", stream) = {} THEN facts
            ELSE Take(facts, stream, StreamFact(evidence, "device_stream", stream))
    IN  with(with(start, order[1]), order[2])

(* infer_camera_black_screen_label.  A status says whether the device is online  *)
(* and its stream abnormal, a channel whether it is in order, an alarm whether   *)
(* the encoder timed out, a configuration its load.                              *)
CameraLabel(evidence) ==
    LET status == Fact(evidence, "device_status")
        channel == Fact(evidence, "device_channel")
        platform == Fact(evidence, "platform_pull")
        stream == StreamFacts(evidence)
        online == IF status = None THEN None ELSE status.online
        timeout == stream.timeout \/ Fact(evidence, "device_alarm") = "encoder_timeout"
        abnormal == status # None /\ status.stream = "abnormal"
    IN  IF status = None /\ channel = None /\ platform = None /\ stream.pull = None
        THEN Insufficient
        ELSE FirstOf(<<
            <<online = "no", "device_offline">>,
            <<online = "yes" /\ channel = "out_of_order", "channel_or_platform_access">>,
            <<timeout /\ stream.load = "high", "overloaded_encoding">>,
            <<stream.failed \/ abnormal, "stream_publish">>,
            <<stream.pull = "success" /\ stream.black = "yes", "content_black">>,
            <<platform # None /\ Failed(platform), "platform_pull">> >>)

------------------------------------------------------------------------------
(* Time is a number of units; a range is [days, from, to] within a day, a window *)
(* goes from one unit up to another.                                             *)
Day(unit) == unit \div DayLength
Larger(x, y) == IF x > y THEN x ELSE y
Smaller(x, y) == IF x < y THEN x ELSE y

\* Mutation: a range is not cut to the window.
UncutOverlap(range, day, window) ==
    IF day \notin range.days THEN 0
    ELSE IF range.from = range.to THEN DayLength
    ELSE IF range.to > range.from THEN range.to - range.from ELSE 0
(* How much of the window a range covers on one day.  A range whose end is its   *)
(* beginning is the whole day, one that ends before it begins covers nothing.    *)
Overlap(range, day, window) ==
    LET start == Larger(day * DayLength, window.from)
        end == Smaller((day + 1) * DayLength, window.to)
        from == Larger(start, day * DayLength + range.from)
        to == Smaller(end, day * DayLength + range.to)
    IN  IF day \notin range.days THEN 0
        ELSE IF range.from = range.to THEN end - start
        ELSE IF to > from THEN to - from ELSE 0

(* What all ranges cover together, each day and range for itself: a unit that    *)
(* two ranges cover counts twice.                                                *)
Covered(ranges, window) ==
    LET days == Day(window.from)..Day(window.to - 1)
    IN  UNION {{<<i, day>>} \X (1..Overlap(ranges[i], day, window)) :
                  i \in DOMAIN ranges, day \in days}

(* _plan_covers_window: what the ranges cover is compared with the length of the *)
(* window.                                                                       *)
PlanCovers(ranges, window) ==
    LET total == window.to - window.from
    IN  /\ ranges # <<>> /\ window.from < window.to
        /\ 1000 * Cardinality(Covered(ranges, window)) >= 999 * total

(* extract_recording_facts.  A plan says its status (enabled, disabled or        *)
(* misconfigured) and its ranges, a playback its status and window, a storage    *)
(* whether it is low.                                                            *)
RecordingFacts(evidence) ==
    [plan |-> Fact(evidence, "recording_plan"), playback |-> Fact(evidence, "playback_check"),
     low |-> Fact(evidence, "storage_status") = "low"]

(* infer_recording_missing_label *)
RecordingLabel(evidence) ==
    LET facts == RecordingFacts(evidence)
        plan == facts.plan
        playback == facts.playback
        missing == playback.status = "missing"
        enabled == plan.status = "enabled"
        gap == (enabled /\ plan.ranges = <<>>) \/ ~PlanCovers(plan.ranges, playback.window)
    IN  IF plan = None \/ playback = None THEN Insufficient
        ELSE FirstOf(<<
            <<plan.status = "disabled" /\ missing, "plan_disabled">>,
            <<facts.low /\ missing, "storage_issue">>,
            <<gap /\ missing, "schedule_gap">>,
            <<enabled /\ plan.ranges # <<>> /\ ~facts.low
                /\ playback.status \in {"index_missing", "corrupted"}, "playback_index_issue">> >>)

------------------------------------------------------------------------------
Denied(policy, event) == policy = "denied" \/ event = "permission"

(* extract_access_facts.  The newest event names the reason it was refused for,  *)
(* which stands beside what the parts say of themselves.                         *)
AccessFacts(evidence) ==
    LET event == Fact(evidence, "access_event")
        abnormal(type) == Fact(evidence, type) = "abnormal"
    IN  [event |-> event,
         controller |-> abnormal("access_controller") \/ event = "controller",
         door |-> abnormal("access_door") \/ event = "door",
         credential |-> abnormal("access_credential") \/ event = "credential",
         denied |-> Denied(Fact(evidence, "access_policy"), event),
         outside |-> event = "time_window"]

(* infer_access_card_failed_label *)
AccessLabel(evidence) ==
    LET facts == AccessFacts(evidence)
    IN  IF facts.event = None THEN Insufficient
        ELSE FirstOf(<<
            <<facts.controller, "controller">>, <<facts.door, "door_lock">>,
            <<facts.credential, "credential">>, <<facts.denied, "permission">>,
            <<facts.outside, "time_window">> >>)

(* extract_alarm_facts: what each kind of fact says of a false alarm. *)
AlarmFacts(evidence) == [type \in TypesOf["alarm"] |-> Fact(evidence, type)]

(* infer_alarm_false_positive_label *)
AlarmLabel(evidence) ==
    LET facts == AlarmFacts(evidence)
        suspicious(type) == facts[type] = "suspicious"
    IN  IF facts["alarm_rule"] = None \/ facts["alarm_signal"] = None THEN Insufficient
        ELSE FirstOf(<<
            <<suspicious("alarm_rule"), "rule_too_sensitive">>,
            <<suspicious("alarm_environment"), "environment">>,
            <<suspicious("alarm_signal"), "sensor_noise">>,
            <<suspicious("alarm_verification"), "verification_negative">>,
            <<suspicious("alarm_correlation"), "alarm_burst">> >>)

(* infer_candidate_label; facts that contradict each other decide nothing. *)
Label(evidence, fault) ==
    IF Conflicting(evidence, fault) THEN Insufficient
    ELSE CASE fault = "camera" -> CameraLabel(evidence)
           [] fault = "recording" -> RecordingLabel(evidence)
           [] fault = "access" -> AccessLabel(evidence)
           [] fault = "alarm" -> AlarmLabel(evidence)
==============================================================================
