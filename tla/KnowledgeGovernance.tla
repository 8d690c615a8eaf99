-------------------------- MODULE KnowledgeGovernance --------------------------
(* Knowledge governance over one SQLite database (application/                   *)
(* knowledge_governance.py, adapters/persistence), the consistency scan that     *)
(* reads it, its backup and restore (adapters/persistence/backup.py), and the    *)
(* runtime container whose closing has to keep them apart (runtime.py).          *)
(* A request reads, builds its candidate and audit event, opens a session if the *)
(* container is open, writes under the write lock of SQLite, and commits both.   *)
(* Diagnoses are those of DiagnosisLifecycle, which the service implements.      *)
EXTENDS KnowledgeBase, SequencesExt

CONSTANTS Worker,
          InitialJournal, \* the diagnoses the database holds to begin with
          MaxContainers, \* bound: runtime containers, one after the other
          MaxCaseSteps,  \* bound: operations on diagnoses
          MaxRequests,   \* bound: requests of knowledge governance
          MaxDisturbances \* bound: scans, restores, crashes, failed steps and clocks set back

VARIABLES journal, status, knowledge, trail, \* the database under its path
          file,     \* how often it was replaced
          clock,    \* the wall clock, which matters where it is set back
          phase, container, \* the current runtime container: its state and number
          pc, local,        \* per worker
          scan,     \* what the scan read so far, and whether anything was written beside it
          backup,   \* the last backup, or None
          operator, recovered, \* the restore; the events of all recovery copies
          acked,    \* history: the events whose callers were told of success
          overtaken, \* history: a request was committed past the copy a restore made
          cases, requests, disturbed

database == <<journal, status, knowledge, trail>>
counters == <<cases, requests, disturbed>>
vars == <<database, file, clock, phase, container, pc, local, scan, backup,
          operator, recovered, acked, overtaken, counters>>

Lifecycle == INSTANCE DiagnosisLifecycle WITH Id <- Diagnosis

Idle == [container |-> 0]
NoScan == [at |-> "idle"]

Statuses == {"created", "waiting_for_input", "waiting_for_confirmation", "confirmed",
             "rejected", "inconclusive"}
Entry == [operation : {"create", "run", "confirm", "reject", "request_more_info"},
          left : Statuses]

(* A diagnosis is confirmed by a review of what the run before it offered.        *)
ConfirmedAsOffered(entries) ==
    entries # <<>> /\ Last(entries).left = "confirmed" =>
        /\ Last(entries).operation = "confirm"
        /\ Len(entries) > 1 /\ entries[Len(entries) - 1].left = "waiting_for_confirmation"

ASSUME InitialHistory == /\ InitialJournal \in [Diagnosis -> Seq(Entry)]
                         /\ \A d \in Diagnosis : ConfirmedAsOffered(InitialJournal[d])
ASSUME Bounds == {MaxContainers, MaxCaseSteps, MaxRequests, MaxDisturbances} \subseteq Nat

Candidate == [source : Diagnosis \cup Seed, conclusion : Nat, importer : Actor \cup {None},
              reviews : Seq([action : ReviewActions, reviewer : Actor]),
              status : {"candidate", "confirmed", "rejected", "retired"}, version : Nat]
ASSUME NoneIsNoCandidate == None \notin Candidate

AuditEvent == [entity : Diagnosis \cup Knowledge, version : Nat, time : Nat,
               by : {None} \cup Nat \X (Statuses \cup Diagnosis \cup Actor \cup Actor \X ReviewActions)]
Pending == [container : Nat, id : Knowledge, candidate : Candidate, event : AuditEvent,
            read : Nat, file : Nat]
Cases == [journal : [Diagnosis -> Seq(Entry)], status : [Diagnosis -> Statuses \cup {"absent"}]]
Candidates == [Knowledge -> Candidate \cup {None}]
Snapshot == [journal : [Diagnosis -> Seq(Entry)], status : [Diagnosis -> Statuses \cup {"absent"}],
             knowledge : Candidates, trail : SUBSET AuditEvent]
Scan == [at : {2}, container : Nat, file : Nat, quiet : BOOLEAN, seen : [cases : Cases]]
        \cup [at : {3}, container : Nat, file : Nat, quiet : BOOLEAN,
              seen : [cases : Cases, knowledge : Candidates]]

TypeOK ==
    /\ journal \in [Diagnosis -> Seq(Entry)]
    /\ status \in [Diagnosis -> Statuses \cup {"absent"}]
    /\ knowledge \in Candidates /\ trail \subseteq AuditEvent
    /\ file \in Nat /\ clock \in 0..MaxDisturbances
    /\ MaxDisturbances <= clock + disturbed
    /\ phase \in {"open", "closing", "closed"} /\ container \in Nat
    /\ pc \in [Worker -> {"idle", "session", "execute", "commit"}]
    /\ local \in [Worker -> Pending \cup {Idle}]
    /\ \A w \in Worker : pc[w] # "idle" => local[w] \in Pending
    /\ scan \in Scan \cup {NoScan}
    /\ backup \in Snapshot \cup {None} /\ operator \in {"idle", "replace"}
    /\ operator = "replace" => backup # None
    /\ recovered \subseteq AuditEvent /\ acked \subseteq AuditEvent
    /\ overtaken \in BOOLEAN
    /\ cases \in 0..MaxCaseSteps /\ requests \in 0..MaxRequests
    /\ disturbed \in 0..MaxDisturbances

Init ==
    /\ journal = InitialJournal
    /\ status = [d \in Diagnosis |-> IF journal[d] = <<>> THEN "absent" ELSE Last(journal[d]).left]
    /\ file = 0
    /\ \E importer \in Actor \cup {None} :
         knowledge = [id \in Knowledge |->
            IF importer = None \/ id \notin Seed THEN None
            ELSE [NewCandidate(id, 0, importer) EXCEPT !.version = 1]]
    /\ trail = {[entity |-> id, version |-> 1, time |-> MaxDisturbances, by |-> None] :
                    id \in {i \in Knowledge : knowledge[i] # None}} \cup UNION {{[entity |-> d, version |-> v, time |-> MaxDisturbances, by |-> None] :
                            v \in DOMAIN journal[d]} : d \in Diagnosis}
    /\ clock = MaxDisturbances
    /\ phase = "open" /\ container = 1
    /\ pc = [w \in Worker |-> "idle"] /\ local = [w \in Worker |-> Idle]
    /\ scan = NoScan
    /\ backup = None /\ operator = "idle" /\ recovered = {}
    /\ acked = {} /\ overtaken = FALSE
    /\ cases = 0 /\ requests = 0 /\ disturbed = 0

(* An audit event; by names who did what, in which life of the database. *)
Event(entity, version, by) ==
    [entity |-> entity, version |-> version, time |-> clock, by |-> <<file, by>>]

(* The write lock of SQLite, on the file now under the path of the database. *)
Locked == \E w \in Worker : pc[w] = "commit" /\ local[w].file = file

(* Entry points of a container answer, and its session factory opens sessions. *)
Answers(c) == c = container /\ phase # "closed"

(* A commit of what was read when the database had been replaced read times, and *)
(* whether a restore came in between.                                            *)
Overtakes(read) == overtaken' = (overtaken \/ operator = "replace" \/ read # file)

(* A write falls beside the scan that is under way. *)
Beside == scan' = IF scan = NoScan THEN scan ELSE [scan EXCEPT !.quiet = FALSE]

------------------------------------------------------------------------------
(* One operation on a diagnosis: the case and its event in one transaction. *)
CaseStep ==
    /\ Answers(container) /\ ~Locked /\ cases < MaxCaseSteps
    /\ cases' = cases + 1
    /\ Lifecycle!Next
    /\ \E d \in Diagnosis :
         /\ journal'[d] # journal[d]
         /\ trail' = trail \cup {Event(d, Len(journal'[d]), status'[d])}
         /\ acked' = acked \cup {Event(d, Len(journal'[d]), status'[d])}
    /\ Beside /\ Overtakes(file)
    /\ UNCHANGED <<knowledge, file, clock, phase, container, pc, local, backup,
                   operator, recovered, requests, disturbed>>

Request(w, id, candidate, by) ==
    /\ pc[w] = "idle" /\ Answers(container) /\ requests < MaxRequests
    /\ requests' = requests + 1
    /\ pc' = [pc EXCEPT ![w] = "session"]
    /\ local' = [local EXCEPT ![w] =
            [container |-> container, id |-> id, candidate |-> candidate,
             event |-> Event(id, candidate.version + 1, by), read |-> file, file |-> file]]
    /\ UNCHANGED <<database, file, clock, phase, container, scan, backup,
                   operator, recovered, acked, overtaken, cases, disturbed>>

(* generate_and_save: the id is fresh. *)
Generate(w, d) ==
    /\ CanGenerate(journal[d], status[d])
    /\ \E id \in Generated :
         /\ knowledge[id] = None
         /\ \A v \in Worker : local[v] # Idle => local[v].id # id
         /\ \A x \in acked : x.entity # id
         /\ Request(w, id, NewCandidate(d, ConclusionOf(journal[d]), None), d)

(* import_manual_seed: a seed that list_all shows is answered from there. *)
Import(w, s, actor) == knowledge[s] = None /\ Request(w, s, NewCandidate(s, 0, actor), actor)

Review(w, id, action, reviewer) ==
    /\ knowledge[id] # None
    /\ MayReview(knowledge[id], action, reviewer)
    /\ Request(w, id, Reviewed(knowledge[id], action, reviewer), <<reviewer, action>>)

Finish(w) == pc' = [pc EXCEPT ![w] = "idle"] /\ local' = [local EXCEPT ![w] = Idle]

(* _ClosedAwareSessionFactory: a session is opened, or RuntimeClosedError. *)
OpenSession(w) ==
    /\ pc[w] = "session"
    /\ IF Answers(local[w].container)
       THEN pc' = [pc EXCEPT ![w] = "execute"] /\ UNCHANGED local
       ELSE Finish(w)
    /\ UNCHANGED <<database, file, clock, phase, container, scan, backup,
                   operator, recovered, acked, overtaken, counters>>

(* The insert meets no row of this id, or the update meets the version it read. *)
Current(id, candidate) ==
    IF candidate.version = 0 THEN knowledge[id] = None
    ELSE knowledge[id] # None /\ knowledge[id].version = candidate.version

(* The first statement connects to whatever file is under the path, takes its    *)
(* write lock and finds the row as expected, or the request ends in an error.    *)
Execute(w) ==
    /\ pc[w] = "execute" /\ ~Locked
    /\ IF Current(local[w].id, local[w].candidate)
       THEN /\ pc' = [pc EXCEPT ![w] = "commit"]
            /\ local' = [local EXCEPT ![w].file = file]
       ELSE Finish(w)
    /\ UNCHANGED <<database, file, clock, phase, container, scan, backup,
                   operator, recovered, acked, overtaken, counters>>

(* Candidate and event are committed to the file that was connected to.  The     *)
(* caller is answered from a row read again, under the path as it is then.       *)
Commit(w) ==
    LET l == local[w]
        stored == [l.candidate EXCEPT !.version = @ + 1]
    IN  /\ pc[w] = "commit"
        /\ IF l.file = file
           THEN /\ knowledge' = [knowledge EXCEPT ![l.id] = stored]
                /\ trail' = trail \cup {l.event}
           ELSE UNCHANGED <<knowledge, trail>>
        /\ acked' = IF knowledge'[l.id] # None THEN acked \cup {l.event} ELSE acked
        /\ Beside /\ Overtakes(l.read)
        /\ Finish(w)
        /\ UNCHANGED <<journal, status, file, clock, phase, container, backup,
                       operator, recovered, counters>>

(* The transaction is rolled back. *)
WriteFails(w) ==
    /\ pc[w] = "commit" /\ disturbed < MaxDisturbances
    /\ disturbed' = disturbed + 1
    /\ Finish(w)
    /\ UNCHANGED <<database, file, clock, phase, container, scan, backup, operator,
                   recovered, acked, overtaken, cases, requests>>

------------------------------------------------------------------------------
(* scan reads three times, each time in a session of its own. *)
\* Mutation: the audit events are read first.
AuditFirst == <<"audit", "cases", "knowledge">>
ScanOrder == <<"cases", "knowledge", "audit">>

Reading(part) ==
    CASE part = "cases" -> [journal |-> journal, status |-> status]
      [] part = "knowledge" -> knowledge
      [] part = "audit" -> trail

StartScan ==
    /\ scan = NoScan /\ Answers(container) /\ disturbed < MaxDisturbances
    /\ disturbed' = disturbed + 1
    /\ LET first == ScanOrder[1]
       IN  scan' = [at |-> 2, container |-> container, file |-> file, quiet |-> TRUE,
                    seen |-> [p \in {first} |-> Reading(p)]]
    /\ UNCHANGED <<database, file, clock, phase, container, pc, local, backup, operator,
                   recovered, acked, overtaken, cases, requests>>

(* What the scan has seen with its next read. *)
Seen == [p \in DOMAIN scan.seen \cup {ScanOrder[scan.at]} |->
            IF p = ScanOrder[scan.at] THEN Reading(p) ELSE scan.seen[p]]

Reports == scan # NoScan /\ Answers(scan.container) /\ scan.at = 3
Found == Findings(Seen["cases"].journal, Seen["cases"].status, Seen["knowledge"], Seen["audit"])

(* After the last read the scan reports what it found; a read that the session   *)
(* factory refuses ends it.                                                      *)
ScanRead ==
    /\ scan # NoScan
    /\ scan' = IF Answers(scan.container) /\ scan.at < 3
               THEN [scan EXCEPT !.at = @ + 1, !.seen = Seen]
               ELSE NoScan
    /\ UNCHANGED <<database, file, clock, phase, container, pc, local, backup, operator,
                   recovered, acked, overtaken, counters>>

------------------------------------------------------------------------------
(* close: the container counts as closed before its entry points and its session *)
(* factory refuse; what is under way goes on.  Entry points and factory are       *)
(* closed in one step: what a request may do between the two it may do before.   *)
Close ==
    /\ phase # "closed"
    /\ phase' = IF phase = "open" THEN "closing" ELSE "closed"
    /\ UNCHANGED <<database, file, clock, container, pc, local, scan, backup,
                   operator, recovered, acked, overtaken, counters>>

(* build_runtime_container, over the database that is there. *)
Reopen ==
    /\ phase = "closed" /\ operator = "idle" /\ container < MaxContainers
    /\ phase' = "open" /\ container' = container + 1
    /\ UNCHANGED <<database, file, clock, pc, local, scan, backup, operator,
                   recovered, acked, overtaken, counters>>

(* The process dies: what is not committed is gone. *)
Crash ==
    /\ disturbed < MaxDisturbances
    /\ disturbed' = disturbed + 1
    /\ phase' = "closed" /\ operator' = "idle" /\ scan' = NoScan
    /\ pc' = [w \in Worker |-> "idle"] /\ local' = [w \in Worker |-> Idle]
    /\ UNCHANGED <<database, file, clock, container, backup, recovered, acked, overtaken,
                   cases, requests>>

SetClockBack ==
    /\ disturbed < MaxDisturbances
    /\ disturbed' = disturbed + 1
    /\ clock' = clock - 1
    /\ UNCHANGED <<database, file, phase, container, pc, local, scan, backup, operator,
                   recovered, acked, overtaken, cases, requests>>

(* create_backup: a consistent snapshot, also while requests run. *)
CreateBackup ==
    /\ operator = "idle" /\ backup = None
    /\ backup' = [journal |-> journal, status |-> status, knowledge |-> knowledge, trail |-> trail]
    /\ UNCHANGED <<database, file, clock, phase, container, pc, local, scan, operator,
                   recovered, acked, overtaken, counters>>

\* Mutation: there is no recovery copy.
RestoreUnprotected ==
    /\ operator = "idle" /\ backup # None /\ disturbed < MaxDisturbances
    /\ phase # "open"
    /\ disturbed' = disturbed + 1
    /\ operator' = "replace"
    /\ UNCHANGED <<database, file, clock, phase, container, pc, local, scan, backup,
                   recovered, acked, overtaken, cases, requests>>
(* restore_backup asks that the container counts as closed, and keeps a copy of  *)
(* the database.                                                                 *)
Restore ==
    /\ operator = "idle" /\ backup # None /\ disturbed < MaxDisturbances
    /\ phase # "open"
    /\ disturbed' = disturbed + 1
    /\ operator' = "replace"
    /\ recovered' = recovered \cup trail
    /\ UNCHANGED <<database, file, clock, phase, container, pc, local, scan, backup,
                   acked, overtaken, cases, requests>>

(* os.replace, or a step that raises and leaves the database as it is. *)
Replace ==
    /\ operator = "replace"
    /\ operator' = "idle"
    /\ \/ /\ journal' = backup.journal /\ status' = backup.status
          /\ knowledge' = backup.knowledge /\ trail' = backup.trail
          /\ file' = file + 1 /\ Beside
          /\ UNCHANGED disturbed
       \/ /\ disturbed < MaxDisturbances /\ disturbed' = disturbed + 1
          /\ UNCHANGED <<database, file, scan>>
    /\ UNCHANGED <<clock, phase, container, pc, local, backup, recovered,
                   acked, overtaken, cases, requests>>

Next ==
    \/ CaseStep
    \/ \E w \in Worker :
         \/ \E d \in Diagnosis : Generate(w, d)
         \/ \E s \in Seed, actor \in Actor : Import(w, s, actor)
         \/ \E id \in Knowledge, action \in ReviewActions, actor \in Actor :
                Review(w, id, action, actor)
         \/ OpenSession(w) \/ Execute(w) \/ Commit(w) \/ WriteFails(w)
    \/ StartScan \/ ScanRead
    \/ Close \/ Reopen \/ Crash \/ SetClockBack
    \/ CreateBackup \/ Restore \/ Replace

Spec == Init /\ [][Next]_vars

------------------------------------------------------------------------------
(* A container counts as closed while requests are still under way, so a restore *)
(* may copy the database before they commit, or replace it before they write     *)
(* what they read.  Where no request was overtaken in this way:                  *)

(* Whatever requests race, whichever of them fail and whatever is restored: a    *)
(* candidate has one event for each of its versions, its reviews are one legal   *)
(* course of decisions, nobody decided on the seed they imported, and what was   *)
(* made from a diagnosis rests on the conclusion that was confirmed there.       *)
KnowledgeIsGoverned ==
    ~overtaken => \A id \in Knowledge : knowledge[id] # None =>
        LET k == knowledge[id]
            events == {x \in trail : x.entity = id}
        IN  /\ {x.version : x \in events} = 1..k.version /\ Cardinality(events) = k.version
            /\ k.version = Len(k.reviews) + 1 /\ HistoryFits(k)
            /\ k.source \in Seed =>
                 \A i \in DOMAIN k.reviews : k.reviews[i].reviewer # k.importer
            /\ k.source \in Diagnosis =>
                 LET entries == journal[k.source]
                 IN  /\ entries[Len(entries)].operation = "confirm"
                     /\ k.conclusion = Len(entries) - 1

(* A scan that nothing wrote beside finds nothing but the trace of a clock set   *)
(* back.  Beside writes it may name a source it read too early or an event it    *)
(* read too late, but never a gap or a double, which mean damage.  A restore in   *)
(* the middle of a scan is the one exception.                                    *)
ScansBlameOnlyDamage ==
    [][ScanRead /\ Reports /\ ~overtaken /\ scan.file = file =>
        /\ scan.quiet => Found \subseteq {"audit_version_out_of_order"}
        /\ "audit_version_out_of_order" \in Found => clock < MaxDisturbances
        /\ Found \cap {"duplicate_audit_version", "audit_version_gap"} = {}]_vars

(* What a caller was told of is in the database or in a copy kept by a restore.  *)
RestoreKeepsAcknowledged == overtaken \/ acked \subseteq trail \cup recovered
==============================================================================
