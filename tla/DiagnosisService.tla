--------------------------- MODULE DiagnosisService ---------------------------
(***************************************************************************)
(* SecurityDiagnosisApplicationService (application/diagnoses.py) over a   *)
(* case store with optimistic locking and an audit trail written in the    *)
(* same transaction (adapters/persistence, or the in-memory adapters).     *)
(*                                                                         *)
(* API handlers run on a thread pool, so several requests for one          *)
(* diagnosis are in flight at once.  A request reads the case, works on    *)
(* its private copy for as long as the model and the tools take, and       *)
(* writes the copy back if the stored version is still the one it read.    *)
(* The process may stop at any point; with SQLite the committed rows       *)
(* survive.                                                                *)
(***************************************************************************)
EXTENDS DiagnosisCase

CONSTANTS
  Id,           \* diagnosis ids
  Worker,       \* request threads
  Outcome,      \* what ToolLoopRunner.run may come back with
  Backend,      \* "sqlite" or "memory" (config repository_mode)
  MaxRequests   \* bound on the requests of a behaviour

ASSUME BackendChoice == Backend \in {"sqlite", "memory"}
ASSUME RequestBound == MaxRequests \in Nat
ASSUME ConfidenceOfDrafts == \A o \in Outcome : o.confidence \in Confidence
ASSUME DraftsAreEvidence == \A o \in Outcome : o.drafts \subseteq Evidence
\* Drafts of one run that agree in content are one: a tool gives evidence of a type
\* of its own, always with the same reliability.
ASSUME DraftsDiffer ==
  \A o \in Outcome : \A a, b \in o.drafts : SameContent(a, b) => a = b

(***************************************************************************)
(* An outcome abstracts a ToolLoopResult:                                  *)
(*   stopped    cancellation_confirmed                                     *)
(*   drafts     the evidence drafts of the tools that succeeded            *)
(*   failures   "none", "capability" (only capability failures) or "device" *)
(*   concluded  ok, with a final conclusion, of the remaining fields       *)
(*   fault, confidence, cited                                              *)
(*   conflict   its candidate label contradicts the deterministic rules    *)
(***************************************************************************)

VARIABLES
  cases,      \* diagnosis_cases rows; version 0: no row
  audit,      \* audit_events rows per diagnosis, in commit order
  pc,         \* what each worker is doing
  request,    \* its request: number, id, action, case read, case to write
  answer,     \* the answer its last request got
  supported,  \* fault types this runtime was assembled for
  started     \* requests accepted so far

vars == <<cases, audit, pc, request, answer, supported, started>>

\* Mutation: a case that waits for its reviewer can be run again.
RunnableUntilClosed == {"created", "waiting_for_input", "waiting_for_confirmation"}
RunnableStatuses == {"created", "waiting_for_input"}
Actions == {"create", "run"} \cup ReviewActions

Request == [number : Nat, id : Id, action : Actions, read : Case, write : Case]
Event   == [number : Nat, action : Actions, previousState : Statuses \cup {"none"},
            currentState : Statuses, previousVersion : Nat, currentVersion : Nat]
Answer  == [number : Nat, kind : {"none", "ok", "refused", "conflict", "error"},
            status : Statuses \cup {"none"}, version : Nat]

NoRequest == [number |-> 0]   \* an idle thread
NoAnswer  == [number |-> 0, kind |-> "none", status |-> "none", version |-> 0]

\* The answer to request n that shows case c.
Shows(n, c) == [number |-> n, kind |-> "ok", status |-> c.status, version |-> c.version]
Failed(n, kind) == [number |-> n, kind |-> kind, status |-> "none", version |-> 0]

TypeOK ==
  /\ cases \in [Id -> Case]
  /\ audit \in [Id -> Seq(Event)]
  /\ pc \in [Worker -> {"idle", "running", "writing", "reading_back"}]
  /\ request \in [Worker -> Request \cup {NoRequest}]
  /\ \A w \in Worker : pc[w] # "idle" => request[w] \in Request
  /\ answer \in [Worker -> Answer]
  /\ supported \in SUBSET FaultType
  /\ started \in 0..MaxRequests

AllIdle(pcs, requests) ==
  /\ pcs = [w \in Worker |-> "idle"]
  /\ requests = [w \in Worker |-> NoRequest]

Init ==
  /\ cases = [i \in Id |-> NewCase(NoFault)]
  /\ audit = [i \in Id |-> <<>>]
  /\ AllIdle(pc, request)
  /\ answer = [w \in Worker |-> NoAnswer]
  /\ supported \in SUBSET FaultType
  /\ started = 0

-----------------------------------------------------------------------------
\* Mutation: the capability gate is gone.
AnyFaultType(fault) == TRUE
\* ensure_fault_type_supported
Supports(fault) == fault \in supported

\* A request arrives at an idle worker; `read` is the copy it got from the
\* repository and `write` what it has made of it so far.
Accept(w, i, action, read, write, next) ==
  /\ pc[w] = "idle"
  /\ started < MaxRequests
  /\ started' = started + 1
  /\ request' = [request EXCEPT ![w] =
       [number |-> started + 1, id |-> i, action |-> action, read |-> read, write |-> write]]
  /\ pc' = [pc EXCEPT ![w] = next]
  /\ answer' = [answer EXCEPT ![w] = NoAnswer]
  /\ UNCHANGED <<cases, audit, supported>>

\* A request that ends before it would write: the gates of create and run, and
\* whatever apply_human_review raises.
Refuse(w, i) ==
  /\ pc[w] = "idle"
  /\ started < MaxRequests
  /\ \/ cases[i].version = 0   \* no such diagnosis, or create with an unsupported type
     \/ cases[i].version > 0 /\ cases[i].status \notin RunnableStatuses
     \/ cases[i].version > 0 /\ ~ Supports(cases[i].fault)
     \/ cases[i].version > 0 /\ \E a \in ReviewActions : ~ CanReview(cases[i], a)
  /\ started' = started + 1
  /\ answer' = [answer EXCEPT ![w] = Failed(started + 1, "refused")]
  /\ UNCHANGED <<cases, audit, pc, request, supported>>

\* create_diagnosis, up to its insert.  The id is a fresh uuid.
StartCreate(w, i, fault) ==
  /\ Supports(fault)
  /\ cases[i].version = 0
  /\ \A v \in Worker : pc[v] # "idle" => request[v].id # i
  /\ Accept(w, i, "create", NewCase(fault), NewCase(fault), "writing")

\* run_diagnosis, up to the call of the runner.  The stored status stays what it
\* was: investigating is a state of the private copy.
StartRun(w, i) ==
  /\ cases[i].version > 0
  /\ cases[i].status \in RunnableStatuses
  /\ Supports(cases[i].fault)
  /\ CanTransition(cases[i].status, "investigating")
  /\ Accept(w, i, "run", cases[i], [cases[i] EXCEPT !.status = "investigating"], "running")

\* review_diagnosis, up to its write.
StartReview(w, i, action) ==
  /\ cases[i].version > 0
  /\ CanReview(cases[i], action)
  /\ Accept(w, i, action, cases[i], ApplyReview(cases[i], action), "writing")

\* The request is over; what the thread held is gone.
Finish(w, reply) ==
  /\ pc' = [pc EXCEPT ![w] = "idle"]
  /\ request' = [request EXCEPT ![w] = NoRequest]
  /\ answer' = [answer EXCEPT ![w] = reply]
  /\ UNCHANGED <<supported, started>>

Respond(w, reply) == Finish(w, reply) /\ UNCHANGED <<cases, audit>>

-----------------------------------------------------------------------------
\* A run whose private copy becomes `c` and is to be written.
WriteBack(w, c) ==
  /\ request' = [request EXCEPT ![w].write = c]
  /\ pc' = [pc EXCEPT ![w] = "writing"]
  /\ UNCHANGED <<cases, audit, answer, supported, started>>

\* _finish_failure: evidence is kept, the conclusion is not touched.
EndRun(w, evidence, status) ==
  /\ CanTransition(request[w].write.status, status)
  /\ WriteBack(w, [request[w].write EXCEPT !.evidence = evidence, !.status = status])

\* The model can only know ids that exist before the run lands its own drafts;
\* anything else it cites is no evidence of any case.
Citable(w, out) ==
  \A e \in out.cited : e \in request[w].read.evidence \/ \A o \in Outcome : e \notin o.drafts

Landed(w, out) == AddEvidence(request[w].write.evidence, out.drafts)

\* Mutation: this early return forgets the status.
LeaveInvestigating(w, out) == ~ out.stopped /\ WriteBack(w, request[w].write)
\* The runner cannot vouch that the device calls have stopped: nothing is landed.
RunUnstopped(w, out) ==
  /\ ~ out.stopped
  /\ EndRun(w, request[w].write.evidence, "waiting_for_input")

\* Device calls failed and the case has no evidence at all, from this run or
\* from an earlier one.
Degraded(w, out) == out.failures # "none" /\ Landed(w, out) = {}

RunDegraded(w, out) ==
  /\ out.stopped
  /\ Degraded(w, out)
  /\ EndRun(w, Landed(w, out),
            IF out.failures = "capability" THEN "inconclusive" ELSE "waiting_for_input")

RunUnfinished(w, out) ==
  /\ out.stopped
  /\ ~ Degraded(w, out)
  /\ ~ out.concluded
  /\ EndRun(w, Landed(w, out), "waiting_for_input")

\* A conclusion came back.  It is refused when there is nothing to cite, when its
\* label contradicts the rules, or by the citation policy.
RunInconclusive(w, out) ==
  /\ out.stopped /\ out.concluded /\ ~ Degraded(w, out) /\ Citable(w, out)
  /\ \E r \in Repairs(Landed(w, out), out.cited, out.confidence) :
       \/ r.cited = {}
       \/ out.conflict
       \/ /\ out.fault = request[w].write.fault
          /\ ~ PolicyAccepts(Landed(w, out), r.cited, r.confidence)
  /\ EndRun(w, Landed(w, out), "inconclusive")

\* The conclusion is of another fault type: ConclusionFaultTypeMismatch is no
\* CitationPolicyViolation, escapes the handler, and nothing is written.
RunMismatched(w, out) ==
  /\ out.stopped /\ out.concluded /\ ~ Degraded(w, out) /\ Citable(w, out)
  /\ ~ out.conflict
  /\ Landed(w, out) # {}
  /\ out.fault # request[w].write.fault
  /\ Respond(w, Failed(request[w].number, "error"))

\* set_conclusion, and the case waits for a human.
RunConcluded(w, out) ==
  /\ out.stopped /\ out.concluded /\ ~ Degraded(w, out) /\ Citable(w, out)
  /\ ~ out.conflict
  /\ out.fault = request[w].write.fault
  /\ \E r \in Repairs(Landed(w, out), out.cited, out.confidence) :
       LET conclusion == [id |-> request[w].read.version + 1, fault |-> out.fault,
                          confidence |-> r.confidence, cited |-> r.cited]
           concluding == [request[w].write EXCEPT !.evidence = Landed(w, out)]
       IN  /\ PolicyAccepts(Landed(w, out), r.cited, r.confidence)
           /\ CanConclude(concluding, conclusion)
           /\ CanTransition(concluding.status, "waiting_for_confirmation")
           /\ WriteBack(w, [concluding EXCEPT !.conclusion = conclusion,
                                              !.status = "waiting_for_confirmation"])

FinishRun(w, out) ==
  /\ pc[w] = "running"
  /\ \/ RunUnstopped(w, out)
     \/ RunDegraded(w, out)
     \/ RunUnfinished(w, out)
     \/ RunInconclusive(w, out)
     \/ RunMismatched(w, out)
     \/ RunConcluded(w, out)

-----------------------------------------------------------------------------
\* _build_audit_event, for the version the write would produce.
AuditEvent(r) ==
  [number |-> r.number, action |-> r.action,
   previousState |-> IF r.action = "create" THEN "none" ELSE r.read.status,
   currentState |-> r.write.status,
   previousVersion |-> r.read.version, currentVersion |-> r.read.version + 1]

\* Mutation: WHERE diagnosis_id = ? only.
AnyVersion(r) == r.action = "create" => cases[r.id].version = 0
\* The compare-and-set: WHERE diagnosis_id = ? AND version = ?.  For an insert
\* the primary key plays that part: there is no row yet.
Current(r) == cases[r.id].version = r.read.version

Saved(r) == [r.write EXCEPT !.version = r.read.version + 1]

\* One transaction writes the case and its audit event.  The SQLite adapter then
\* reads an updated row back in a transaction of its own; an inserted row, and
\* every row of the in-memory adapter, is answered from the write itself.
Commit(w) ==
  LET r == request[w] IN
  /\ pc[w] = "writing"
  /\ Current(r)
  /\ WellFormed(r.write)
  /\ cases' = [cases EXCEPT ![r.id] = Saved(r)]
  /\ audit' = [audit EXCEPT ![r.id] = Append(@, AuditEvent(r))]
  /\ IF Backend = "sqlite" /\ r.action # "create"
     THEN /\ pc' = [pc EXCEPT ![w] = "reading_back"]
          /\ UNCHANGED <<request, answer, supported, started>>
     ELSE Finish(w, Shows(r.number, Saved(r)))

\* Mutations: the conflict is swallowed; the loser waits for its version to come back.
SwallowConflict(w) ==
  /\ pc[w] = "writing"
  /\ ~ Current(request[w])
  /\ Respond(w, Shows(request[w].number, Saved(request[w])))
WaitForVersion(w) == FALSE
\* Another request has written since: ConcurrentUpdateError, and no retry.
Conflict(w) ==
  /\ pc[w] = "writing"
  /\ ~ Current(request[w])
  /\ Respond(w, Failed(request[w].number, "conflict"))

\* Nothing of the request is written: the audit event exceeds a limit of its fields
\* and is not even built, or a database error before the commit is through rolls
\* the transaction back.
WriteFails(w) ==
  /\ pc[w] = "writing"
  /\ Respond(w, Failed(request[w].number, "error"))

ReadBack(w) ==
  /\ pc[w] = "reading_back"
  /\ Respond(w, Shows(request[w].number, cases[request[w].id]))

\* The write is durable, the answer is an error.
ReadBackFails(w) ==
  /\ pc[w] = "reading_back"
  /\ Respond(w, Failed(request[w].number, "error"))

\* The process stops and a new runtime, perhaps with other capabilities, opens the
\* same database.  (A restarted in-memory runtime is an initial state.)
Restart(capabilities) ==
  /\ Backend = "sqlite"
  /\ AllIdle(pc', request')
  /\ answer' = [w \in Worker |-> NoAnswer]
  /\ supported' = capabilities
  /\ UNCHANGED <<cases, audit, started>>

-----------------------------------------------------------------------------
Start(w) ==
  \E i \in Id :
    \/ \E f \in FaultType : StartCreate(w, i, f)
    \/ StartRun(w, i)
    \/ \E a \in ReviewActions : StartReview(w, i, a)
    \/ Refuse(w, i)

Proceed(w) ==
  \/ \E out \in Outcome : FinishRun(w, out)
  \/ Commit(w)
  \/ Conflict(w)
  \/ ReadBack(w)

Next ==
  \/ \E w \in Worker : Start(w) \/ Proceed(w) \/ WriteFails(w) \/ ReadBackFails(w)
  \/ \E s \in SUBSET FaultType : Restart(s)

Spec == Init /\ [][Next]_vars

\* A handler thread that was started runs on: the runner's deadline bounds the
\* model and the tools, and database calls return.  Failures are never assumed.
FairSpec == Spec /\ \A w \in Worker : WF_vars(Proceed(w))

-----------------------------------------------------------------------------
\* Each stored version of a diagnosis has exactly one audit event, which says from
\* which state and version to which it went; no two requests interleave into a
\* gap, a duplicate or a trail that ends elsewhere than the case
\* (audited_write.py:38-76, diagnoses.py:690-723).
AuditMatchesCase ==
  \A i \in Id :
    /\ Len(audit[i]) = cases[i].version
    /\ \A k \in DOMAIN audit[i] :
         /\ audit[i][k].currentVersion = k
         /\ audit[i][k].previousVersion = k - 1
         /\ audit[i][k].previousState = IF k = 1 THEN "none" ELSE audit[i][k - 1].currentState
    /\ audit[i] # <<>> => cases[i].status = audit[i][Len(audit[i])].currentState

ReviewedVersions(trail) == {k \in DOMAIN trail : trail[k].action \in ReviewActions}

\* No human review is lost or invented: the reviews of the case are the audited
\* review operations, in their order, while runs that read the case before them
\* are still writing (case.py:189-215).
ReviewsMatchAudit ==
  \A i \in Id :
    LET reviewed == ReviewedVersions(audit[i]) IN
    /\ Len(cases[i].reviews) = Cardinality(reviewed)
    /\ \A k \in reviewed :
         cases[i].reviews[Cardinality(reviewed \cap (1..k))] = audit[i][k].action

\* What waits for confirmation is the conclusion of the run that put the case
\* there, and what was confirmed is the one offered just before, never one that
\* an earlier run left on a case that was sent back (case.py:198-206).
OfferedConclusion ==
  \A i \in Id :
    /\ cases[i].status = "waiting_for_confirmation" => cases[i].conclusion.id = cases[i].version
    /\ cases[i].status = "confirmed" =>
         /\ cases[i].conclusion.id = cases[i].version - 1
         /\ audit[i][cases[i].version - 1].action = "run"

\* Whatever reruns added since, a stored conclusion is of the fault type of the
\* case, cites evidence the case holds, and is probable only on two kinds of
\* device facts, none of them of low reliability (citation_policy.py:69-138).
ConclusionSupported ==
  \A i \in Id : LET c == cases[i] IN
    c.conclusion # NoConclusion =>
      /\ c.conclusion.fault = c.fault
      /\ c.conclusion.cited # {} /\ c.conclusion.cited \subseteq c.evidence
      /\ c.conclusion.confidence = "probable" =>
           \E a, b \in c.conclusion.cited :
             a.type # b.type /\ SolidFact(a) /\ SolidFact(b)

\* Nothing half done is ever stored, so a restart finds each diagnosis runnable,
\* waiting for a human, or closed (diagnoses.py:398 advances the copy only), and
\* the validation at the write never rejects what the service has computed.
NothingHalfDone ==
  /\ \A i \in Id : cases[i].status # "investigating" /\ WellFormed(cases[i])
  /\ \A w \in Worker : pc[w] = "writing" =>
       request[w].write.status # "investigating" /\ WellFormed(request[w].write)

EventsOf(n) == UNION {{i} \X {k \in DOMAIN audit[i] : audit[i][k].number = n} : i \in Id}

\* An answer tells the truth: "ok" means that the write of this very request is in
\* the trail, at or before the version shown, and the status shown is the one that
\* version left; a refusal or a conflict means that it wrote nothing
\* (diagnoses.py:541-570, 618-633).
AnswersAreTrue ==
  \A w \in Worker : LET a == answer[w] IN
    /\ a.kind = "ok" => \E e \in EventsOf(a.number) :
         e[2] <= a.version /\ a.status = audit[e[1]][a.version].currentState
    /\ a.kind \in {"refused", "conflict"} => EventsOf(a.number) = {}

\* An update answers with the version it wrote.
AnswersShowOwnWrite ==
  \A w \in Worker : answer[w].kind = "ok" =>
    \A e \in EventsOf(answer[w].number) : answer[w].version = e[2]

\* A closed diagnosis is never written again, whatever was in flight when it closed
\* (case.py:27-33, 195).
ClosedIsFinal ==
  [][\A i \in Id : cases[i].status \in TerminalStatuses => cases'[i] = cases[i]]_vars

\* Evidence and reviews are never dropped: a write adds to what was stored when it
\* commits, not to what it read, and advances the version by one (case.py:90-92).
NothingIsLost ==
  [][\A i \in Id : cases'[i] # cases[i] =>
       /\ cases'[i].version = cases[i].version + 1
       /\ cases[i].evidence \subseteq cases'[i].evidence
       /\ Len(cases[i].reviews) <= Len(cases'[i].reviews)
       /\ SubSeq(cases'[i].reviews, 1, Len(cases[i].reviews)) = cases[i].reviews]_vars

\* Nothing of an unsupported fault type is created or run, though diagnoses an
\* earlier runtime accepted are still in the database (diagnoses.py:394-396).
OnlySupportedRuns ==
  [][\A i \in Id : audit'[i] # audit[i] =>
       LET e == audit'[i][Len(audit'[i])]
       IN  e.action \in {"create", "run"} => cases'[i].fault \in supported]_vars

\* Every accepted request is answered, or the process stops.
EveryRequestEnds == \A w \in Worker : pc[w] # "idle" ~> pc[w] = "idle"

\* To its readers the service is a journal of finished operations per diagnosis.
JournalOf(trail) ==
  [k \in DOMAIN trail |-> [operation |-> trail[k].action, left |-> trail[k].currentState]]
StatusOf(c) == IF c.version = 0 THEN "absent" ELSE c.status
Lifecycle == INSTANCE DiagnosisLifecycle WITH
  journal <- [i \in Id |-> JournalOf(audit[i])],
  status <- [i \in Id |-> StatusOf(cases[i])]

\* The store implements the lifecycle: each commit is one operation of
\* DiagnosisLifecycle, allowed in the state the diagnosis is in when it commits.
ImplementsLifecycle == Lifecycle!Spec
=============================================================================
