# Formal model of the security device diagnosis harness

TLA+ modules, TLC runs and TLAPS proofs about `security_diagnosis_harness`, the
service under `src/src/security_diagnosis_harness` that opens a diagnosis for a
faulty security device, lets a model drive read-only device tools within a budget,
turns what they report into evidence, and offers a conclusion that only a human may
confirm. Paths below are relative to that package unless they start with `src/`.

Contents: [inventory](#inventory) - [plan](#plan) - [modules](#modules) -
[runs](#runs) - [bounds and fairness](#bounds-and-fairness) - [proofs](#proofs) -
[only model-checked](#only-model-checked) - [not modelled](#not-modelled).

## Inventory

| Component | State | Operations | Talks to | Hard behaviour | What makes it correct |
|---|---|---|---|---|---|
| Diagnosis aggregate (`domain/case.py`, `review.py`, `conclusion.py`, `evidence.py`) | one case: status, evidence, conclusion, reviews, version | `transition_to`, `add_evidence`, `set_conclusion`, `apply_human_review` | called by the application service, revalidated by the store | evidence is deduplicated by a hash without reliability; a conclusion outlives the run that made it | only a human confirms; a closed case stays closed; what is confirmed is what was offered |
| Citation policy and repair (`domain/citation_policy.py`, `application/diagnoses.py:158-298`) | none | `validate`, `repair_cited_evidence_ids` | service, model output | two thresholds (repair and policy) that must agree | no probable conclusion on fewer than two kinds of solid device facts; repair adds and drops no more than needed |
| Application service (`application/diagnoses.py`) | none of its own between requests; a private copy of the case within one | `create_diagnosis`, `run_diagnosis`, `review_diagnosis` | store, audit, tool loop, rules | handlers run on a thread pool; a run holds its copy for as long as model and tools take | no lost update, one audit event per version, a controlled end for each way a run can go |
| Persistence (`adapters/persistence/*`, `adapters/*_in_memory.py`, `application/repository.py`) | case rows, knowledge rows, audit rows | insert, compare-and-set update, get, list, append | SQLite or memory | a crash between statements, a failed commit, a read after the commit in another transaction | case and event in one transaction; an overtaken writer is told |
| HTTP API (`api/*`) | none | create, run, review, report, knowledge routes | service | concurrent calls, mapping of errors | the answer says what happened |
| Tool loop (`agent/runner.py`) | one run: rounds, calls, deadline, observed drafts | model turn, tool call, cancellation | model adapter, tool registry, cancellation token | a call that is answered after its deadline | budgets hold; late answers add nothing |
| Device tools (`tools/*`) | none | one read-only query each | device gateway | many kinds of failure | a failure is never a fact |
| Device authorization (`device_authorization.py`) | manifest, budget, session | preflight, consume, rotate, close | routed gateway, runtime | calls in flight while the session is rotated or closed | nothing outside the manifest, never over budget, nothing after close |
| Device gateway (`adapters/device_gateway/*`) | adapter registry, readiness | one query per capability | authorization, adapters | budget consumed before readiness is known | a query reaches exactly the adapter that declared the capability |
| Runtime (`runtime.py`, `bootstrap/container.py`, `application/runtime_capabilities.py`) | lifecycle, proxies, derived capabilities | build, close, snapshot | everything | a proxy used after close, close while in use | closed means closed for every handle given out |
| Knowledge governance (`application/knowledge_*.py`, `domain/knowledge.py`) | knowledge candidates, version, review history | generate, import seed, review | diagnosis store, audit | two imports of one seed; two reviewers; a source that goes on after the candidate was read from it | one event per version; reviewed by somebody else than the importer; rests on the confirmed conclusion |
| Knowledge retrieval (`application/hybrid_knowledge_retriever.py`, `adapters/embedding/http_bge.py`) | a cache of document vectors | search by words, by likeness, by both | embedding service, knowledge store | the service answers for the query and fails for the documents; a batch that is too large | only confirmed knowledge of the fault, best first; falls back to words and recovers |
| Diagnosis rules (`application/*_diagnosis_rules.py`, `evidence_resolution.py`) | none | infer a label | service | which of two contradicting facts counts | deterministic, independent of landing order where promised |
| Consistency scan (`application/consistency.py`) | none | `scan` | the three stores | reads that are not one snapshot | no finding on a healthy store, one on each damage |
| Backup (`adapters/persistence/backup.py`) | database files | backup, restore, verify | file system, runtime | a runtime that counts as closed while requests are under way | what a caller was told of is in the database or in the copy a restore keeps |
| Evaluation history (`evaluation/history.py`, `shadow_history.py`) | history file, pending slot, head file, locks; the shadow history is one file | append, load, recover | file system | a crash between the files, two processes, an old document put back | an append happens or does not; nothing old is answered |
| Evaluation grader and gate (`evaluation/grader.py`, `gate.py`, `attribution.py`) | none; runs arrive as files | grade, compare, attribute | history | a run edited after it was graded; a proof of confirmation that travels with the output | an unsafe output never passes; edits move nothing |
| Evaluation datasets (`evaluation/release.py`, `annotation.py`, `dataset.py`) | release directories, attestations | annotate, adjudicate, publish, verify | file system | publishers race; files edited between two reads | every case was admitted by three persons; a version is never overwritten |
| Device adapters (`adapters/device_gateway/static.py`, `simulator.py`, ...) | a data file; traces of simulated calls | one query per operation | tools, scenarios | a call that is told to succeed and fails behind | traces say what happened |
| Redaction, reports, model adapters, observability, scripts | none or counters | | | text patterns and I/O | |

How they interact: an HTTP handler calls the application service on a worker
thread; the service reads the case from the store, calls the tool loop (which calls
the model and, through authorization and routing, the devices), lands the drafts as
evidence, repairs and validates the citations, and hands case and audit event to the
audited writer, which commits both or neither. There is no lock above the store: the
version of the row is the only thing that keeps two handlers apart.

Knowledge is made from confirmed diagnoses or imported, reviewed through the same audited
writer, and found again by the knowledge tool of later runs. The consistency scan reads
the three stores without a transaction around them. A container owns the engine of the
database; a restore replaces the file under it once the container says it is closed. The
evaluation runs the containers of `bootstrap/container.py` with a scripted model over a
gateway that answers from a file, grades what comes out, compares it with the run before
it in the gate, and keeps the verdicts in a history.

The behaviours that are hard to test are listed, at their lines, under `hazards` in
`PROJECT.json`, with the properties that would catch each.

## Plan

In the order of what matters most to a user of the system; done items are described
under [modules](#modules).

1. **Diagnosis service** over store and audit trail, its abstract lifecycle, and the
   citation rules (done, proved).
2. **Citation repair** over lists against the set-level rules (done, proved).
3. **Tool loop** over the device tools (done, proved).
4. **Routed gateway** over device authorization (done, proved).
5. **Knowledge governance** over the same store discipline and the diagnosis lifecycle,
   with the **consistency scan**, **backup and restore**, and the **lifecycle of the
   runtime container** they depend on (done, proved).
6. **Evaluation history** with crashes between its files, refining an append-only log,
   (done, proved), and the shadow history (done, proved).
7. **Grader, gate, attribution** and **dataset releases** (done, proved).
8. **Diagnosis rules** and **runtime assembly** (done, proved), **scripted runs** over the
   static and the simulated gateway, and **knowledge retrieval** (done, proved but for
   the scripted runs).
9. Proofs left: `ScriptedRunsAddUp`, and a search over any number of items with the bound
   on what fusion may reorder.
10. The harness for real models (`evaluation/real_model.py`) and the ONVIF adapter's
    retries, of which only what reaches the tools is modelled now.

## Modules

| Module | Models | Kind |
|---|---|---|
| `Citation` | evidence items, deduplication, the citation policy, and the repair as the set of picks it may make | operators |
| `CitationRepair` | the repair as the code walks the lists | operators |
| `MCCitationRepair` | builds evidence lists, proposes citations, checks the repair | TLC |
| `DiagnosisCase` | the aggregate: statuses, transitions, conclusion, reviews | operators on records |
| `DiagnosisLifecycle` | abstract: each diagnosis is a journal of atomic operations | abstract specification |
| `DiagnosisService` | create, run and review as read - compute - commit - read back, over store and audit trail | specification |
| `DiagnosisServiceProofs` | the theorems of the service | TLAPS |
| `MCDiagnosisService` | instances of the service | TLC |
| `DeviceTools` | the twenty read-only tools, how the registry executes one, what a failure becomes | operators |
| `ToolLoop` | one run of the tool loop against a model that may answer anything | specification |
| `ToolLoopProofs` | the theorems of the loop | TLAPS |
| `MCToolLoop` | four tools, six responses, small budgets | TLC |
| `DeviceAuthorization` | manifest, budget, preflight | operators |
| `RoutedGateway` | concurrent device calls over the shared session and the adapter registry | specification |
| `RoutedGatewayProofs` | the theorems of gateway and session | TLAPS |
| `MCRoutedGateway` | two threads, small catalogs and manifests | TLC |
| `KnowledgeBase` | a knowledge candidate, its sources and reviews, and the findings of the consistency scan | operators |
| `KnowledgeGovernance` | requests, scan, backup, restore and runtime container over one database | specification |
| `KnowledgeGovernanceProofs` | the theorems of governance, scan and restore | TLAPS |
| `MCKnowledgeGovernance` | one diagnosis, one seed, two persons | TLC |
| `EvaluationTrend` | records of an evaluation history: what may be appended, what a document must be, what trends compare | operators |
| `AppendLog` | abstract: a log per history | abstract specification |
| `EvaluationHistory` | document, pending slot, head file and locks, step by step | specification |
| `EvaluationHistoryProofs` | the theorems of the history, and that it implements its log | TLAPS |
| `MCEvaluationHistory` | two processes, two histories | TLC |
| `EvaluationGrader` | a graded case and suite: findings, metrics, proofs of confirmation | operators |
| `EvaluationGate` | consistency of a graded run, the release gate, attribution of findings | operators |
| `GradedRuns` | versions that depart from good outputs, are graded, edited and submitted | specification |
| `ShadowHistory` | the history of simulator runs and its gate | specification |
| `EvaluationProofs` | the theorems of graded runs and of the shadow history | TLAPS |
| `DatasetRelease` | blind annotation, additions, and publishers of dataset versions | specification |
| `DatasetReleaseProofs` | the theorems of the releases | TLAPS |
| `MCEvaluation` | graded runs, shadow history and releases, a behaviour being of one of them | TLC |
| `DiagnosisRules` | which report of a fact decides, and the label the facts of each fault lead to | operators |
| `RuntimeAssembly` | what a build derives from assets, adapters, registry and authorization | operators |
| `ScriptedRun` | the containers of the evaluations: a scripted run over the static gateway and the simulator | operators |
| `KnowledgeRetrieval` | the three searches, their fusion, cache and fallback | operators |
| `MCConclusions` | what a conclusion rests on, one scene per kind of input | TLC |
| `ConclusionsProofs` | the theorems of the scenes | TLAPS |

`ToolLoop` and `RoutedGateway` both extend `DeviceTools`: what a query of the gateway
may raise (`GatewayErrors`) is the interface between them. `DiagnosisService` takes the
result of a loop as an input (`Outcome`); `ScriptedRun` computes it from the results of
real tools for the scripts the repository has, with the operators of `DeviceTools` and
`CitationRepair`. The diagnoses of `KnowledgeGovernance` are steps of
`DiagnosisLifecycle`, which `DiagnosisService` is proved to implement. `EvaluationHistory`
and `AppendLog` share `EvaluationTrend`; `GradedRuns` checks that the verdict of the gate
is the one `EvaluationTrend` recomputes from a stored summary.

**State of `DiagnosisService` and the code.** `cases` are the rows of
`diagnosis_cases` (version 0 stands for no row) and `audit` the rows of
`audit_events`, per diagnosis and in commit order. A worker is a thread that serves
one HTTP request: `pc` is where it is, `request` its local variables (the copy it
read, the copy it will write) and `answer` what its last request was told.
`supported` are the fault types the running process was assembled for.

**Actions and the code.** `StartCreate`, `StartRun` and `StartReview` are the three
methods up to the point where they wait (for the runner) or write; all gates before
that are their guards, and `Refuse` is the request that fails one of them.
`FinishRun` is everything `run_diagnosis` does with the result of the runner, one
disjunct per way out: the runner cannot vouch that calls have stopped, all device
calls failed, the loop did not finish, the conclusion is refused (nothing to cite,
label contradicts the rules, policy), the conclusion is of another fault type (an
exception no handler catches), and the conclusion is set. `Commit` is the transaction
of `audited_write.py`: compare-and-set of the case and insert of the event.
`Conflict` is its zero-row outcome, `WriteFails` each failure that leaves nothing
behind (a database error, or an audit event that its own field limits reject),
`ReadBack` the `session.get` after the commit, which in SQLite is a new transaction,
`ReadBackFails` its failure. `Restart` stops the process: threads are gone, rows stay.

**Abstractions.** Evidence is a record of type, reliability and content; the hash is
`SameContent`. The runner's result is an `Outcome`, one record per combination the
service can tell apart. A conclusion's id is the version its run writes, which is
unique per case. Texts, timestamps, metadata and redaction are left out. The choice
of which fact the repair adds is left open in `Citation!Repairs`; `CitationRepair` is
the deterministic walk and `RepairIsAnAllowedPick` ties the two.

**Abstract specification.** `DiagnosisLifecycle` knows no versions, copies or threads:
an operation appends itself and the state it left to the journal of a diagnosis, if
the state it is in allows it. `ImplementsLifecycle` maps the journal to the audit
trail and the status to the row.

**`ToolLoop` and the code.** `stage` is the place in `ToolLoopRunner.run`: before the
gate on participants, at the head of a round, waiting for the model, choosing the next
call of a response, waiting for a tool, ended. `asked` are the calls of all responses
so far, `calls` is `tool_calls_used`, `results` are `tool_results` with the gateway's
answer beside each. `chars` is the length of the messages; a message is its size.
`AskModel`, `ModelAnswers`, `NextCall` and `ToolAnswers` are the loop between two
points where it waits, with one disjunct per way out in the order of the code. Time
passes by `Tick` only, while anything waits. A tool (`DeviceTools`) is a record of what
tells tools apart: operation, evidence type and reliability, permission, whether it
classifies exceptions, and what it does when a search finds nothing.

**`RoutedGateway` and the code.** A thread takes four steps, with nothing locked between
them: catalog lookup and capability check (`StartCall`), `authorize` under the lock of
the session, `get_ready` under the lock of the registry, the adapter's answer. `Rotate`,
`Close`, `Register`, `Mark` and `Tick` come at any point between. `grants` and
`manifests` are history: which calls were authorized, in which batch and when, what
became of them, and the manifest of each batch. A manifest is its scope, window and
budgets; the reason of a denial is not kept, since every denial ends the call.

**`KnowledgeGovernance` and the code.** `journal`, `status`, `knowledge` and `trail` are the
database under its path, `file` how often `os.replace` put another one there. A request
reads and computes (`Generate`, `Import`, `Review`), opens a session if the container is
still open (`OpenSession`, the closed-aware session factory), executes its compare-and-set
under SQLite's write lock (`Execute`) and commits case and event together (`Commit`), or
fails (`WriteFails`). `Close` is `RuntimeContainer.close`, which waits for nobody;
`Reopen` builds the next container; `Crash` stops the process with all its requests.
`ScanRead` is one of the three reads of the scan, the last of which reports. `Restore` is
`restore_backup` up to the copy it keeps of the database, `Replace` its `os.replace`.
`acked` (events whose callers were told) and `overtaken` (a request was committed past the
copy, or wrote what it had read from the file before) are history.

**`EvaluationHistory` and the code.** A history is a document, a `.pending` slot and a head.
Each thread walks `load` or `append` in the steps of the file operations: lock, read the
head, complete or drop a pending document, read, compute, stage, lock the head file, read
all heads, write all heads, move the slot. Between any two of them its process may die
(the locks of the operating system go with it, the files stay), a file operation may fail,
or somebody puts an old document back. A tag is the document it authenticates: nobody
without the key can make one. With `HeadStores` the head store is the file or the one in
memory, which forgets when the process dies.

**The evaluation.** `GradedRuns` lets each version depart from good outputs in a few of the
ways an output can be wrong (a tool not allowed, a leak, an exceeded budget, a claimed
confirmation with or without an aggregate, missing evidence ...), grades it with
`GradeSuite`, may edit the file of the graded run, and submits it to gate, history and
attribution. Rates are fractions of `Unit`, a number every denominator that occurs
divides, so that no rounding hides a difference. `ShadowHistory` writes through its one
temporary file. `DatasetRelease` reads, checks, attests, writes a directory, verifies it and
renames it, with other publishers, crashes and edits in between; a hash or HMAC is the
content it covers. The attestation of a version is signed later, by whoever holds the key
(`Sign`, `dataset_source_attestation_tag`), and a publication needs that of its source;
that nobody signs files somebody has edited is the trust the code places in the signer.

**`MCConclusions`.** Its scenes share no state; each lets TLC enumerate the inputs of one
pure part and compares what the code computes with a definition of its own: for the
labels, the facts no other outranks; for plans, the units of time in the window; for
runtimes, what each tool of a fault needs; for searches, what may be found at all and
what must come before what. In the scene of a scripted run the steps are the calls of the
script, each with the behaviour the scenario gives it and the answer of the file.

## Runs

| Run | Question | Result |
|---|---|---|
| `service` | three threads, one diagnosis, SQLite, failing writes, restarts: do case, trail, conclusion and answers stay consistent, and is every write one operation of the lifecycle? | holds |
| `service_restart` | other capabilities after a restart: are old diagnoses of unsupported types left alone? does every request end? | holds |
| `service_answers` | does an update answer with what it wrote? | violated: a later writer's version can be shown |
| `conclusions` | what a conclusion rests on: citations through repair and policy, facts through the rules, plans against windows, runtimes, scripted runs, searches | holds, with low-reliability facts as the one point where repair and policy disagree |
| `citation_unknown` | is a conclusion that cites unknown evidence refused? | violated: the repair drops the id first |
| `recording_overnight` | does a plan from evening to morning, every day, cover a window of one night? | violated: a range past midnight covers nothing |
| `tool_loop` | any model, calls that fail, are not allowed or come late, each budget running out: do calls, counts and results correspond, is evidence earned, does the run end? | holds |
| `tool_loop_timeouts` | does a timeout reach the result as a timeout, whichever tool met it? | violated by the tools that report text only |
| `routed_gateway` | two threads, a session fresh or partly spent, a rotation and a close at any point: does each batch keep to its own manifest, is a grant good for one call, does every call end? | holds |
| `evaluation_history` | two processes, failing file operations, crashes, old documents put back: is the history always readable, is no append lost, is it the append-only log it promises to be? | holds |
| `evaluation` | do edits move a verdict, can an unsafe output pass, are findings dated rightly? does a stopped append leave a readable shadow history? do releases hold only governed cases, and does who was told of success have the version? | holds |
| `governance` | is knowledge reviewed by somebody else than its importer and made of what was confirmed? does a scan beside writers blame only what it should? does a restore keep what was acknowledged? | holds, unless a request was in flight past the close |

`citation_unknown`: the learning documents say that the policy refuses a conclusion with
unknown evidence; `repair_cited_evidence_ids` runs before it and drops such ids
(`application/diagnoses.py:216-219`). `tool_loop_timeouts`: they say that a gateway
timeout becomes a stable `failure_kind`; fifteen of the nineteen device tools return the
text of the exception without one, so the service cannot see that a run of those tools
was cut off from its devices (`application/diagnoses.py:421-427`).

`service_answers` is a divergence between the code and its documentation:
`adapters/persistence/diagnosis_repository.py:91` and the acceptance table of Phase 6B-2
say that an update returns the version it wrote; both SQLite writers read the row
again after the commit. Two requests suffice: the first commits, the second reads,
commits, and the first then reads back. Nothing is lost by it, but the caller of a
review can be shown the status a later request left.

`recording_overnight`: the domain allows a range such as 22:00 to 06:00
(`domain/recording.py:83`), but `_plan_covers_window` adds up only ranges that end after
they begin (`application/recording_diagnosis_rules.py:235`). A recording that is missing
in the middle of a planned night is labelled as not planned. The same sum counts
overlapping ranges twice, so two ranges of the first half of a window can pass for the
whole of it; `PlanCoverageIsExact` is stated for plans without overlap.

`governance`, and what it does not promise. `RuntimeContainer.close` sets `_closed` first
and waits for no request (`runtime.py:712-724`), and `restore_backup` only asks for that
flag (`adapters/persistence/backup.py:92`). So a request that opened its session before
the close may commit after the restore has copied the database, and its acknowledged write
is neither in the database nor in the copy; or it may write what it read into the database
that was put in its place. `src/docs/04-validation/Phase 6C 验收标准.md:25` says that a
restore is refused while the runtime runs. The histories are those in which `overtaken`
becomes true; the properties are about all others, and `MCBounds` stops there.

What no run repeats because it is proved: the type invariants of the five specifications
with proofs, `OnlyDeclaredRun`, `GrantsAreInScope` and `OnlyRotationRefills`. The in-memory
backend of the service is covered by its proofs, where `Backend` is a constant of either
value; the runs use SQLite, which has more steps.

## Bounds and fairness

* `MaxRequests` bounds the requests of a behaviour (5 with three threads and one
  diagnosis; 3 or 4 elsewhere). Creation, a run, a review that sends the case back, a
  second run and a confirmation are five requests; a conflict needs two at a time, a
  stale read-back two, and a lost update would need two.
* One evidence item per role: two kinds of solid facts, a low-reliability report of
  the same content as one of them, and an id no case has. One outcome per way
  `run_diagnosis` can end, and per branch of the repair.
* Threads are symmetric; `Symmetry` is used only in the run without liveness.
* Fairness is weak fairness of what a thread does once its request was accepted
  (`Proceed`): the runner has a deadline, the database calls return. Nothing is assumed
  of requests arriving, of failures or of restarts.
* `tool_loop`: two rounds and three calls, so that a response of two and one of three
  calls exceed the call budget together and the round budget separately; sizes on either
  side of each limit; a clock that passes the deadline of two ticks while anything is
  under way. Tools of each way of reporting, one not allowed, one without permission,
  one made up.
* `routed_gateway`: three calls against budgets of one and two, with the budget fresh or
  partly spent, one rotation (a batch before and after it), a window that closes while
  calls are under way, a manifest of another environment and none at all, a device whose
  name is no alias, one that is disabled, an operation without a capability and one that
  cannot be routed.
* `conclusions`: all evidence lists of up to four out of six items and all citations of up
  to two ids (two missing types are the most the threshold asks for); up to three facts of
  a fault, each landing reliably or not, early or late, or once more with other content;
  plans of two ranges against windows of two days of four units, which have every way a
  range can meet a window and a day; two assets, three registries; every call of every
  script of the repository, with success, a timeout and a missing capability as what a
  scenario injects and every kind of answer of the file; knowledge bases of three items
  with a batch of two, so that one batch can be too small.
* `evaluation_history`: two requests and two faults over two histories. One append and one
  load or two appends meet at every step; a fault in the work of one and another in the
  recovery of it are two.
* `evaluation`: two departures from good outputs and one edit over three versions, so that a
  finding can be there, gone and back; four appends with two stops, so that one may leave
  its `.tmp` file for the next to fall over; two publications of two publishers over two
  new versions, with batches that are in order and one for each rule that refuses one, and
  two faults, so that a file can be edited and put back between two reads.
* `governance`: two requests, one step of a diagnosis, two containers and two
  disturbances (a scan, a restore, a crash, a failing step, a clock set back): a lost
  write needs a request and a restore, a false finding a scan and one writer.
* `ToolLoop` assumes weak fairness of the loop's own step: the code demands of model and
  tools that they bound their I/O. `RoutedGateway` assumes it of each thread's call, and
  `EvaluationHistory` of each thread's next step once its request began, except that a
  thread that waits for a lock goes on only when the lock is free. Nothing is assumed of
  the clock, of rotations, of adapter readiness, of faults or of requests arriving.
* `CHECK_DEADLOCK FALSE`: when the bounded requests are used up the system is idle.

## Proofs

`DiagnosisServiceProofs` proves for every set of diagnoses, threads, outcomes and
evidence, both backends and any bound on requests:

* `TypeCorrect`; `TrailMatchesCase` (`[]AuditMatchesCase`);
* `ClosedStaysClosed`, `StoreOnlyGrows` (action properties);
* `ConclusionsAreSupported`, `ConfirmedAsOffered`, `NothingHalfDoneIsStored`,
  `RunsAreSupported`;
* `ServiceImplementsLifecycle`.

The argument: only `Commit` writes, and it writes over the very version its request
read (`Current`). So what a request will write must be right *relative to the copy it
read*, as long as that copy is what is stored. This is `Copies`: the copy read is the
stored case unless its version has been overtaken (`FreshUnlessOvertaken`), a running
copy is that case in status investigating (`Running`), and a copy that waits to be
written is the result of one operation of the aggregate on it (`Computed`).
`CopyInv == TypeOK /\ Unstored /\ Copies` is inductive; no single property is: none
says anything of the private copies. On top of it `TrailOf` adds that the last event
describes the stored case and `ConclusionInv` that the stored and the offered
conclusions are supported, each of which is preserved because the computed copy has the
property relative to the read copy. The refinement follows from `Computed` step by step.

The assumptions are those of the modules: `Backend` is one of two, the bound is a
natural number, outcomes propose a confidence the schema knows and drafts that are
evidence, evidence records have their fields, `NoFault` is no fault type.

`ToolLoopProofs` proves, for every registry, model and budget: `TypeCorrect`,
`CallsAccounted`, `EvidenceEarned`, `DeclaredRun`, `NothingIsLate`. The counts of calls
are inductive together with the type invariant once the stage says how `calls`,
`results` and `asked` differ; the others follow step by step.

`RoutedGatewayProofs` proves, for every catalog, set of manifests, threads and bounds:
`TypeCorrect`, `BudgetsKept`, `GrantsInScope`, `BudgetCounted`, `RefillsOnlyByRotation`,
`ClosedGrantsNothing` and `GrantsAreUsedOnce`. What the budget says and what was granted are two different
things in the model, as they are in the system; the inductive invariant `IInv` ties them:
the budget of the running batch is the number of grants of that batch
(`BudgetCountsGrants`), in all and of each operation. With it the check of the preflight,
which looks at the budget only, bounds the grants. Grants of earlier batches do not
change (`GrantsAreNumbered`), and what is between its start and its end was routable
(`RoutedCalls`). `HistoryStep` reduces every action to one of three: grant, rotate, or
change nothing but what became of a grant. That a grant is good for one call (`OneCallPerGrant`)
is inductive by itself once the calls are typed: a thread holds the number its own grant
got, which no grant before it has, and gives it up in the step that settles the grant.
The assumptions are the shapes of catalog,
manifests and starting budget, and that bounds are natural numbers.

`DiagnosisServiceProofs` also proves `ReviewsAreAudited` (`[]ReviewsMatchAudit`) and
`AnswersTellTheTruth` (`[]AnswersAreTrue`). The first follows from `CopyInv` and `TrailOf`:
the copy that waits to be written has one review more exactly when its operation is a
review, and the place of that review is the number of reviews before it. The second needs
the numbers of requests. `Numbers` says that no event, no request under way and no answer
has a number that was not given out (`EventsNumbered`, `RequestsNumbered`,
`AnswersNumbered`), that a request that may still write has no event yet (`WritesOnce`), and
that one whose commit went through has its own at the version it wrote (`AnswersTold`).

`EvaluationHistoryProofs` proves, for every set of runs, histories, processes and threads,
both head stores and every kind of fault: `TypeCorrect`, `HistoryReadable`
(`[]AlwaysReadable`), `AnswersAreFresh` (`[]FreshAnswers`) and `HistoryImplementsLog`
(`ImplementsAppendLog`). The inductive invariant `IInv` follows the two locks. `LocksHeld`:
a thread between two file operations holds the lock of its history, and the one of the
head file while it saves. `Knows`: what it has in hand is then what the files say, and the
document it is about to put down is the loaded one (`Truth`) with its run appended.
`OnDisk`: a saved head is a document that can be loaded and drawn, and unless somebody put
an old document back, the document or the pending slot holds that head. `Remembers`: what
callers were told of is a prefix of the `Truth`, as is what each request found when it
began. `Valid` documents and comparable trends are carried from the append that made
them. The assumptions separate the marks `None`, `Missing` and `Torn` from documents, and
the name of the disk from processes.

`KnowledgeGovernanceProofs` proves, for any diagnoses, seeds, candidates and persons, any
number of requests at a time, and any number of operations, containers, restores and
crashes: `TypeCorrect`, `KnowledgeStaysGoverned` (`[]KnowledgeIsGoverned`),
`AcknowledgedIsKept` (`[]RestoreKeepsAcknowledged`) and `ScansAreFair`
(`ScansBlameOnlyDamage`). The inductive invariant `IInv` has a part that always holds:
requests name their own event (`Named`), whoever holds the write lock of the file under the
path holds it alone and still finds the row as it was (`LockHeld`), and events are dated
between the clock as it was at first and as it is now (`AllDated`). The other part holds
while no request was overtaken: the database and the backup it may be replaced by are sound
(`StoreSound`), what a request made of the database still under the path is rightful in it
(`Prepared`), what a restore is about to replace is in its copy (`Recovering`), and a scan
read no more than there is (`ScanBehind`). `Sound` is the property of one database that
all writes keep: `CaseKeepsSound` for an operation on a diagnosis (the step is
`DiagnosisLifecycle`'s, `LifecycleStep`) and `CommitKeepsSound` for a candidate. It says more
than `KnowledgeIsGoverned`: a diagnosis once confirmed stays so, which is why a candidate that
was made of it before somebody else wrote is still right when it is committed.
`InitialHistory` assumes of the diagnoses the database starts with what `DiagnosisService`
keeps true: one that is confirmed was offered just before.

Proving `ScansAreFair` showed that two definitions of `KnowledgeBase` were not what they
were meant to be: the findings were written with `CASE` whose guards overlap (no event at
all, and an entity at version 0), where TLA+ leaves the value open although TLC takes the
first. They are `IF` chains now, in the order of the code.

`DatasetReleaseProofs` proves, for any versions, base, proposed additions and publishers,
and any number of publications, crashes and edits: `ReleasesGoverned`
(`[]ReleasesAreGoverned`) and `WinnersKeepTheirVersion` (`[]WinnersOwnTheirVersion`). A
publication reads its source three times and edits may fall in between, so the cases it
has put together need not be those of the source that was attested. `NothingElse` is why
this does no harm: a directory that verifies has nothing beside the cases of the source *as
it is when it is verified* and the additions, because two cases of one id in one split are
the same. The invariant `IInv` says that what was issued for a version, in its tag and its
receipt, is `Rightful` (of the base, or governed; `Issued`), and so is what is still there to
be signed, as long as nobody edited it; that a publisher holds a tag that was issued, and before it renames a rightful directory (`Prepared`), and that what a publisher
was told is there (`Told`). It assumes `CasesInOrder`: cases are records with an id, a
label, a version and one of the three splits, which `DatasetCase` validates.

`EvaluationProofs` proves of the graded runs, for any number of departures, versions and
edits: `EditsStayWithoutEffect` (`[]EditsMoveNothing`), `UnsafeStaysOut`
(`[]UnsafeNeverPasses`) and `FirstSeenStaysFirst` (`[]FirstSeenIsFirst`). The invariant
`GateInv` says what edits leave alone: a file still has the cases of the run the grader wrote
(`Resembles`), each with its findings, its prediction and every rate but that of its label
(`SameCase`), and each report dates a finding by the first version that was submitted with it
(`Reported`). Everything else an edit may have changed; but the gate computes it again from
the findings, the predictions and the labels of the dataset, and refuses a file that says
something else. So a file it accepts agrees with what the grader wrote in all that a comparison
reads (`ConsistentIsHonest`), and so does the summary a history keeps (`SummariesSuffice`).
That no unsafe output passes needs besides that each is a finding of its case
(`UnsafeIsFound`) and is counted (`P0IsCounted`).

Of the shadow history it proves, for any runs and policies and any number of appends and
failures: `NothingFalseIsRead`, with any number of writers: the file is torn or a load accepts
it, so what two writers do to each other is refused and never a wrong verdict; and
`AppendsAreAtomic` (`[]WritesAreAtomic`), with one writer (`OneWriter`, as the scripts run one
at a time): it is never torn, and no record a caller got back is lost. `AppendIsValid`
carries both: the verdict written under the policy of the caller is the one a reload
computes from the summaries it kept. `MarksAreApart` separates the marks of missing and
torn files from documents; `MCEvaluation` evaluates it and `OneWriter`.

`ConclusionsProofs` proves the scenes of `MCConclusions` whose inputs grow with the evidence,
for lists of any length:

* `RepairIsAllowed`, and from it `RepairsAreAllowedPicks` (`[]RepairIsAnAllowedPick`) and
  `OnlyLowFactsAreRefused` (`[]PolicyRefusesOnlyLowFacts`). The repair of the service's model
  is a set of picks, that of the code a walk over lists; `WalkCompletes` says that the walk
  stops with the second type or with every type there is, which is what a pick may be.
  `PlacesAreNumbered` and `AtPositionsIs` give the lists their order and their length.
* `LabelsOfDecidingFacts`, and from it `LabelsRest` (`[]LabelsRestOnDecidingFacts`): any list
  with the items nothing outranks leads to the same label. `DecidingAreAlike` shows that both
  have the same newest items of each kind, the rules look at nothing else, and the one thing
  that depends on the order, which stream is taken first, does not matter where a report of
  the main stream names how pulling it went (`StreamsInAnyOrder`). A snapshot of a stream
  always does (`domain/camera.py:86`), which the assumption `NotReported` stands for.
* `SupportedIsUsable` (`[]SupportIsUsable`), for any assets, readiness and registries: what
  `SupportedMeans` reads off the derivation is what the tools of the fault need.
* `PlansAreCounted` (`[]PlanCoverageIsExact`), for any number of ranges. What the ranges cover
  is a set with one element for each range, day and unit (`Covered`); where no two ranges
  share a unit, these are as many as the units of the window that lie in a range
  (`CoverageIsCounted`, a bijection), and where a unit is more than the tolerance of one in a
  thousand, a count can only reach it when nothing is missing (`CoverageIsExact`). That is
  what `UnitsCount` assumes of the length of a day and of a window; of longer windows the
  code tolerates gaps, and the property would not hold.
* `HybridAnswersWell`, `SemanticAnswersWell` and `KeywordAnswersWell`, for any knowledge base,
  state of the cache, limit and failure of the embedding service, and from them
  `SearchesAreAnsweredWell` (`[]SearchesAnswerWell`) for the searches and reviews of the
  scene, whose knowledge bases have three items. A ranking puts each item behind as many as are ahead of it,
  and as scores are fractions that are in a strict order with the ids (`ScoresOrder`), this
  numbers the items (`OrderIsNumbered`, `RankingIs`), so the first ones are the best
  (`FirstOnesAreBest`). What was embedded of an item stays true through reviews
  (`VectorsAreTrue`, with the invariant `SearchTyped`), and a service that answers throughout
  fails only for a batch it does not take (`EmbeddingFails`). What both ways found is ahead of
  what one found because of the weights and `rrf_k` (`BothBeatOne`): this is arithmetic over
  ranks up to fifty, so `HybridAnswersWell` assumes at most fifty items; a store of many more
  does not have the property.

## Only model-checked

* Liveness: `EveryRequestEnds`, `EveryRunEnds` and `EveryCallEnds`, under the fairness of
  their sections above. Liveness under fairness is out of the prover's reach.
* `ScriptedRunsAddUp`: what adds up is filtered from the results of a whole run
  (`SelectSeq`, and a repair of its own), so its proof would be an induction over lists. The
  scripts are those of the repository, so the run goes through each to its end.
* What is refuted: `AnswersShowOwnWrite`, `TimeoutsAreClassified`, `UnknownCitationsAreRefused`
  and `OvernightRangesCover`.

## Not modelled

* ONVIF, the HTTP security platform and device discovery
  (`adapters/device_gateway/onvif*.py`, `http_security_platform.py`): parsing and network
  I/O without state of their own; what they may answer or raise is the interface of
  `DeviceTools`. Combining two sources (`cross_source.py`) is a pure comparison.
* `evaluation/real_model.py`, `adversarial.py`, `review.py`, `device_observability.py`: the
  harness around real models, fixed suites, and sheets for manual review.
* Restricting a tool to fault types (`BaseTool.supported_fault_types`): the registry and the
  runtime ask for it, and every tool of the repository leaves it `None`. Averages of rounds,
  calls, latency and cost in a graded suite, which no metric of the gate reads.
* Texts: redaction patterns, observations, explanations, report layout. Names of actors are
  assumed to be left as they are by redaction.
* HTTP schemas, authentication and the checks of the routes; settings; metrics.
* Schema migrations; checksums of a backup; a copy that is torn because a
  transaction is committing while the file is copied; two calls of `close()` at the same time; a second process with a
  container of its own on the same database, which a restore does not notice.
* Two writers of the shadow history: they share one `.tmp` file and nothing keeps them apart
  (`evaluation/shadow_history.py:379-384`), so one can move what the other has half written.
  The module can be given two writers; the run has one, as the scripts do.
* Rows that somebody damaged by hand, and the findings the scan has for them.
* Operator scripts: they call the operations above.
