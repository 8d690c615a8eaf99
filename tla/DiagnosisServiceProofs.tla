------------------------ MODULE DiagnosisServiceProofs ------------------------
(***************************************************************************)
(* Proofs about DiagnosisService, for any number of diagnoses, request     *)
(* threads and requests, any evidence and any runner outcomes.             *)
(***************************************************************************)
EXTENDS DiagnosisService, SequenceTheorems, FiniteSetTheorems, TLAPS

-----------------------------------------------------------------------------
(* Operators on cases return cases. *)

\* A new case is a case (case.py:74-92).
LEMMA NewCaseType ==
  ASSUME NEW fault \in FaultType \cup {NoFault}
  PROVE  NewCase(fault) \in Case
BY DEF NewCase, Case, NoConclusion, Conclusion, Statuses

\* A reviewed case is a case (case.py:206-215).
LEMMA ApplyReviewType ==
  ASSUME NEW c \in Case, NEW action \in ReviewActions
  PROVE  /\ ApplyReview(c, action) \in Case
         /\ ApplyReview(c, action).status \in {"confirmed", "rejected", "waiting_for_input"}
         /\ ApplyReview(c, action).status = "confirmed" <=> action = "confirm"
         /\ ApplyReview(c, action).reviews = Append(c.reviews, action)
         /\ ApplyReview(c, action).evidence = c.evidence
         /\ ApplyReview(c, action).conclusion = c.conclusion
         /\ ApplyReview(c, action).fault = c.fault
<1>1. Append(c.reviews, action) \in Seq(ReviewActions)
  BY DEF Case
<1>2. /\ ReviewTarget(action) \in {"confirmed", "rejected", "waiting_for_input"}
      /\ ReviewTarget(action) = "confirmed" <=> action = "confirm"
  BY DEF ReviewTarget, ReviewActions
<1> QED
  BY <1>1, <1>2 DEF ApplyReview, Case, Statuses

\* Evidence a run lands is evidence of the model, and includes what was there.
LEMMA LandedType ==
  ASSUME NEW out \in Outcome, NEW evidence \in SUBSET Evidence
  PROVE  /\ AddEvidence(evidence, out.drafts) \subseteq Evidence
         /\ evidence \subseteq AddEvidence(evidence, out.drafts)
BY DraftsAreEvidence DEF AddEvidence

\* Saving keeps all of the copy but its version (case.py:90-92).
LEMMA SavedType ==
  ASSUME NEW r \in Request
  PROVE  /\ Saved(r) \in Case
         /\ Saved(r).version = r.read.version + 1
         /\ Saved(r).status = r.write.status
         /\ Saved(r).fault = r.write.fault
         /\ Saved(r).evidence = r.write.evidence
         /\ Saved(r).conclusion = r.write.conclusion
         /\ Saved(r).reviews = r.write.reviews
<1>1. r.write \in Case /\ r.read.version + 1 \in Nat
  BY DEF Request, Case
<1> QED
  BY <1>1 DEF Saved, Case

\* The audit event of a request is an event.
LEMMA AuditEventType ==
  ASSUME NEW r \in Request
  PROVE  AuditEvent(r) \in Event
BY DEF AuditEvent, Request, Event, Case, Statuses
-----------------------------------------------------------------------------
(* Type correctness. *)

\* A free thread accepts a well-formed request.
LEMMA AcceptType ==
  ASSUME TypeOK, NEW w \in Worker, NEW i \in Id, NEW action \in Actions,
         NEW read \in Case, NEW write \in Case, NEW next \in {"running", "writing"},
         Accept(w, i, action, read, write, next)
  PROVE  TypeOK'
<1> DEFINE r == [number |-> started + 1, id |-> i, action |-> action,
                 read |-> read, write |-> write]
<1>1. started + 1 \in Nat /\ started' \in 0..MaxRequests
  BY RequestBound DEF TypeOK, Accept
<1>2. r \in Request
  BY <1>1 DEF Request
<1>3. request' = [request EXCEPT ![w] = r]
  BY DEF Accept
<1> HIDE DEF r
<1>4. request' \in [Worker -> Request \cup {NoRequest}]
  BY <1>2, <1>3 DEF TypeOK
<1>5. pc' \in [Worker -> {"idle", "running", "writing", "reading_back"}]
  BY DEF TypeOK, Accept
<1>6. \A v \in Worker : pc'[v] # "idle" => request'[v] \in Request
  BY <1>2, <1>3 DEF TypeOK, Accept
<1>7. answer' \in [Worker -> Answer]
  BY DEF TypeOK, Accept, NoAnswer, Answer
<1> QED
  BY <1>1, <1>4, <1>5, <1>6, <1>7 DEF TypeOK, Accept

\* A request ends with an answer that is one.
LEMMA FinishType ==
  ASSUME TypeOK, NEW w \in Worker, NEW reply \in Answer, Finish(w, reply),
         cases' \in [Id -> Case], audit' \in [Id -> Seq(Event)]
  PROVE  TypeOK'
BY DEF TypeOK, Finish

LEMMA FailedType ==
  ASSUME NEW n \in Nat, NEW kind \in {"refused", "conflict", "error"}
  PROVE  Failed(n, kind) \in Answer
BY DEF Failed, Answer

LEMMA ShowsType ==
  ASSUME NEW n \in Nat, NEW c \in Case
  PROVE  Shows(n, c) \in Answer
BY DEF Shows, Answer, Case

\* A running request hands on a case.
LEMMA WriteBackType ==
  ASSUME TypeOK, NEW w \in Worker, pc[w] = "running", NEW c \in Case, WriteBack(w, c)
  PROVE  TypeOK'
<1>1. request[w] \in Request
  BY DEF TypeOK
<1>2. [request[w] EXCEPT !.write = c] \in Request
  BY <1>1 DEF Request
<1>3. request' = [request EXCEPT ![w] = [request[w] EXCEPT !.write = c]]
  BY DEF WriteBack
<1>4. request' \in [Worker -> Request \cup {NoRequest}]
  BY <1>2, <1>3 DEF TypeOK
<1>5. pc' \in [Worker -> {"idle", "running", "writing", "reading_back"}]
  BY DEF TypeOK, WriteBack
<1>6. \A v \in Worker : pc'[v] # "idle" => request'[v] \in Request
  BY <1>2, <1>3 DEF TypeOK, WriteBack
<1> QED
  BY <1>4, <1>5, <1>6 DEF TypeOK, WriteBack

\* Every way a run can end leaves the answer of a failed run, or a private copy
\* that is a case, of the status one of its three results has, and that differs
\* from the one it had in evidence, which only grows, conclusion and status.
RunResult(w, c) ==
  LET write == request[w].write IN
  /\ c \in Case
  /\ c.status \in {"waiting_for_input", "waiting_for_confirmation", "inconclusive"}
  /\ c.fault = write.fault
  /\ c.reviews = write.reviews
  /\ write.evidence \subseteq c.evidence

LEMMA RunResults ==
  ASSUME TypeOK, NEW w \in Worker, NEW out \in Outcome, FinishRun(w, out)
  PROVE  \/ Respond(w, Failed(request[w].number, "error"))
         \/ \E c :
              /\ WriteBack(w, c)
              /\ RunResult(w, c)
              /\ IF c.status = "waiting_for_confirmation"
                 THEN /\ c.conclusion.id = request[w].read.version + 1
                      /\ c.conclusion.fault = c.fault
                      /\ PolicyAccepts(c.evidence, c.conclusion.cited, c.conclusion.confidence)
                 ELSE c.conclusion = request[w].write.conclusion
<1> DEFINE write == request[w].write
           landed == Landed(w, out)
<1>1. write \in Case /\ pc[w] = "running" /\ request[w].read.version \in Nat
  BY DEF FinishRun, TypeOK, Request, Case
<1>2. landed \subseteq Evidence /\ write.evidence \subseteq landed
  BY <1>1, LandedType DEF Landed, Case
<1>3. ASSUME NEW evidence \in SUBSET Evidence, write.evidence \subseteq evidence,
             NEW status \in {"waiting_for_input", "inconclusive"},
             EndRun(w, evidence, status)
      PROVE  \E c :
               /\ WriteBack(w, c)
               /\ RunResult(w, c)
               /\ c.status = status
               /\ c.conclusion = write.conclusion
  <2> DEFINE c == [write EXCEPT !.evidence = evidence, !.status = status]
  <2>1. WriteBack(w, c)
    BY <1>3 DEF EndRun
  <2>2. /\ c \in Case /\ c.status = status /\ c.fault = write.fault
        /\ c.reviews = write.reviews /\ c.evidence = evidence
        /\ c.conclusion = write.conclusion
    BY <1>1, <1>3 DEF Case, Statuses
  <2>3. RunResult(w, c)
    BY <1>3, <2>2 DEF RunResult
  <2> QED
    BY <2>1, <2>2, <2>3
<1>4. CASE RunUnstopped(w, out)
  BY <1>1, <1>3, <1>4 DEF RunUnstopped, Case
<1>5. CASE RunDegraded(w, out)
  BY <1>2, <1>3, <1>5 DEF RunDegraded
<1>6. CASE RunUnfinished(w, out)
  BY <1>2, <1>3, <1>6 DEF RunUnfinished
<1>7. CASE RunInconclusive(w, out)
  BY <1>2, <1>3, <1>7 DEF RunInconclusive
<1>8. CASE RunMismatched(w, out)
  BY <1>8 DEF RunMismatched
<1>9. CASE RunConcluded(w, out)
  <2>1. PICK r \in Repairs(landed, out.cited, out.confidence) :
          LET conclusion == [id |-> request[w].read.version + 1, fault |-> out.fault,
                             confidence |-> r.confidence, cited |-> r.cited]
              concluding == [write EXCEPT !.evidence = landed]
          IN  /\ PolicyAccepts(landed, r.cited, r.confidence)
              /\ WriteBack(w, [concluding EXCEPT !.conclusion = conclusion,
                                                 !.status = "waiting_for_confirmation"])
    BY <1>9 DEF RunConcluded
  <2> DEFINE conclusion == [id |-> request[w].read.version + 1, fault |-> out.fault,
                            confidence |-> r.confidence, cited |-> r.cited]
             c == [[write EXCEPT !.evidence = landed]
                     EXCEPT !.conclusion = conclusion, !.status = "waiting_for_confirmation"]
  <2>2. r.confidence \in Confidence /\ r.cited \subseteq landed
    BY <2>1 DEF PolicyAccepts
  <2>3. out.fault = write.fault
    BY <1>9 DEF RunConcluded
  <2>4. conclusion \in Conclusion
    BY <1>1, <1>2, <2>2, <2>3 DEF Conclusion, Case
  <2>5. /\ c \in Case /\ c.status = "waiting_for_confirmation" /\ c.fault = write.fault
        /\ c.reviews = write.reviews /\ c.evidence = landed /\ c.conclusion = conclusion
    BY <1>1, <1>2, <2>4 DEF Case, Statuses
  <2>6. RunResult(w, c)
    BY <1>2, <2>5 DEF RunResult
  <2>7. WriteBack(w, c)
    BY <2>1
  <2>8. /\ c.conclusion.id = request[w].read.version + 1
        /\ c.conclusion.fault = c.fault
        /\ PolicyAccepts(c.evidence, c.conclusion.cited, c.conclusion.confidence)
    BY <2>1, <2>3, <2>5
  <2> HIDE DEF c
  <2> QED
    BY <2>5, <2>6, <2>7, <2>8
<1> QED
  BY <1>4, <1>5, <1>6, <1>7, <1>8, <1>9 DEF FinishRun

LEMMA CommitType ==
  ASSUME TypeOK, NEW w \in Worker, Commit(w)
  PROVE  TypeOK'
<1> DEFINE r == request[w]
<1>1. r \in Request
  BY DEF TypeOK, Commit
<1>2. cases' \in [Id -> Case]
  BY <1>1, SavedType DEF TypeOK, Commit
<1>3. audit' \in [Id -> Seq(Event)]
  <2>1. audit[r.id] \in Seq(Event) /\ AuditEvent(r) \in Event /\ r.id \in Id
    BY <1>1, AuditEventType DEF TypeOK, Request
  <2>2. Append(audit[r.id], AuditEvent(r)) \in Seq(Event)
    BY <2>1
  <2> QED
    BY <2>2 DEF TypeOK, Commit
<1>4. CASE Backend = "sqlite" /\ r.action # "create"
  BY <1>1, <1>2, <1>3, <1>4 DEF TypeOK, Commit
<1>5. CASE ~ (Backend = "sqlite" /\ r.action # "create")
  <2>1. Shows(r.number, Saved(r)) \in Answer
    BY <1>1, SavedType, ShowsType DEF Request
  <2>2. Finish(w, Shows(r.number, Saved(r)))
    BY <1>5 DEF Commit
  <2> QED
    BY <1>2, <1>3, <2>1, <2>2, FinishType
<1> QED
  BY <1>4, <1>5

LEMMA StartType ==
  ASSUME TypeOK, NEW w \in Worker, Start(w)
  PROVE  TypeOK'
<1>1. PICK i \in Id :
        \/ \E f \in FaultType : StartCreate(w, i, f)
        \/ StartRun(w, i)
        \/ \E a \in ReviewActions : StartReview(w, i, a)
        \/ Refuse(w, i)
  BY DEF Start
<1>2. cases[i] \in Case
  BY DEF TypeOK
<1>3. ASSUME NEW f \in FaultType, StartCreate(w, i, f)
      PROVE  TypeOK'
  BY <1>3, NewCaseType, AcceptType DEF StartCreate, Actions
<1>4. CASE StartRun(w, i)
  <2>1. [cases[i] EXCEPT !.status = "investigating"] \in Case
    BY <1>2 DEF Case, Statuses
  <2> QED
    BY <1>2, <1>4, <2>1, AcceptType DEF StartRun, Actions
<1>5. ASSUME NEW a \in ReviewActions, StartReview(w, i, a)
      PROVE  TypeOK'
  BY <1>2, <1>5, ApplyReviewType, AcceptType DEF StartReview, Actions
<1>6. CASE Refuse(w, i)
  <2>1. started + 1 \in 0..MaxRequests /\ started + 1 \in Nat
    BY <1>6, RequestBound DEF Refuse, TypeOK
  <2> QED
    BY <1>6, <2>1, FailedType DEF Refuse, TypeOK
<1> QED
  BY <1>1, <1>3, <1>4, <1>5, <1>6

LEMMA ResponseType ==
  ASSUME TypeOK, NEW w \in Worker, NEW reply \in Answer, Respond(w, reply)
  PROVE  TypeOK'
BY FinishType DEF Respond, TypeOK

LEMMA NextType ==
  ASSUME TypeOK, [Next]_vars
  PROVE  TypeOK'
<1>1. ASSUME NEW w \in Worker, Start(w)
      PROVE  TypeOK'
  BY <1>1, StartType
<1>2. ASSUME NEW w \in Worker, NEW out \in Outcome, FinishRun(w, out)
      PROVE  TypeOK'
  <2>1. pc[w] = "running" /\ request[w].number \in Nat
    BY <1>2 DEF FinishRun, TypeOK, Request
  <2> QED
    BY <1>2, <2>1, RunResults, WriteBackType, FailedType, ResponseType DEF RunResult
<1>3. ASSUME NEW w \in Worker, Commit(w)
      PROVE  TypeOK'
  BY <1>3, CommitType
<1>4. ASSUME NEW w \in Worker,
             Conflict(w) \/ WriteFails(w) \/ ReadBack(w) \/ ReadBackFails(w)
      PROVE  TypeOK'
  <2>1. request[w].number \in Nat /\ cases[request[w].id] \in Case
    BY <1>4 DEF Conflict, WriteFails, ReadBack, ReadBackFails, TypeOK, Request
  <2> QED
    BY <1>4, <2>1, FailedType, ShowsType, ResponseType
       DEF Conflict, WriteFails, ReadBack, ReadBackFails
<1>5. ASSUME NEW s \in SUBSET FaultType, Restart(s)
      PROVE  TypeOK'
  BY <1>5 DEF TypeOK, Restart, AllIdle, NoAnswer, Answer
<1>6. CASE UNCHANGED vars
  BY <1>6 DEF vars, TypeOK
<1> QED
  BY <1>1, <1>2, <1>3, <1>4, <1>5, <1>6 DEF Next, Proceed

\* Every state of the service is well typed: cases, events, requests and answers
\* have the shape the code gives them, and no worker that is busy is without its
\* request (case.py:74-97, diagnoses.py:703-723).
THEOREM TypeCorrect == Spec => []TypeOK
<1>1. Init => TypeOK
  BY RequestBound, NewCaseType DEF Init, TypeOK, AllIdle, NoAnswer, Answer
<1>2. TypeOK /\ [Next]_vars => TypeOK'
  BY NextType
<1> QED
  BY <1>1, <1>2, PTL DEF Spec
-----------------------------------------------------------------------------
(* The inductive invariant: what a request holds between its read and its  *)
(* write.  A copy may be stale; it is never written unless it is not.      *)

\* The copy a request read is not ahead of the store, and it is the stored case
\* as long as the versions agree.
FreshUnlessOvertaken(r) ==
  /\ r.read.version <= cases[r.id].version
  /\ r.action = "create" => r.read = NewCase(r.read.fault)
  /\ r.action # "create" => /\ r.read.version > 0
                            /\ Current(r) => r.read = cases[r.id]

\* What a finished run made of the copy it read.
RunComputed(r) ==
  /\ r.read.status \in RunnableStatuses
  /\ r.write.status \in {"waiting_for_input", "waiting_for_confirmation", "inconclusive"}
  /\ r.write.fault = r.read.fault
  /\ r.write.reviews = r.read.reviews
  /\ r.read.evidence \subseteq r.write.evidence
  /\ IF r.write.status = "waiting_for_confirmation"
     THEN /\ r.write.conclusion.id = r.read.version + 1
          /\ r.write.conclusion.fault = r.write.fault
          /\ PolicyAccepts(r.write.evidence, r.write.conclusion.cited,
                           r.write.conclusion.confidence)
     ELSE r.write.conclusion = r.read.conclusion

Computed(r) ==
  /\ r.action = "create" => r.write = r.read
  /\ r.action = "run" => RunComputed(r)
  /\ r.action \in ReviewActions => /\ CanReview(r.read, r.action)
                                   /\ r.write = ApplyReview(r.read, r.action)

Running(r) ==
  /\ r.action = "run"
  /\ r.read.status \in RunnableStatuses
  /\ r.write = [r.read EXCEPT !.status = "investigating"]

Copies ==
  \A w \in Worker :
    /\ pc[w] \in {"running", "writing"} => FreshUnlessOvertaken(request[w])
    /\ pc[w] = "running" => Running(request[w])
    /\ pc[w] = "writing" => Computed(request[w])

Unstored == \A i \in Id : cases[i].version = 0 => cases[i] = NewCase(NoFault)

CopyInv == TypeOK /\ Unstored /\ Copies

\* Only commits change what is stored.
LEMMA OnlyCommitsWrite ==
  ASSUME [Next]_vars
  PROVE  \/ UNCHANGED <<cases, audit>>
         \/ \E w \in Worker : Commit(w)
<1>1. ASSUME NEW w \in Worker, Start(w)
      PROVE  UNCHANGED <<cases, audit>>
  BY <1>1 DEF Start, StartCreate, StartRun, StartReview, Refuse, Accept
<1>2. ASSUME NEW w \in Worker, NEW out \in Outcome, FinishRun(w, out)
      PROVE  UNCHANGED <<cases, audit>>
  BY <1>2 DEF FinishRun, RunUnstopped, RunDegraded, RunUnfinished, RunInconclusive,
              RunMismatched, RunConcluded, EndRun, WriteBack, Respond
<1> QED
  BY <1>1, <1>2 DEF Next, Proceed, Conflict, WriteFails, ReadBack, ReadBackFails, Respond,
                    Restart, vars

\* A worker that answers and leaves the store alone leaves the invariant alone.
LEMMA RespondKeepsCopies ==
  ASSUME CopyInv, NEW w \in Worker, NEW reply, Respond(w, reply)
  PROVE  Unstored' /\ Copies'
BY DEF CopyInv, TypeOK, Unstored, Copies, Respond, Finish, FreshUnlessOvertaken, Current

LEMMA AcceptKeepsCopies ==
  ASSUME CopyInv, NEW w \in Worker, NEW i \in Id, NEW action \in Actions,
         NEW read \in Case, NEW write \in Case, NEW next \in {"running", "writing"},
         Accept(w, i, action, read, write, next),
         FreshUnlessOvertaken(request'[w]),
         next = "running" => Running(request'[w]),
         next = "writing" => Computed(request'[w])
  PROVE  Unstored' /\ Copies'
<1>1. UNCHANGED cases /\ pc' = [pc EXCEPT ![w] = next]
  BY DEF Accept
<1>2. \A v \in Worker : v # w => request'[v] = request[v] /\ pc'[v] = pc[v]
  BY DEF Accept, CopyInv, TypeOK
<1>3. pc'[w] = next
  BY <1>1 DEF CopyInv, TypeOK
<1>4. \A r : FreshUnlessOvertaken(r) => FreshUnlessOvertaken(r)'
  BY <1>1 DEF FreshUnlessOvertaken, Current
<1> QED
  BY <1>1, <1>2, <1>3, <1>4 DEF CopyInv, Unstored, Copies

LEMMA StartKeepsCopies ==
  ASSUME CopyInv, NEW w \in Worker, Start(w)
  PROVE  Unstored' /\ Copies'
<1>1. PICK i \in Id :
        \/ \E f \in FaultType : StartCreate(w, i, f)
        \/ StartRun(w, i)
        \/ \E a \in ReviewActions : StartReview(w, i, a)
        \/ Refuse(w, i)
  BY DEF Start
<1>2. cases[i] \in Case /\ cases[i].version \in Nat
  BY DEF CopyInv, TypeOK, Case
<1>3. ASSUME NEW action, NEW read, NEW write, NEW next, Accept(w, i, action, read, write, next)
      PROVE  /\ request'[w].id = i /\ request'[w].action = action
             /\ request'[w].read = read /\ request'[w].write = write
  BY <1>3 DEF Accept, CopyInv, TypeOK
<1>4. ASSUME NEW f \in FaultType, StartCreate(w, i, f)
      PROVE  Unstored' /\ Copies'
  <2>1. Accept(w, i, "create", NewCase(f), NewCase(f), "writing")
    BY <1>4 DEF StartCreate
  <2>2. NewCase(f) \in Case /\ NewCase(f).version = 0 /\ NewCase(f).fault = f
    BY NewCaseType DEF NewCase
  <2>3. FreshUnlessOvertaken(request'[w])
    BY <1>2, <1>3, <1>4, <2>1, <2>2 DEF FreshUnlessOvertaken, StartCreate
  <2>4. Computed(request'[w])
    BY <1>3, <2>1 DEF Computed, ReviewActions
  <2> QED
    BY <2>1, <2>2, <2>3, <2>4, AcceptKeepsCopies DEF Actions
<1>5. CASE StartRun(w, i)
  <2> DEFINE c == [cases[i] EXCEPT !.status = "investigating"]
  <2>1. Accept(w, i, "run", cases[i], c, "running")
    BY <1>5 DEF StartRun
  <2>2. c \in Case
    BY <1>2 DEF Case, Statuses
  <2>3. FreshUnlessOvertaken(request'[w])
    BY <1>2, <1>3, <1>5, <2>1 DEF FreshUnlessOvertaken, StartRun
  <2>4. Running(request'[w])
    BY <1>3, <1>5, <2>1 DEF Running, StartRun
  <2> QED
    BY <1>2, <2>1, <2>2, <2>3, <2>4, AcceptKeepsCopies DEF Actions
<1>6. ASSUME NEW a \in ReviewActions, StartReview(w, i, a)
      PROVE  Unstored' /\ Copies'
  <2> DEFINE c == ApplyReview(cases[i], a)
  <2>1. Accept(w, i, a, cases[i], c, "writing")
    BY <1>6 DEF StartReview
  <2>2. c \in Case
    BY <1>2, ApplyReviewType
  <2>3. FreshUnlessOvertaken(request'[w])
    BY <1>2, <1>3, <1>6, <2>1 DEF FreshUnlessOvertaken, StartReview, ReviewActions
  <2>4. Computed(request'[w])
    BY <1>3, <1>6, <2>1 DEF Computed, StartReview, ReviewActions
  <2> QED
    BY <1>2, <2>1, <2>2, <2>3, <2>4, AcceptKeepsCopies DEF Actions
<1>7. CASE Refuse(w, i)
  BY <1>7 DEF Refuse, CopyInv, Unstored, Copies, FreshUnlessOvertaken, Current
<1> QED
  BY <1>1, <1>4, <1>5, <1>6, <1>7

LEMMA FinishRunKeepsCopies ==
  ASSUME CopyInv, NEW w \in Worker, NEW out \in Outcome, FinishRun(w, out)
  PROVE  Unstored' /\ Copies'
<1> DEFINE r == request[w]
<1>1. pc[w] = "running" /\ r \in Request /\ r.read \in Case
  BY DEF FinishRun, CopyInv, TypeOK, Request
<1>2. FreshUnlessOvertaken(r) /\ Running(r)
  BY <1>1 DEF CopyInv, Copies
<1>3. /\ r.write.fault = r.read.fault /\ r.write.reviews = r.read.reviews
      /\ r.write.evidence = r.read.evidence /\ r.write.conclusion = r.read.conclusion
  BY <1>1, <1>2 DEF Running, Case
<1>4. CASE Respond(w, Failed(r.number, "error"))
  BY <1>4, RespondKeepsCopies
<1>5. ASSUME NEW c, WriteBack(w, c), RunResult(w, c),
             IF c.status = "waiting_for_confirmation"
             THEN /\ c.conclusion.id = r.read.version + 1
                  /\ c.conclusion.fault = c.fault
                  /\ PolicyAccepts(c.evidence, c.conclusion.cited, c.conclusion.confidence)
             ELSE c.conclusion = r.write.conclusion
      PROVE  Unstored' /\ Copies'
  <2> DEFINE after == request'[w]
  <2>1. after = [r EXCEPT !.write = c]
    BY <1>5 DEF WriteBack, CopyInv, TypeOK
  <2>2. /\ after.read = r.read /\ after.action = r.action /\ after.id = r.id
        /\ after.write = c
    BY <1>1, <2>1 DEF Request
  <2>3. UNCHANGED cases
    BY <1>5 DEF WriteBack
  <2>4. FreshUnlessOvertaken(request[w])'
    BY <1>2, <2>2, <2>3 DEF FreshUnlessOvertaken, Current
  <2>5. Computed(after)
    <3>1. RunComputed(after)
      BY <1>2, <1>3, <1>5, <2>2 DEF RunComputed, RunResult, Running
    <3> QED
      BY <1>2, <2>2, <3>1 DEF Computed, Running, ReviewActions
  <2>6. pc'[w] = "writing"
    BY <1>5 DEF WriteBack, CopyInv, TypeOK
  <2>7. \A v \in Worker : v # w => request'[v] = request[v] /\ pc'[v] = pc[v]
    BY <1>5 DEF WriteBack, CopyInv, TypeOK
  <2>8. \A q : FreshUnlessOvertaken(q) => FreshUnlessOvertaken(q)'
    BY <2>3 DEF FreshUnlessOvertaken, Current
  <2> QED
    BY <2>3, <2>4, <2>5, <2>6, <2>7, <2>8 DEF CopyInv, Unstored, Copies
<1> QED
  BY <1>4, <1>5, RunResults DEF CopyInv

LEMMA CommitKeepsCopies ==
  ASSUME CopyInv, NEW w \in Worker, Commit(w)
  PROVE  Unstored' /\ Copies'
<1> DEFINE r == request[w]
<1>1. /\ pc[w] = "writing" /\ r \in Request /\ r.id \in Id
      /\ r.read.version \in Nat
  BY DEF Commit, CopyInv, TypeOK, Request, Case
<1>2. /\ cases' = [cases EXCEPT ![r.id] = Saved(r)]
      /\ cases[r.id].version = r.read.version
      /\ Saved(r).version = r.read.version + 1
  BY <1>1, SavedType DEF Commit, Current
<1>3. Unstored'
  BY <1>1, <1>2 DEF CopyInv, Unstored, TypeOK
<1>4. pc'[w] \notin {"running", "writing"}
  BY DEF Commit, Finish, CopyInv, TypeOK
<1>5. \A v \in Worker : v # w => request'[v] = request[v] /\ pc'[v] = pc[v]
  BY DEF Commit, Finish, CopyInv, TypeOK
<1>6. ASSUME NEW q \in Request, FreshUnlessOvertaken(q)
      PROVE  FreshUnlessOvertaken(q)'
  <2>1. CASE q.id = r.id
    <3>1. q.read.version <= r.read.version /\ cases'[q.id].version = r.read.version + 1
      BY <1>1, <1>2, <1>6, <2>1 DEF FreshUnlessOvertaken, CopyInv, TypeOK
    <3>2. q.read.version \in Nat
      BY DEF Request, Case
    <3> QED
      BY <1>1, <1>6, <3>1, <3>2 DEF FreshUnlessOvertaken, Current
  <2>2. CASE q.id # r.id
    <3>1. q.id \in Id
      BY DEF Request
    <3>2. cases'[q.id] = cases[q.id]
      BY <1>2, <2>2, <3>1 DEF CopyInv, TypeOK
    <3> QED
      BY <1>6, <3>2 DEF FreshUnlessOvertaken, Current
  <2> QED
    BY <2>1, <2>2
<1>7. \A v \in Worker : pc[v] \in {"running", "writing"} => request[v] \in Request
  BY DEF CopyInv, TypeOK
<1> QED
  BY <1>3, <1>4, <1>5, <1>6, <1>7 DEF CopyInv, Copies

\* The invariant holds in every state.
LEMMA CopyInvariant == Spec => []CopyInv
<1>1. Init => CopyInv
  <2>1. Init => TypeOK
    BY RequestBound, NewCaseType DEF Init, TypeOK, AllIdle, NoAnswer, Answer
  <2>2. Init => Unstored /\ Copies
    BY DEF Init, AllIdle, Unstored, Copies
  <2> QED
    BY <2>1, <2>2 DEF CopyInv
<1>2. CopyInv /\ [Next]_vars => CopyInv'
  <2> SUFFICES ASSUME CopyInv, [Next]_vars
               PROVE  Unstored' /\ Copies'
    BY NextType DEF CopyInv
  <2>1. ASSUME NEW w \in Worker,
               Conflict(w) \/ WriteFails(w) \/ ReadBack(w) \/ ReadBackFails(w)
        PROVE  Unstored' /\ Copies'
    BY <2>1, RespondKeepsCopies DEF Conflict, WriteFails, ReadBack, ReadBackFails
  <2>2. ASSUME NEW s \in SUBSET FaultType, Restart(s)
        PROVE  Unstored' /\ Copies'
    BY <2>2 DEF Restart, AllIdle, CopyInv, Unstored, Copies
  <2>3. CASE UNCHANGED vars
    BY <2>3 DEF vars, CopyInv, Unstored, Copies, FreshUnlessOvertaken, Current
  <2> QED
    BY <2>1, <2>2, <2>3, StartKeepsCopies, FinishRunKeepsCopies, CommitKeepsCopies
       DEF Next, Proceed
<1> QED
  BY <1>1, <1>2, PTL DEF Spec
-----------------------------------------------------------------------------
(* What a commit does, and the properties of the stored cases and trails   *)
(* that follow.                                                            *)

\* A commit turns the stored case, which is the copy the request read, into the
\* copy it computed, and adds one event to its trail.
LEMMA CommitStep ==
  ASSUME CopyInv, NEW w \in Worker, Commit(w)
  PROVE  LET r == request[w] IN
         /\ r \in Request /\ r.id \in Id /\ r.read \in Case /\ r.write \in Case
         /\ r.read.version = cases[r.id].version
         /\ r.read.status = cases[r.id].status
         /\ r.read.evidence = cases[r.id].evidence
         /\ r.read.reviews = cases[r.id].reviews
         /\ r.read.conclusion = cases[r.id].conclusion
         /\ IF r.action = "create" THEN r.read.version = 0 /\ r.read = NewCase(r.read.fault)
            ELSE r.read.version > 0 /\ r.read = cases[r.id]
         /\ Computed(r)
         /\ cases' = [cases EXCEPT ![r.id] = Saved(r)]
         /\ audit' = [audit EXCEPT ![r.id] = Append(@, AuditEvent(r))]
<1> DEFINE r == request[w]
<1>1. /\ pc[w] = "writing" /\ r \in Request /\ r.id \in Id
      /\ r.read \in Case /\ r.write \in Case
  BY DEF Commit, CopyInv, TypeOK, Request
<1>2. Computed(r) /\ FreshUnlessOvertaken(r)
  BY <1>1 DEF CopyInv, Copies
<1>3. Current(r)
  BY DEF Commit
<1>4. CASE r.action = "create"
  <2>1. r.read = NewCase(r.read.fault) /\ cases[r.id].version = 0
    BY <1>2, <1>3, <1>4 DEF FreshUnlessOvertaken, Current, NewCase
  <2>2. cases[r.id] = NewCase(NoFault)
    BY <1>1, <2>1 DEF CopyInv, Unstored
  <2> QED
    BY <1>1, <1>2, <1>3, <1>4, <2>1, <2>2 DEF NewCase, Current, Commit
<1>5. CASE r.action # "create"
  <2>1. r.read.version > 0 /\ r.read = cases[r.id]
    BY <1>2, <1>3, <1>5 DEF FreshUnlessOvertaken
  <2> QED
    BY <1>1, <1>2, <1>5, <2>1 DEF Commit
<1> QED
  BY <1>4, <1>5

\* What a request computed is never the change of a closed case, and keeps the
\* evidence and the reviews it read.
LEMMA ComputedKeeps ==
  ASSUME NEW r \in Request, Computed(r), r.action = "create" => r.read = NewCase(r.read.fault)
  PROVE  /\ r.read.status \notin TerminalStatuses
         /\ r.read.evidence \subseteq r.write.evidence
         /\ \/ r.write.reviews = r.read.reviews
            \/ /\ r.action \in ReviewActions
               /\ r.write.reviews = Append(r.read.reviews, r.action)
<1>1. r.read \in Case /\ r.action \in {"create", "run"} \cup ReviewActions
  BY DEF Request, Actions
<1>2. CASE r.action = "create"
  BY <1>2 DEF Computed, NewCase, TerminalStatuses
<1>3. CASE r.action = "run"
  BY <1>3 DEF Computed, RunComputed, RunnableStatuses, TerminalStatuses
<1>4. CASE r.action \in ReviewActions
  BY <1>1, <1>4, ApplyReviewType DEF Computed, CanReview
<1> QED
  BY <1>1, <1>2, <1>3, <1>4

\* A closed diagnosis is never written again, whatever was in flight when it
\* closed (case.py:27-33, 195).
THEOREM ClosedStaysClosed == Spec => ClosedIsFinal
<1>1. CopyInv /\ [Next]_vars =>
        [\A i \in Id : cases[i].status \in TerminalStatuses => cases'[i] = cases[i]]_vars
  <2> SUFFICES ASSUME CopyInv, [Next]_vars, NEW i \in Id, cases[i].status \in TerminalStatuses
               PROVE  cases'[i] = cases[i]
    OBVIOUS
  <2>1. ASSUME NEW w \in Worker, Commit(w)
        PROVE  cases'[i] = cases[i]
    <3>1. request[w].id # i
      BY <2>1, CommitStep, ComputedKeeps
    <3> QED
      BY <2>1, <3>1, CommitStep DEF CopyInv, TypeOK
  <2> QED
    BY <2>1, OnlyCommitsWrite
<1> QED
  BY <1>1, CopyInvariant, PTL DEF Spec, ClosedIsFinal

\* A sequence that was appended to starts with what it was.
LEMMA AppendExtends ==
  ASSUME NEW S, NEW s \in Seq(S), NEW e \in S, NEW t, t = s \/ t = Append(s, e)
  PROVE  Len(s) <= Len(t) /\ SubSeq(t, 1, Len(s)) = s
<1>1. /\ t \in Seq(S) /\ Len(s) \in Nat /\ Len(s) <= Len(t)
      /\ \A k \in 1..Len(s) : t[k] = s[k]
  BY AppendProperties, LenProperties
<1>2. /\ SubSeq(t, 1, Len(s)) \in Seq(S)
      /\ Len(SubSeq(t, 1, Len(s))) = Len(s)
      /\ \A k \in 1..Len(s) : SubSeq(t, 1, Len(s))[k] = s[k]
  <2>1. \A k \in 1..Len(s) : t[k] \in S
    BY <1>1, ElementOfSeq
  <2> QED
    BY <1>1, <2>1, SubSeqProperties
<1> QED
  BY <1>1, <1>2, SeqEqual

\* Evidence and reviews are never dropped, though runs and reviews work on copies
\* that other requests overtake: a write adds to what is stored when it commits,
\* and advances the version by one (case.py:90-92, audited_write.py:113-139).
THEOREM StoreOnlyGrows == Spec => NothingIsLost
<1> DEFINE Grows(i) ==
      cases'[i] # cases[i] =>
        /\ cases'[i].version = cases[i].version + 1
        /\ cases[i].evidence \subseteq cases'[i].evidence
        /\ Len(cases[i].reviews) <= Len(cases'[i].reviews)
        /\ SubSeq(cases'[i].reviews, 1, Len(cases[i].reviews)) = cases[i].reviews
<1>1. CopyInv /\ [Next]_vars => [\A i \in Id : Grows(i)]_vars
  <2> SUFFICES ASSUME CopyInv, [Next]_vars, NEW i \in Id, cases'[i] # cases[i]
               PROVE  Grows(i)
    OBVIOUS
  <2>1. PICK w \in Worker : Commit(w)
    BY OnlyCommitsWrite
  <2> DEFINE r == request[w]
  <2>2. r.id = i /\ cases'[i] = Saved(r)
    BY <2>1, CommitStep DEF CopyInv, TypeOK
  <2>3. /\ r \in Request
        /\ r.read.version = cases[i].version
        /\ r.read.evidence = cases[i].evidence
        /\ r.read.reviews = cases[i].reviews
        /\ Saved(r).version = r.read.version + 1
        /\ Saved(r).evidence = r.write.evidence
        /\ Saved(r).reviews = r.write.reviews
    BY <2>1, <2>2, CommitStep, SavedType
  <2>4. /\ r.read.evidence \subseteq r.write.evidence
        /\ \/ r.write.reviews = r.read.reviews
           \/ r.write.reviews = Append(r.read.reviews, r.action)
    BY <2>1, CommitStep, ComputedKeeps
  <2>5. r.read.reviews \in Seq(ReviewActions) /\ r.action \in Actions
    BY <2>3 DEF Request, Case
  <2>6. /\ Len(r.read.reviews) <= Len(r.write.reviews)
        /\ SubSeq(r.write.reviews, 1, Len(r.read.reviews)) = r.read.reviews
    <3>1. r.read.reviews \in Seq(Actions)
      BY <2>5, SeqMonotonic DEF Actions
    <3> QED
      BY <2>4, <2>5, <3>1, AppendExtends
  <2> QED
    BY <2>2, <2>3, <2>4, <2>6
<1> QED
  BY <1>1, CopyInvariant, PTL DEF Spec, NothingIsLost
-----------------------------------------------------------------------------
(* The audit trail. *)

\* AuditMatchesCase, of one trail.
LinkedEvent(trail, k) ==
  /\ trail[k].currentVersion = k
  /\ trail[k].previousVersion = k - 1
  /\ trail[k].previousState = IF k = 1 THEN "none" ELSE trail[k - 1].currentState
TrailOf(trail, version, status) ==
  /\ Len(trail) = version
  /\ \A k \in 1..version : LinkedEvent(trail, k)
  /\ version > 0 => status = trail[version].currentState

Trails == \A i \in Id : TrailOf(audit[i], cases[i].version, cases[i].status)

LEMMA TrailsSuffice == TypeOK /\ Trails => AuditMatchesCase
<1> SUFFICES ASSUME TypeOK, Trails, NEW i \in Id
             PROVE  /\ Len(audit[i]) = cases[i].version
                    /\ \A k \in DOMAIN audit[i] : LinkedEvent(audit[i], k)
                    /\ audit[i] # <<>> =>
                         cases[i].status = audit[i][Len(audit[i])].currentState
  BY DEF AuditMatchesCase, LinkedEvent
<1>1. audit[i] \in Seq(Event) /\ cases[i].version \in Nat
  BY DEF TypeOK, Case
<1>2. TrailOf(audit[i], cases[i].version, cases[i].status)
  BY DEF Trails
<1>3. DOMAIN audit[i] = 1..Len(audit[i]) /\ (audit[i] # <<>> => Len(audit[i]) > 0)
  BY <1>1, LenProperties, EmptySeq
<1> QED
  BY <1>2, <1>3 DEF TrailOf

\* An event that says where the trail ended continues it.
LEMMA TrailAppend ==
  ASSUME NEW trail \in Seq(Event), NEW n \in Nat, NEW status, TrailOf(trail, n, status),
         NEW e \in Event,
         e.currentVersion = n + 1, e.previousVersion = n,
         e.previousState = IF n = 0 THEN "none" ELSE status
  PROVE  TrailOf(Append(trail, e), n + 1, e.currentState)
<1> DEFINE longer == Append(trail, e)
<1>1. /\ Len(longer) = n + 1
      /\ \A k \in 1..n : longer[k] = trail[k]
      /\ longer[n + 1] = e
  BY AppendProperties DEF TrailOf
<1> HIDE DEF longer
<1>2. ASSUME NEW k \in 1..n
      PROVE  LinkedEvent(longer, k)
  <2>1. LinkedEvent(trail, k) /\ longer[k] = trail[k]
    BY <1>1 DEF TrailOf
  <2>2. k # 1 => longer[k - 1] = trail[k - 1]
    BY <1>1
  <2> QED
    BY <2>1, <2>2 DEF LinkedEvent
<1>3. LinkedEvent(longer, n + 1)
  <2>1. n # 0 => longer[n + 1 - 1].currentState = status
    BY <1>1 DEF TrailOf
  <2>2. n + 1 = 1 <=> n = 0
    OBVIOUS
  <2> QED
    BY <1>1, <2>1, <2>2 DEF LinkedEvent
<1>4. \A k \in 1..(n + 1) : k \in 1..n \/ k = n + 1
  OBVIOUS
<1> QED
  BY <1>1, <1>2, <1>3, <1>4 DEF TrailOf, longer

\* A commit that finds its version adds the one event its trail lacks.
LEMMA CommitKeepsTrail ==
  ASSUME CopyInv, Trails, NEW w \in Worker, Commit(w)
  PROVE  Trails'
<1> DEFINE r == request[w]
<1>1. /\ r.id \in Id /\ r \in Request /\ cases[r.id].version \in Nat
      /\ audit[r.id] \in Seq(Event)
  BY CommitStep DEF CopyInv, TypeOK, Case
<1>2. /\ r.read.version = cases[r.id].version
      /\ r.read.status = cases[r.id].status
      /\ IF r.action = "create" THEN cases[r.id].version = 0 ELSE cases[r.id].version > 0
      /\ cases'[r.id] = Saved(r)
      /\ audit'[r.id] = Append(audit[r.id], AuditEvent(r))
  BY <1>1, CommitStep DEF CopyInv, TypeOK
<1>3. Saved(r).version = cases[r.id].version + 1 /\ Saved(r).status = r.write.status
  BY <1>1, <1>2, SavedType
<1>4. /\ AuditEvent(r) \in Event
      /\ AuditEvent(r).currentVersion = cases[r.id].version + 1
      /\ AuditEvent(r).previousVersion = cases[r.id].version
      /\ AuditEvent(r).previousState =
           IF cases[r.id].version = 0 THEN "none" ELSE cases[r.id].status
      /\ AuditEvent(r).currentState = r.write.status
  BY <1>1, <1>2, AuditEventType DEF AuditEvent
<1>5. TrailOf(audit[r.id], cases[r.id].version, cases[r.id].status)
  BY <1>1 DEF Trails
<1>6. TrailOf(audit'[r.id], cases'[r.id].version, cases'[r.id].status)
  BY <1>1, <1>2, <1>3, <1>4, <1>5, TrailAppend
<1>7. ASSUME NEW j \in Id, j # r.id
      PROVE  cases'[j] = cases[j] /\ audit'[j] = audit[j]
  BY <1>7, CommitStep DEF CopyInv, TypeOK
<1> QED
  BY <1>6, <1>7 DEF Trails

\* Each stored version of a diagnosis has exactly one audit event, which says from
\* which state and version to which it went, however many requests race for it
\* (audited_write.py:38-76, diagnoses.py:690-723).
THEOREM TrailMatchesCase == Spec => []AuditMatchesCase
<1>1. Init => Trails
  BY DEF Init, Trails, TrailOf, NewCase
<1>2. CopyInv /\ Trails /\ [Next]_vars => Trails'
  <2>1. Trails /\ UNCHANGED <<cases, audit>> => Trails'
    BY DEF Trails
  <2> QED
    BY <2>1, OnlyCommitsWrite, CommitKeepsTrail
<1>3. CopyInv /\ Trails => AuditMatchesCase
  BY TrailsSuffice DEF CopyInv
<1> QED
  BY <1>1, <1>2, <1>3, CopyInvariant, PTL DEF Spec

-----------------------------------------------------------------------------
(* Conclusions. *)

\* ConclusionSupported, of one case.
Supported(c) ==
  c.conclusion # NoConclusion =>
    /\ c.conclusion.fault = c.fault
    /\ c.conclusion.cited # {} /\ c.conclusion.cited \subseteq c.evidence
    /\ c.conclusion.confidence = "probable" =>
         \E a, b \in c.conclusion.cited : a.type # b.type /\ SolidFact(a) /\ SolidFact(b)

\* What the citation policy accepts is supported (citation_policy.py:69-138).
LEMMA AcceptedIsSupported ==
  ASSUME NEW evidence, NEW cited, NEW confidence, PolicyAccepts(evidence, cited, confidence)
  PROVE  /\ cited # {} /\ cited \subseteq evidence
         /\ confidence = "probable" =>
              \E a, b \in cited : a.type # b.type /\ SolidFact(a) /\ SolidFact(b)
BY DEF PolicyAccepts, EnoughFactTypes, SolidFact

LEMMA ComputedIsSupported ==
  ASSUME NEW r \in Request, Computed(r), Supported(r.read),
         r.action = "create" => r.read = NewCase(r.read.fault)
  PROVE  Supported(r.write)
<1>1. r.read \in Case /\ r.action \in {"create", "run"} \cup ReviewActions
  BY DEF Request, Actions
<1>2. CASE r.action = "create"
  BY <1>2 DEF Computed, Supported
<1>3. CASE r.action = "run"
  <2>1. RunComputed(r)
    BY <1>3 DEF Computed
  <2>2. CASE r.write.status = "waiting_for_confirmation"
    BY <2>1, <2>2, AcceptedIsSupported DEF RunComputed, Supported
  <2>3. CASE r.write.status # "waiting_for_confirmation"
    BY <2>1, <2>3 DEF RunComputed, Supported
  <2> QED
    BY <2>2, <2>3
<1>4. CASE r.action \in ReviewActions
  BY <1>1, <1>4, ApplyReviewType DEF Computed, Supported
<1> QED
  BY <1>1, <1>2, <1>3, <1>4

\* OfferedConclusion, of one case and its trail; the run that made the offer is
\* in the trail at the version of the offer.
Offered(c, trail) ==
  /\ c.status = "waiting_for_confirmation" =>
       /\ c.conclusion.id = c.version
       /\ c.version \in 1..Len(trail)
       /\ trail[c.version].action = "run"
  /\ c.status = "confirmed" =>
       /\ c.conclusion.id = c.version - 1
       /\ trail[c.version - 1].action = "run"

ConclusionInv == \A i \in Id : Supported(cases[i]) /\ Offered(cases[i], audit[i])

LEMMA CommitKeepsConclusion ==
  ASSUME CopyInv, Trails, ConclusionInv, NEW w \in Worker, Commit(w)
  PROVE  ConclusionInv'
<1> DEFINE r == request[w]
           i == r.id
           n == cases[i].version
           e == AuditEvent(r)
<1>1. /\ i \in Id /\ r \in Request /\ n \in Nat
      /\ audit[i] \in Seq(Event) /\ Len(audit[i]) = n
  BY CommitStep DEF CopyInv, TypeOK, Case, Trails, TrailOf
<1>2. /\ r.read.version = n
      /\ r.read.status = cases[i].status
      /\ r.read.conclusion = cases[i].conclusion
      /\ r.action = "create" => r.read = NewCase(r.read.fault)
      /\ r.action # "create" => r.read = cases[i]
      /\ Computed(r)
      /\ cases'[i] = Saved(r)
      /\ audit'[i] = Append(audit[i], e)
  BY <1>1, CommitStep DEF CopyInv, TypeOK
<1>3. /\ Saved(r).version = n + 1
      /\ Saved(r).status = r.write.status
      /\ Saved(r).fault = r.write.fault
      /\ Saved(r).evidence = r.write.evidence
      /\ Saved(r).conclusion = r.write.conclusion
  BY <1>1, <1>2, SavedType
<1>4. /\ Len(audit'[i]) = n + 1
      /\ \A k \in 1..n : audit'[i][k] = audit[i][k]
      /\ audit'[i][n + 1] = e
      /\ e.action = r.action
  <2>1. e \in Event /\ e.action = r.action
    BY <1>1, AuditEventType DEF AuditEvent
  <2> QED
    BY <1>1, <1>2, <2>1, AppendProperties
<1>5. Supported(r.read) /\ Offered(cases[i], audit[i])
  <2>1. CASE r.action = "create"
    BY <1>1, <1>2, <2>1 DEF ConclusionInv, Supported, NewCase
  <2>2. CASE r.action # "create"
    BY <1>1, <1>2, <2>2 DEF ConclusionInv
  <2> QED
    BY <2>1, <2>2
<1>6. Supported(cases'[i])
  <2>1. Supported(r.write)
    BY <1>1, <1>2, <1>5, ComputedIsSupported
  <2> QED
    BY <1>2, <1>3, <2>1 DEF Supported
<1> HIDE DEF n, e
<1>7. ASSUME r.write.status = "waiting_for_confirmation"
      PROVE  r.action = "run" /\ r.write.conclusion.id = n + 1
  <2>1. r.read \in Case /\ r.action \in {"create", "run"} \cup ReviewActions
    BY <1>1 DEF Request, Actions
  <2>2. r.action # "create"
    BY <1>2, <1>7 DEF Computed, NewCase
  <2>3. r.action \notin ReviewActions
    BY <1>2, <1>7, <2>1, ApplyReviewType DEF Computed
  <2> QED
    BY <1>2, <1>7, <2>1, <2>2, <2>3 DEF Computed, RunComputed
<1>8. ASSUME r.write.status = "confirmed"
      PROVE  /\ cases[i].status = "waiting_for_confirmation"
             /\ r.write.conclusion = cases[i].conclusion
  <2>1. r.read \in Case /\ r.action \in {"create", "run"} \cup ReviewActions
    BY <1>1 DEF Request, Actions
  <2>2. r.action = "confirm"
    BY <1>2, <1>8, <2>1, ApplyReviewType DEF Computed, RunComputed, NewCase
  <2> QED
    BY <1>2, <2>1, <2>2, ApplyReviewType DEF Computed, CanReview, ReviewActions
<1>9. Offered(cases'[i], audit'[i])
  <2>1. cases'[i].status = "waiting_for_confirmation" =>
          /\ cases'[i].conclusion.id = cases'[i].version
          /\ cases'[i].version \in 1..Len(audit'[i])
          /\ audit'[i][cases'[i].version].action = "run"
    BY <1>1, <1>2, <1>3, <1>4, <1>7 DEF n
  <2>2. cases'[i].status = "confirmed" =>
          /\ cases'[i].conclusion.id = cases'[i].version - 1
          /\ audit'[i][cases'[i].version - 1].action = "run"
    <3> SUFFICES ASSUME cases'[i].status = "confirmed"
                 PROVE  /\ cases'[i].conclusion.id = n
                        /\ audit'[i][n].action = "run"
                        /\ cases'[i].version - 1 = n
      OBVIOUS
    <3>1. /\ cases[i].conclusion.id = n /\ n \in 1..Len(audit[i])
          /\ audit[i][n].action = "run"
      BY <1>2, <1>3, <1>5, <1>8 DEF Offered, n
    <3> QED
      BY <1>1, <1>2, <1>3, <1>4, <1>8, <3>1
  <2> QED
    BY <2>1, <2>2 DEF Offered
<1>10. ASSUME NEW j \in Id, j # i
       PROVE  cases'[j] = cases[j] /\ audit'[j] = audit[j]
  BY <1>10, CommitStep DEF CopyInv, TypeOK
<1> QED
  BY <1>6, <1>9, <1>10 DEF ConclusionInv

LEMMA ConclusionInvariant == Spec => []ConclusionInv
<1>1. Init => Trails /\ ConclusionInv
  BY DEF Init, Trails, TrailOf, ConclusionInv, Supported, Offered, NewCase
<1>2. CopyInv /\ Trails /\ ConclusionInv /\ [Next]_vars => Trails' /\ ConclusionInv'
  <2>1. Trails /\ ConclusionInv /\ UNCHANGED <<cases, audit>> => Trails' /\ ConclusionInv'
    BY DEF Trails, ConclusionInv
  <2> QED
    BY <2>1, OnlyCommitsWrite, CommitKeepsTrail, CommitKeepsConclusion
<1> QED
  BY <1>1, <1>2, CopyInvariant, PTL DEF Spec

\* Whatever reruns added since, a stored conclusion is of the fault type of its
\* case, cites evidence the case holds, and is probable only on two kinds of
\* device facts that are not of low reliability (citation_policy.py:69-138).
THEOREM ConclusionsAreSupported == Spec => []ConclusionSupported
<1>1. ConclusionInv => ConclusionSupported
  BY DEF ConclusionInv, Supported, ConclusionSupported
<1> QED
  BY <1>1, ConclusionInvariant, PTL

\* A human confirms the conclusion of the run just before, never one an earlier
\* run left behind (case.py:198-206, diagnoses.py:541-550).
THEOREM ConfirmedAsOffered == Spec => []OfferedConclusion
<1>1. ConclusionInv => OfferedConclusion
  BY DEF ConclusionInv, Offered, OfferedConclusion
<1> QED
  BY <1>1, ConclusionInvariant, PTL

-----------------------------------------------------------------------------
(* Refinement: each commit is one operation of DiagnosisLifecycle. *)

LEMMA FunctionIsSeq ==
  ASSUME NEW S, NEW n \in Nat, NEW f \in [1..n -> S]
  PROVE  f \in Seq(S) /\ Len(f) = n
<1>1. f \in Seq(S)
  BY SeqDef
<1>2. DOMAIN f = 1..Len(f) /\ Len(f) \in Nat
  BY <1>1, LenProperties
<1> QED
  BY <1>1, <1>2

Entry == [operation : Actions, left : Statuses]

\* The journal of a trail has one entry for each of its events.
LEMMA JournalType ==
  ASSUME NEW trail \in Seq(Event)
  PROVE  JournalOf(trail) \in Seq(Entry) /\ Len(JournalOf(trail)) = Len(trail)
<1>1. DOMAIN trail = 1..Len(trail) /\ Len(trail) \in Nat
  BY LenProperties
<1>2. \A k \in 1..Len(trail) : trail[k] \in Event
  BY ElementOfSeq
<1>3. JournalOf(trail) \in [1..Len(trail) -> Entry]
  BY <1>1, <1>2 DEF JournalOf, Event, Entry
<1> QED
  BY <1>1, <1>3, FunctionIsSeq

\* An event added to a trail is an entry added to its journal.
LEMMA JournalAppend ==
  ASSUME NEW trail \in Seq(Event), NEW e \in Event
  PROVE  JournalOf(Append(trail, e)) =
           Append(JournalOf(trail), [operation |-> e.action, left |-> e.currentState])
<1> DEFINE new == [operation |-> e.action, left |-> e.currentState]
           longer == Append(trail, e)
           n == Len(trail)
<1>1. /\ n \in Nat /\ longer \in Seq(Event) /\ Len(longer) = n + 1
      /\ \A k \in 1..n : longer[k] = trail[k]
      /\ longer[n + 1] = e
      /\ DOMAIN trail = 1..n /\ DOMAIN longer = 1..(n + 1)
  BY AppendProperties, LenProperties
<1>2. new \in Entry
  BY DEF Event, Entry
<1>3. JournalOf(trail) \in Seq(Entry) /\ Len(JournalOf(trail)) = n
  BY JournalType
<1>4. JournalOf(longer) \in Seq(Entry) /\ Len(JournalOf(longer)) = n + 1
  BY <1>1, JournalType
<1>5. /\ Append(JournalOf(trail), new) \in Seq(Entry)
      /\ Len(Append(JournalOf(trail), new)) = n + 1
      /\ \A k \in 1..n : Append(JournalOf(trail), new)[k] = JournalOf(trail)[k]
      /\ Append(JournalOf(trail), new)[n + 1] = new
  BY <1>2, <1>3, AppendProperties
<1>6. /\ \A k \in 1..n : JournalOf(longer)[k] = JournalOf(trail)[k]
      /\ JournalOf(longer)[n + 1] = new
  BY <1>1 DEF JournalOf
<1> HIDE DEF new, longer
<1>7. \A k \in 1..(n + 1) : JournalOf(longer)[k] = Append(JournalOf(trail), new)[k]
  BY <1>1, <1>5, <1>6
<1>8. JournalOf(longer) = Append(JournalOf(trail), new)
  BY <1>4, <1>5, <1>7, SeqEqual
<1> QED
  BY <1>8 DEF new, longer

LEMMA CommitIsAnOperation ==
  ASSUME CopyInv, NEW w \in Worker, Commit(w)
  PROVE  Lifecycle!Next
<1> DEFINE r == request[w]
           i == r.id
           status == StatusOf(cases[i])
<1>1. /\ i \in Id /\ r \in Request /\ r.read \in Case
      /\ audit[i] \in Seq(Event) /\ AuditEvent(r) \in Event
      /\ r.action \in {"create", "run", "confirm", "reject", "request_more_info"}
  BY CommitStep, AuditEventType DEF CopyInv, TypeOK, Request, Actions, ReviewActions
<1>2. /\ r.read.version = cases[i].version
      /\ r.read.status = cases[i].status
      /\ IF r.action = "create" THEN r.read.version = 0 /\ r.read = NewCase(r.read.fault)
         ELSE r.read.version > 0
      /\ Computed(r)
      /\ cases' = [cases EXCEPT ![i] = Saved(r)]
      /\ audit' = [audit EXCEPT ![i] = Append(@, AuditEvent(r))]
  BY <1>1, CommitStep
<1>3. StatusOf(Saved(r)) = r.write.status
  <2>1. Saved(r).version > 0 /\ Saved(r).status = r.write.status
    BY <1>1, SavedType DEF Case
  <2> QED
    BY <2>1 DEF StatusOf
<1>4. Lifecycle!Record(i, r.action, r.write.status)
  <2>1. JournalOf(Append(audit[i], AuditEvent(r))) =
          Append(JournalOf(audit[i]), [operation |-> r.action, left |-> r.write.status])
    BY <1>1, JournalAppend DEF AuditEvent
  <2>2. [j \in Id |-> JournalOf(audit'[j])] =
          [[j \in Id |-> JournalOf(audit[j])] EXCEPT
             ![i] = Append(@, [operation |-> r.action, left |-> r.write.status])]
    BY <1>1, <1>2, <2>1 DEF CopyInv, TypeOK
  <2>3. [j \in Id |-> StatusOf(cases'[j])] =
          [[j \in Id |-> StatusOf(cases[j])] EXCEPT ![i] = r.write.status]
    BY <1>1, <1>2, <1>3 DEF CopyInv, TypeOK
  <2> QED
    BY <2>2, <2>3 DEF Lifecycle!Record
<1>5. /\ r.action = "create" => status = "absent" /\ r.write.status = "created"
      /\ r.action # "create" => status = cases[i].status
  BY <1>1, <1>2 DEF StatusOf, Computed, NewCase, Case
<1>6. r.read.status \notin TerminalStatuses
  BY <1>1, <1>2, ComputedKeeps
<1>7. status = [j \in Id |-> StatusOf(cases[j])][i]
  BY <1>1
<1> HIDE DEF status, i
<1>8. CASE r.action = "create"
  BY <1>1, <1>4, <1>5, <1>7, <1>8 DEF Lifecycle!Next, Lifecycle!Create
<1>9. CASE r.action = "run"
  <2>1. /\ status \in {"created", "waiting_for_input"}
        /\ r.write.status \in {"waiting_for_input", "waiting_for_confirmation", "inconclusive"}
    BY <1>2, <1>5, <1>9 DEF Computed, RunComputed, RunnableStatuses
  <2> QED
    BY <1>1, <1>4, <1>7, <1>9, <2>1
       DEF Lifecycle!Next, Lifecycle!Run, Lifecycle!Runnable, Lifecycle!RunResults
<1>10. CASE r.action = "confirm"
  <2>1. status = "waiting_for_confirmation" /\ r.write.status = "confirmed"
    BY <1>1, <1>2, <1>5, <1>10, ApplyReviewType DEF Computed, CanReview, ReviewActions
  <2> QED
    BY <1>1, <1>4, <1>7, <1>10, <2>1 DEF Lifecycle!Next, Lifecycle!Confirm
<1>11. CASE r.action \in {"reject", "request_more_info"}
  <2>1. status \notin {"absent", "confirmed", "rejected", "inconclusive"}
    BY <1>1, <1>2, <1>5, <1>6, <1>11 DEF TerminalStatuses, Case, Statuses
  <2>2. /\ r.action = "reject" => r.write.status = "rejected"
        /\ r.action = "request_more_info" => r.write.status = "waiting_for_input"
    BY <1>1, <1>2 DEF Computed, ApplyReview, ReviewTarget, ReviewActions, Case
  <2> QED
    BY <1>1, <1>4, <1>7, <1>11, <2>1, <2>2
       DEF Lifecycle!Next, Lifecycle!Reject, Lifecycle!AskForMore, Lifecycle!Closed
<1> QED
  BY <1>1, <1>8, <1>9, <1>10, <1>11

\* The store implements the lifecycle: to a reader each diagnosis is one journal
\* of operations that happened in one step, each allowed in the state the one
\* before it left, though the service reads, computes and writes in separate
\* steps (diagnoses.py:381-633, audited_write.py:59-139).
THEOREM ServiceImplementsLifecycle == Spec => ImplementsLifecycle
<1>1. Init => Lifecycle!Init
  <2> SUFFICES ASSUME Init PROVE Lifecycle!Init
    OBVIOUS
  <2>1. \A i \in Id : JournalOf(audit[i]) = <<>> /\ StatusOf(cases[i]) = "absent"
    BY DEF Init, JournalOf, StatusOf, NewCase
  <2> QED
    BY <2>1 DEF Lifecycle!Init
<1>2. CopyInv /\ [Next]_vars => [Lifecycle!Next]_(Lifecycle!lifecycleVars)
  <2>1. UNCHANGED <<cases, audit>> => UNCHANGED Lifecycle!lifecycleVars
    BY DEF Lifecycle!lifecycleVars
  <2> QED
    BY <2>1, OnlyCommitsWrite, CommitIsAnOperation
<1> QED
  BY <1>1, <1>2, CopyInvariant, PTL DEF Spec, ImplementsLifecycle, Lifecycle!Spec

-----------------------------------------------------------------------------
(* Where the copies of the requests come from. *)

\* A busy worker holds the copy it held before, or one it just read or made, which
\* for a creation or a run is of a supported fault type.
LEMMA CopiesComeFromTheStore ==
  ASSUME CopyInv, [Next]_vars, NEW v \in Worker, pc'[v] \in {"running", "writing"}
  PROVE  /\ supported' = supported
         /\ \/ /\ pc[v] \in {"running", "writing"}
               /\ request'[v].read = request[v].read
               /\ request'[v].action = request[v].action
            \/ /\ request'[v].read \in {cases[i] : i \in Id} \cup {NewCase(f) : f \in FaultType}
               /\ request'[v].action \in {"create", "run"} => request'[v].read.fault \in supported
<1>1. ASSUME NEW w \in Worker, Start(w)
      PROVE  /\ supported' = supported
             /\ \/ pc'[v] = pc[v] /\ request'[v] = request[v]
                \/ /\ request'[v].read \in {cases[i] : i \in Id} \cup
                                            {NewCase(f) : f \in FaultType}
                   /\ request'[v].action \in {"create", "run"} =>
                        request'[v].read.fault \in supported
  <2>1. PICK i \in Id :
          \/ \E f \in FaultType : StartCreate(w, i, f)
          \/ StartRun(w, i)
          \/ \E a \in ReviewActions : StartReview(w, i, a)
          \/ Refuse(w, i)
    BY <1>1 DEF Start
  <2>2. ASSUME NEW action, NEW read, NEW write, NEW next,
               Accept(w, i, action, read, write, next)
        PROVE  /\ supported' = supported
               /\ \/ pc'[v] = pc[v] /\ request'[v] = request[v]
                  \/ request'[v].read = read /\ request'[v].action = action
    BY <2>2 DEF Accept, CopyInv, TypeOK
  <2>3. ASSUME NEW f \in FaultType, StartCreate(w, i, f)
        PROVE  f \in supported /\ Accept(w, i, "create", NewCase(f), NewCase(f), "writing")
    BY <2>3 DEF StartCreate, Supports
  <2>4. CASE \E f \in FaultType : StartCreate(w, i, f)
    <3>1. PICK f \in FaultType : StartCreate(w, i, f)
      BY <2>4
    <3>2. NewCase(f).fault \in supported
      BY <2>3, <3>1 DEF NewCase
    <3>3. /\ supported' = supported
          /\ \/ pc'[v] = pc[v] /\ request'[v] = request[v]
             \/ request'[v].read = NewCase(f) /\ request'[v].action = "create"
      BY <2>2, <2>3, <3>1
    <3> QED
      BY <3>2, <3>3
  <2>5. CASE StartRun(w, i)
    BY <2>2, <2>5 DEF StartRun, Supports
  <2>6. CASE \E a \in ReviewActions : StartReview(w, i, a)
    BY <2>2, <2>6 DEF StartReview, ReviewActions
  <2>7. CASE Refuse(w, i)
    BY <2>7 DEF Refuse
  <2> QED
    BY <2>1, <2>4, <2>5, <2>6, <2>7
<1>2. ASSUME NEW w \in Worker, NEW out \in Outcome, FinishRun(w, out)
      PROVE  /\ supported' = supported
             /\ pc[v] \in {"running", "writing"}
             /\ request'[v].read = request[v].read
             /\ request'[v].action = request[v].action
  <2>1. CASE Respond(w, Failed(request[w].number, "error"))
    BY <2>1 DEF Respond, Finish, CopyInv, TypeOK
  <2>2. ASSUME NEW c, WriteBack(w, c)
        PROVE  /\ supported' = supported
               /\ pc[v] \in {"running", "writing"}
               /\ request'[v].read = request[v].read
               /\ request'[v].action = request[v].action
    <3>1. pc[w] = "running" /\ request[w] \in Request
      BY <1>2 DEF FinishRun, CopyInv, TypeOK
    <3> QED
      BY <2>2, <3>1 DEF WriteBack, CopyInv, TypeOK, Request
  <2> QED
    BY <1>2, <2>1, <2>2, RunResults DEF CopyInv
<1>3. ASSUME NEW w \in Worker,
             \/ Commit(w) \/ Conflict(w) \/ WriteFails(w) \/ ReadBack(w) \/ ReadBackFails(w)
      PROVE  /\ supported' = supported
             /\ pc'[v] = pc[v] /\ request'[v] = request[v]
  BY <1>3 DEF Commit, Conflict, WriteFails, ReadBack, ReadBackFails, Respond, Finish,
              CopyInv, TypeOK
<1>4. ~ \E s \in SUBSET FaultType : Restart(s)
  BY DEF Restart, AllIdle
<1>5. UNCHANGED vars => supported' = supported /\ pc'[v] = pc[v] /\ request'[v] = request[v]
  BY DEF vars
<1> QED
  BY <1>1, <1>2, <1>3, <1>4, <1>5 DEF Next, Proceed

\* What a request computed from a well-formed case is one, and is not a run half
\* done.
LEMMA ComputedIsWellFormed ==
  ASSUME NEW r \in Request, Computed(r), WellFormed(r.read),
         r.action = "create" => r.read = NewCase(r.read.fault)
  PROVE  r.write.status # "investigating" /\ WellFormed(r.write)
<1>1. /\ r.read \in Case /\ r.read.reviews \in Seq(ReviewActions)
      /\ r.action \in {"create", "run"} \cup ReviewActions
  BY DEF Request, Actions, Case
<1>2. CASE r.action = "create"
  BY <1>2 DEF Computed, NewCase, WellFormed
<1>3. CASE r.action = "run"
  <2>1. RunComputed(r)
    BY <1>3 DEF Computed
  <2> QED
    BY <2>1 DEF RunComputed, RunnableStatuses, WellFormed
<1>4. CASE r.action \in ReviewActions
  <2> DEFINE longer == Append(r.read.reviews, r.action)
  <2>1. CanReview(r.read, r.action) /\ r.write = ApplyReview(r.read, r.action)
    BY <1>4 DEF Computed
  <2>2. /\ r.write.reviews = longer
        /\ r.write.conclusion = r.read.conclusion
        /\ r.write.status = "confirmed" <=> r.action = "confirm"
        /\ r.write.status # "investigating"
    <3> DEFINE reviewed == ApplyReview(r.read, r.action)
    <3>1. /\ reviewed.status \in {"confirmed", "rejected", "waiting_for_input"}
          /\ reviewed.status = "confirmed" <=> r.action = "confirm"
          /\ reviewed.reviews = longer
          /\ reviewed.conclusion = r.read.conclusion
      BY <1>1, <1>4, ApplyReviewType
    <3> HIDE DEF reviewed, longer
    <3>2. r.write = reviewed
      BY <2>1 DEF reviewed
    <3> QED
      BY <3>1, <3>2
  <2>3. /\ Len(longer) = Len(r.read.reviews) + 1 /\ Len(r.read.reviews) \in Nat
        /\ longer # <<>> /\ longer[Len(longer)] = r.action
        /\ \A k \in 1..Len(r.read.reviews) : longer[k] = r.read.reviews[k]
        /\ DOMAIN longer = 1..Len(longer)
        /\ DOMAIN r.read.reviews = 1..Len(r.read.reviews)
    BY <1>1, <1>4, AppendProperties, LenProperties
  <2>4. r.read.status # "confirmed"
    BY <2>1 DEF CanReview, TerminalStatuses
  <2>5. CASE r.action = "confirm"
    BY <2>1, <2>2, <2>3, <2>5 DEF WellFormed, CanReview, LastReview
  <2>6. CASE r.action # "confirm"
    <3> HIDE DEF longer
    <3>1. \A k \in DOMAIN longer : longer[k] # "confirm"
      BY <2>3, <2>4, <2>6 DEF WellFormed
    <3> QED
      BY <2>2, <2>6, <3>1 DEF WellFormed
  <2> QED
    BY <2>5, <2>6
<1> QED
  BY <1>1, <1>2, <1>3, <1>4

WholeCases ==
  /\ \A i \in Id : cases[i].status # "investigating" /\ WellFormed(cases[i])
  /\ \A w \in Worker : pc[w] \in {"running", "writing"} => WellFormed(request[w].read)

\* Nothing half done is ever stored, and the validation at the write rejects
\* nothing the service computed (case.py:99-118, diagnoses.py:398).
THEOREM NothingHalfDoneIsStored == Spec => []NothingHalfDone
<1>1. \A f : NewCase(f).status # "investigating" /\ WellFormed(NewCase(f))
  BY DEF NewCase, WellFormed
<1>2. Init => WholeCases
  BY <1>1 DEF Init, AllIdle, WholeCases
<1>3. CopyInv /\ WholeCases /\ [Next]_vars => WholeCases'
  <2> SUFFICES ASSUME CopyInv, WholeCases, [Next]_vars
               PROVE  WholeCases'
    OBVIOUS
  <2>1. ASSUME NEW v \in Worker, pc'[v] \in {"running", "writing"}
        PROVE  WellFormed(request'[v].read)
    BY <1>1, <2>1, CopiesComeFromTheStore DEF WholeCases
  <2>2. ASSUME NEW i \in Id
        PROVE  cases'[i].status # "investigating" /\ WellFormed(cases'[i])
    <3>1. ASSUME NEW w \in Worker, Commit(w), request[w].id = i
          PROVE  cases'[i].status # "investigating" /\ WellFormed(cases'[i])
      <4> DEFINE r == request[w]
      <4>1. /\ r \in Request /\ Computed(r) /\ cases'[i] = Saved(r)
            /\ r.action = "create" => r.read = NewCase(r.read.fault)
        BY <3>1, CommitStep DEF CopyInv, TypeOK
      <4>2. WellFormed(r.read)
        BY <3>1 DEF WholeCases, Commit
      <4>3. r.write.status # "investigating" /\ WellFormed(r.write)
        BY <4>1, <4>2, ComputedIsWellFormed
      <4>4. /\ Saved(r).status = r.write.status
            /\ Saved(r).conclusion = r.write.conclusion
            /\ Saved(r).reviews = r.write.reviews
        BY <4>1, SavedType
      <4> QED
        BY <4>1, <4>3, <4>4 DEF WellFormed, LastReview
    <3>2. ASSUME NEW w \in Worker, Commit(w), request[w].id # i
          PROVE  cases'[i] = cases[i]
      BY <3>2, CommitStep DEF CopyInv, TypeOK
    <3> QED
      BY <3>1, <3>2, OnlyCommitsWrite DEF WholeCases
  <2> QED
    BY <2>1, <2>2 DEF WholeCases
<1>4. CopyInv /\ WholeCases => NothingHalfDone
  <2> SUFFICES ASSUME CopyInv, WholeCases, NEW w \in Worker, pc[w] = "writing"
               PROVE  request[w].write.status # "investigating" /\ WellFormed(request[w].write)
    BY DEF NothingHalfDone, WholeCases
  <2>1. /\ request[w] \in Request /\ Computed(request[w])
        /\ FreshUnlessOvertaken(request[w]) /\ WellFormed(request[w].read)
    BY DEF CopyInv, TypeOK, Copies, WholeCases
  <2> QED
    BY <2>1, ComputedIsWellFormed DEF FreshUnlessOvertaken
<1> QED
  BY <1>2, <1>3, <1>4, CopyInvariant, PTL DEF Spec

SupportedCopies ==
  \A w \in Worker : pc[w] \in {"running", "writing"} /\ request[w].action \in {"create", "run"} =>
    request[w].read.fault \in supported

\* Nothing of an unsupported fault type is created or run, though a restart may
\* leave diagnoses in the database that an earlier runtime supported
\* (diagnoses.py:331-340, 394-396).
THEOREM RunsAreSupported == Spec => OnlySupportedRuns
<1>1. Init => SupportedCopies
  BY DEF Init, AllIdle, SupportedCopies
<1>2. CopyInv /\ SupportedCopies /\ [Next]_vars => SupportedCopies'
  BY CopiesComeFromTheStore DEF SupportedCopies
<1>3. CopyInv /\ SupportedCopies /\ [Next]_vars =>
        [\A i \in Id : audit'[i] # audit[i] =>
           LET e == audit'[i][Len(audit'[i])]
           IN  e.action \in {"create", "run"} => cases'[i].fault \in supported]_vars
  <2> SUFFICES ASSUME CopyInv, SupportedCopies, [Next]_vars,
                      NEW i \in Id, audit'[i] # audit[i],
                      audit'[i][Len(audit'[i])].action \in {"create", "run"}
               PROVE  cases'[i].fault \in supported
    OBVIOUS
  <2>1. PICK w \in Worker : Commit(w)
    BY OnlyCommitsWrite
  <2> DEFINE r == request[w]
  <2>2. /\ r \in Request /\ Computed(r) /\ r.id = i /\ cases'[i] = Saved(r)
        /\ audit[i] \in Seq(Event)
        /\ audit'[i] = Append(audit[i], AuditEvent(r))
    BY <2>1, CommitStep DEF CopyInv, TypeOK
  <2>3. audit'[i][Len(audit'[i])] = AuditEvent(r)
    BY <2>2, AuditEventType, AppendProperties
  <2>4. r.action \in {"create", "run"}
    BY <2>3 DEF AuditEvent
  <2>5. r.read.fault \in supported
    BY <2>1, <2>4 DEF SupportedCopies, Commit
  <2>6. r.write.fault = r.read.fault
    BY <2>2, <2>4 DEF Computed, RunComputed
  <2> QED
    BY <2>2, <2>5, <2>6, SavedType
<1> QED
  BY <1>1, <1>2, <1>3, CopyInvariant, PTL DEF Spec, OnlySupportedRuns

-----------------------------------------------------------------------------
(* Reviews and the trail. *)

\* ReviewsMatchAudit, of one trail.
ReviewsOf(trail, reviews) ==
  LET reviewed == ReviewedVersions(trail) IN
  /\ Len(reviews) = Cardinality(reviewed)
  /\ \A k \in reviewed : reviews[Cardinality(reviewed \cap (1..k))] = trail[k].action

\* The events of a trail that are reviews are finitely many; up to one of them there
\* is at least one.
LEMMA ReviewedFinite ==
  ASSUME NEW trail \in Seq(Event)
  PROVE  LET reviewed == ReviewedVersions(trail) IN
         /\ reviewed \subseteq 1..Len(trail) /\ Len(trail) \in Nat
         /\ IsFiniteSet(reviewed) /\ Cardinality(reviewed) \in Nat
         /\ \A k \in reviewed :
              Cardinality(reviewed \cap (1..k)) \in 1..Cardinality(reviewed)
<1> DEFINE reviewed == ReviewedVersions(trail)
<1>1. reviewed \subseteq 1..Len(trail) /\ Len(trail) \in Nat
  BY LenProperties DEF ReviewedVersions
<1>2. IsFiniteSet(1..Len(trail))
  BY <1>1, FS_Interval
<1>3. IsFiniteSet(reviewed)
  BY <1>1, <1>2, FS_Subset
<1>4. Cardinality(reviewed) \in Nat
  BY <1>3, FS_CardinalityType
<1> HIDE DEF reviewed
<1>5. ASSUME NEW k \in reviewed
      PROVE  Cardinality(reviewed \cap (1..k)) \in 1..Cardinality(reviewed)
  <2> DEFINE upTo == reviewed \cap (1..k)
  <2>1. upTo \in SUBSET reviewed /\ k \in upTo
    BY <1>1
  <2> HIDE DEF upTo
  <2>2. IsFiniteSet(upTo) /\ Cardinality(upTo) <= Cardinality(reviewed)
    BY <1>3, <2>1, FS_Subset
  <2>3. Cardinality(upTo) \in Nat /\ Cardinality(upTo) # 0
    BY <2>1, <2>2, FS_CardinalityType, FS_EmptySet
  <2> QED
    BY <1>4, <2>2, <2>3 DEF upTo
<1> QED
  BY <1>1, <1>3, <1>4, <1>5 DEF reviewed

\* An event that is no review changes nothing of what the trail says of reviews.
LEMMA OtherEvent ==
  ASSUME NEW trail \in Seq(Event), NEW e \in Event, e.action \notin ReviewActions,
         NEW reviews, ReviewsOf(trail, reviews)
  PROVE  ReviewsOf(Append(trail, e), reviews)
<1> DEFINE n == Len(trail) + 1
<1>1. /\ Append(trail, e) \in Seq(Event) /\ Len(Append(trail, e)) = n /\ Len(trail) \in Nat
      /\ \A k \in 1..Len(trail) : Append(trail, e)[k] = trail[k]
      /\ Append(trail, e)[n] = e
  BY AppendProperties, LenProperties
<1>2. DOMAIN Append(trail, e) = 1..n /\ DOMAIN trail = 1..Len(trail)
  BY <1>1, LenProperties
<1>3. ReviewedVersions(Append(trail, e)) = ReviewedVersions(trail)
  BY <1>1, <1>2 DEF ReviewedVersions
<1>4. \A k \in ReviewedVersions(trail) : Append(trail, e)[k] = trail[k]
  BY <1>1, <1>2 DEF ReviewedVersions
<1> QED
  BY <1>3, <1>4 DEF ReviewsOf

\* A review is the last one of its case and the last event of its trail.
LEMMA ReviewEvent ==
  ASSUME NEW trail \in Seq(Event), NEW e \in Event, e.action \in ReviewActions,
         NEW reviews \in Seq(ReviewActions), ReviewsOf(trail, reviews)
  PROVE  ReviewsOf(Append(trail, e), Append(reviews, e.action))
<1> DEFINE n == Len(trail) + 1
           reviewed == ReviewedVersions(trail)
           longer == Append(trail, e)
           more == Append(reviews, e.action)
<1>1. /\ longer \in Seq(Event) /\ Len(longer) = n /\ Len(trail) \in Nat
      /\ \A k \in 1..Len(trail) : longer[k] = trail[k]
      /\ longer[n] = e
  BY AppendProperties, LenProperties
<1>2. DOMAIN longer = 1..n /\ DOMAIN trail = 1..Len(trail)
  BY <1>1, LenProperties
<1>3. /\ Len(more) = Len(reviews) + 1 /\ Len(reviews) \in Nat
      /\ \A j \in 1..Len(reviews) : more[j] = reviews[j]
      /\ more[Len(reviews) + 1] = e.action
  BY AppendProperties, LenProperties
<1>4. ReviewedVersions(longer) = reviewed \cup {n}
  BY <1>1, <1>2 DEF ReviewedVersions
<1>5. /\ reviewed \subseteq 1..Len(trail) /\ IsFiniteSet(reviewed) /\ Cardinality(reviewed) \in Nat
      /\ \A k \in reviewed : Cardinality(reviewed \cap (1..k)) \in 1..Cardinality(reviewed)
  BY ReviewedFinite
<1>6. /\ Len(reviews) = Cardinality(reviewed)
      /\ \A k \in reviewed : reviews[Cardinality(reviewed \cap (1..k))] = trail[k].action
  BY DEF ReviewsOf
<1> HIDE DEF reviewed, longer, more
<1>7. n \notin reviewed /\ Cardinality(reviewed \cup {n}) = Cardinality(reviewed) + 1
  <2>1. n \notin reviewed
    BY <1>1, <1>5
  <2> HIDE DEF n
  <2> QED
    BY <1>5, <2>1, FS_AddElement
<1>8. ASSUME NEW k \in reviewed
      PROVE  more[Cardinality((reviewed \cup {n}) \cap (1..k))] = longer[k].action
  <2>1. (reviewed \cup {n}) \cap (1..k) = reviewed \cap (1..k)
    BY <1>1, <1>5
  <2> QED
    BY <1>1, <1>3, <1>5, <1>6, <2>1
<1>9. more[Cardinality((reviewed \cup {n}) \cap (1..n))] = longer[n].action
  <2>1. n \in 1..n /\ 1..Len(trail) \subseteq 1..n
    BY <1>1
  <2>2. (reviewed \cup {n}) \cap (1..n) = reviewed \cup {n}
    BY <1>5, <2>1
  <2> QED
    BY <1>1, <1>3, <1>6, <1>7, <2>2
<1>10. ReviewsOf(longer, more)
  BY <1>3, <1>4, <1>6, <1>7, <1>8, <1>9 DEF ReviewsOf
<1> QED
  BY <1>10 DEF longer, more

Reviews == \A i \in Id : ReviewsOf(audit[i], cases[i].reviews)

LEMMA CommitKeepsReviews ==
  ASSUME CopyInv, Reviews, NEW w \in Worker, Commit(w)
  PROVE  Reviews'
<1> DEFINE r == request[w]
<1>1. /\ r \in Request /\ r.id \in Id /\ r.read \in Case
      /\ r.read.reviews = cases[r.id].reviews /\ Computed(r)
      /\ cases'[r.id] = Saved(r)
      /\ audit'[r.id] = Append(audit[r.id], AuditEvent(r))
      /\ \A i \in Id : i # r.id => cases'[i] = cases[i] /\ audit'[i] = audit[i]
  BY CommitStep DEF CopyInv, TypeOK
<1>2. /\ AuditEvent(r) \in Event /\ AuditEvent(r).action = r.action
      /\ Saved(r).reviews = r.write.reviews /\ audit[r.id] \in Seq(Event)
      /\ r.action \in Actions /\ r.read.reviews \in Seq(ReviewActions)
  BY <1>1, AuditEventType, SavedType DEF AuditEvent, CopyInv, TypeOK, Request, Case
<1>3. ReviewsOf(audit[r.id], r.read.reviews)
  BY <1>1 DEF Reviews
<1>4. CASE r.action \in ReviewActions
  <2>1. r.write.reviews = Append(r.read.reviews, r.action)
    <3>1. r.write = ApplyReview(r.read, r.action)
      BY <1>1, <1>4 DEF Computed
    <3>2. ApplyReview(r.read, r.action).reviews = Append(r.read.reviews, r.action)
      BY <1>1, <1>4, ApplyReviewType
    <3> QED
      BY <3>1, <3>2
  <2>2. ReviewsOf(Append(audit[r.id], AuditEvent(r)), Append(r.read.reviews, r.action))
    BY <1>2, <1>3, <1>4, ReviewEvent
  <2> QED
    BY <1>1, <1>2, <2>1, <2>2 DEF Reviews
<1>5. CASE r.action \notin ReviewActions
  <2>1. r.write.reviews = r.read.reviews
    BY <1>1, <1>2, <1>5 DEF Computed, RunComputed, Actions
  <2>2. ReviewsOf(Append(audit[r.id], AuditEvent(r)), r.read.reviews)
    BY <1>2, <1>3, <1>5, OtherEvent
  <2> QED
    BY <1>1, <1>2, <2>1, <2>2 DEF Reviews
<1> QED
  BY <1>4, <1>5

\* No human review is lost or invented: the reviews of a case are the reviews its
\* trail records, in their order, while runs that read the case before them are
\* still writing (case.py:189-215).
THEOREM ReviewsAreAudited == Spec => []ReviewsMatchAudit
<1>1. Init => Reviews
  <2> SUFFICES ASSUME Init PROVE Reviews
    OBVIOUS
  <2>1. ASSUME NEW i \in Id PROVE audit[i] = <<>> /\ cases[i].reviews = <<>>
    BY DEF Init, NewCase
  <2>2. ReviewedVersions(<<>>) = {} /\ Len(<<>>) = 0
    BY DEF ReviewedVersions
  <2>3. ReviewsOf(<<>>, <<>>)
    BY <2>2, FS_EmptySet DEF ReviewsOf
  <2> QED
    BY <2>1, <2>3 DEF Reviews
<1>2. CopyInv /\ Reviews /\ [Next]_vars => Reviews'
  <2>1. Reviews /\ UNCHANGED <<cases, audit>> => Reviews'
    BY DEF Reviews
  <2> QED
    BY <2>1, OnlyCommitsWrite, CommitKeepsReviews
<1>3. Reviews => ReviewsMatchAudit
  BY DEF Reviews, ReviewsOf, ReviewsMatchAudit
<1> QED
  BY <1>1, <1>2, <1>3, CopyInvariant, PTL DEF Spec

-----------------------------------------------------------------------------
(* Answers and the trail.  Requests are numbered as they are accepted; the *)
(* invariant follows a number from its request to the event it may write   *)
(* and to the answer it gets.                                              *)

Busy(w) == pc[w] # "idle"
\* Event k of diagnosis i is the write of request n.
IsWriteOf(i, k, n) == k \in DOMAIN audit[i] /\ audit[i][k].number = n
Unwritten(n) == \A i \in Id : \A k : ~ IsWriteOf(i, k, n)

\* What an answer claims.
Truthful(a) ==
  /\ a.kind = "ok" => \E i \in Id : \E k \in Nat :
       /\ IsWriteOf(i, k, a.number) /\ k <= a.version /\ a.version \in DOMAIN audit[i]
       /\ a.status = audit[i][a.version].currentState
  /\ a.kind \in {"refused", "conflict"} => Unwritten(a.number)

EventsNumbered == \A i \in Id : \A k \in DOMAIN audit[i] : audit[i][k].number \in 1..started
RequestsNumbered ==
  /\ \A w \in Worker : Busy(w) => request[w].number \in 1..started
  /\ \A v, w \in Worker :
       Busy(v) /\ Busy(w) /\ request[v].number = request[w].number => v = w
AnswersNumbered ==
  \A w \in Worker :
    /\ answer[w].number \in 0..started
    /\ \A v \in Worker : Busy(v) => request[v].number # answer[w].number
\* A request has written nothing until it commits, and its event then.
WritesOnce ==
  \A w \in Worker :
    /\ pc[w] \in {"running", "writing"} => Unwritten(request[w].number)
    /\ pc[w] = "reading_back" =>
         \E k \in DOMAIN audit[request[w].id] : IsWriteOf(request[w].id, k, request[w].number)
AnswersTold == \A w \in Worker : Truthful(answer[w])

Numbers == EventsNumbered /\ RequestsNumbered /\ AnswersNumbered /\ WritesOnce /\ AnswersTold

LEMMA NumbersSuffice == AnswersTold => AnswersAreTrue
<1> SUFFICES ASSUME AnswersTold, NEW w \in Worker
             PROVE  LET a == answer[w] IN
                    /\ a.kind = "ok" => \E e \in EventsOf(a.number) :
                         e[2] <= a.version /\ a.status = audit[e[1]][a.version].currentState
                    /\ a.kind \in {"refused", "conflict"} => EventsOf(a.number) = {}
  BY DEF AnswersAreTrue
<1> DEFINE a == answer[w]
<1>1. Truthful(a)
  BY DEF AnswersTold
<1>2. ASSUME a.kind = "ok"
      PROVE  \E e \in EventsOf(a.number) :
               e[2] <= a.version /\ a.status = audit[e[1]][a.version].currentState
  <2>1. PICK i \in Id, k \in Nat :
          /\ IsWriteOf(i, k, a.number) /\ k <= a.version
          /\ a.status = audit[i][a.version].currentState
    BY <1>1, <1>2 DEF Truthful
  <2>2. <<i, k>> \in EventsOf(a.number)
    BY <2>1 DEF EventsOf, IsWriteOf
  <2> QED
    BY <2>1, <2>2
<1>3. ASSUME a.kind \in {"refused", "conflict"} PROVE EventsOf(a.number) = {}
  BY <1>1, <1>3 DEF Truthful, Unwritten, IsWriteOf, EventsOf
<1> QED
  BY <1>2, <1>3

\* Steps that write nothing leave claims as they are.
LEMMA SameTrail ==
  ASSUME UNCHANGED audit
  PROVE  /\ \A a : Truthful(a)' <=> Truthful(a)
         /\ \A n : Unwritten(n)' <=> Unwritten(n)
         /\ \A i, k, n : IsWriteOf(i, k, n)' <=> IsWriteOf(i, k, n)
BY DEF Truthful, Unwritten, IsWriteOf

\* A request is accepted under a number nobody has used.
LEMMA AcceptNumbers ==
  ASSUME TypeOK, Numbers, NEW w \in Worker, NEW i, NEW action, NEW read, NEW write,
         NEW next \in {"running", "writing"},
         Accept(w, i, action, read, write, next)
  PROVE  Numbers'
<1>1. /\ started \in Nat /\ started' = started + 1 /\ UNCHANGED audit
      /\ request'[w].number = started + 1
      /\ pc'[w] = next /\ answer'[w] = NoAnswer
      /\ ~ Busy(w)
      /\ \A v \in Worker : v # w => request'[v] = request[v] /\ pc'[v] = pc[v] /\ answer'[v] = answer[v]
  BY RequestBound DEF TypeOK, Accept, Busy
<1>2. Unwritten(started + 1)
  BY <1>1 DEF Numbers, EventsNumbered, Unwritten, IsWriteOf
<1>3. EventsNumbered'
  BY <1>1 DEF Numbers, EventsNumbered
<1>4. /\ \A v \in Worker : v # w => (Busy(v)' <=> Busy(v))
      /\ \A v \in Worker : Busy(v) => v # w /\ request[v].number \in 1..started
      /\ \A v \in Worker : answer[v].number \in 0..started
  BY <1>1 DEF Numbers, RequestsNumbered, AnswersNumbered, Busy
<1>5. RequestsNumbered'
  <2>1. \A v \in Worker : Busy(v)' => request'[v].number \in 1..(started + 1)
    BY <1>1, <1>4
  <2>2. \A u, v \in Worker :
          Busy(u)' /\ Busy(v)' /\ request'[u].number = request'[v].number => u = v
    BY <1>1, <1>4 DEF Numbers, RequestsNumbered
  <2> QED
    BY <1>1, <2>1, <2>2 DEF RequestsNumbered
<1>6. AnswersNumbered'
  <2> SUFFICES ASSUME NEW u \in Worker
               PROVE  /\ answer'[u].number \in 0..(started + 1)
                      /\ \A v \in Worker : Busy(v)' => request'[v].number # answer'[u].number
    BY <1>1 DEF AnswersNumbered
  <2>1. CASE u = w
    BY <1>1, <1>4, <2>1 DEF NoAnswer
  <2>2. CASE u # w
    BY <1>1, <1>4, <2>2 DEF Numbers, AnswersNumbered
  <2> QED
    BY <2>1, <2>2
<1>7. WritesOnce'
  <2> SUFFICES ASSUME NEW v \in Worker
               PROVE  /\ pc'[v] \in {"running", "writing"} => Unwritten(request[v].number)'
                      /\ pc'[v] = "reading_back" =>
                           \E k \in DOMAIN audit'[request'[v].id] :
                             IsWriteOf(request[v].id, k, request[v].number)'
    BY DEF WritesOnce
  <2>1. CASE v = w
    BY <1>1, <1>2, <2>1 DEF Unwritten, IsWriteOf
  <2>2. CASE v # w
    BY <1>1, <2>2 DEF Numbers, WritesOnce, Unwritten, IsWriteOf
  <2> QED
    BY <2>1, <2>2
<1>8. AnswersTold'
  <2>1. Truthful(NoAnswer)'
    BY DEF Truthful, NoAnswer
  <2>2. \A v \in Worker : v # w => Truthful(answer[v])'
    BY <1>1 DEF Numbers, AnswersTold, Truthful, Unwritten, IsWriteOf
  <2> QED
    BY <1>1, <2>1, <2>2 DEF AnswersTold
<1> QED
  BY <1>3, <1>5, <1>6, <1>7, <1>8 DEF Numbers

\* A refused request took a number, and nothing else.
LEMMA RefuseNumbers ==
  ASSUME TypeOK, Numbers, NEW w \in Worker, NEW i \in Id, Refuse(w, i)
  PROVE  Numbers'
<1>1. /\ started \in Nat /\ started' = started + 1
      /\ UNCHANGED <<audit, pc, request>>
      /\ answer'[w] = Failed(started + 1, "refused")
      /\ \A v \in Worker : v # w => answer'[v] = answer[v]
  BY RequestBound DEF TypeOK, Refuse
<1>2. Unwritten(started + 1)
  BY <1>1 DEF Numbers, EventsNumbered, Unwritten, IsWriteOf
<1>3. EventsNumbered' /\ RequestsNumbered'
  BY <1>1 DEF Numbers, EventsNumbered, RequestsNumbered, Busy
<1>4. AnswersNumbered'
  <2> SUFFICES ASSUME NEW u \in Worker
               PROVE  /\ answer'[u].number \in 0..(started + 1)
                      /\ \A v \in Worker : Busy(v) => request[v].number # answer'[u].number
    BY <1>1 DEF AnswersNumbered, Busy
  <2>1. CASE u = w
    BY <1>1, <2>1 DEF Failed, Numbers, RequestsNumbered
  <2>2. CASE u # w
    BY <1>1, <2>2 DEF Numbers, AnswersNumbered
  <2> QED
    BY <2>1, <2>2
<1>5. WritesOnce'
  BY <1>1 DEF Numbers, WritesOnce, Unwritten, IsWriteOf
<1>6. AnswersTold'
  <2>1. Truthful(Failed(started + 1, "refused"))
    BY <1>2 DEF Truthful, Failed
  <2>2. \A v \in Worker : Truthful(answer'[v])
    BY <1>1, <2>1 DEF Numbers, AnswersTold
  <2> QED
    BY <1>1, <2>2 DEF AnswersTold, Truthful, Unwritten, IsWriteOf
<1> QED
  BY <1>3, <1>4, <1>5, <1>6 DEF Numbers

\* A request that is over is answered under its own number, truthfully.
LEMMA RespondNumbers ==
  ASSUME TypeOK, Numbers, NEW w \in Worker, Busy(w),
         NEW reply, reply.number = request[w].number, Truthful(reply), Respond(w, reply)
  PROVE  Numbers'
<1>1. /\ UNCHANGED <<audit, started>>
      /\ pc'[w] = "idle" /\ answer'[w] = reply
      /\ \A v \in Worker : v # w => request'[v] = request[v] /\ pc'[v] = pc[v] /\ answer'[v] = answer[v]
  BY DEF TypeOK, Respond, Finish
<1>2. ~ Busy(w)' /\ \A v \in Worker : Busy(v)' => v # w /\ Busy(v) /\ request'[v] = request[v]
  BY <1>1 DEF Busy
<1>3. EventsNumbered'
  BY <1>1 DEF Numbers, EventsNumbered
<1>4. RequestsNumbered'
  BY <1>1, <1>2 DEF Numbers, RequestsNumbered
<1>5. AnswersNumbered'
  <2> SUFFICES ASSUME NEW u \in Worker
               PROVE  /\ answer'[u].number \in 0..started
                      /\ \A v \in Worker : Busy(v)' => request'[v].number # answer'[u].number
    BY <1>1 DEF AnswersNumbered
  <2>1. CASE u = w
    <3>1. request[w].number \in 1..started
      BY DEF Numbers, RequestsNumbered
    <3>2. \A v \in Worker : Busy(v) /\ request[v].number = request[w].number => v = w
      BY DEF Numbers, RequestsNumbered
    <3>3. started \in Nat
      BY RequestBound DEF TypeOK
    <3> QED
      BY <1>1, <1>2, <2>1, <3>1, <3>2, <3>3
  <2>2. CASE u # w
    BY <1>1, <1>2, <2>2 DEF Numbers, AnswersNumbered
  <2> QED
    BY <2>1, <2>2
<1>6. WritesOnce'
  <2>1. ASSUME NEW v \in Worker, pc'[v] # "idle" PROVE v # w
    BY <1>1, <2>1
  <2> QED
    BY <1>1, <2>1 DEF Numbers, WritesOnce, Unwritten, IsWriteOf
<1>7. AnswersTold'
  <2>1. \A v \in Worker : Truthful(answer'[v])
    BY <1>1 DEF Numbers, AnswersTold
  <2> QED
    BY <1>1, <2>1 DEF AnswersTold, Truthful, Unwritten, IsWriteOf
<1> QED
  BY <1>3, <1>4, <1>5, <1>6, <1>7 DEF Numbers

\* A run that goes on to its write keeps its number.
LEMMA WriteBackNumbers ==
  ASSUME TypeOK, Numbers, NEW w \in Worker, pc[w] = "running", NEW c, WriteBack(w, c)
  PROVE  Numbers'
<1>1. request[w] \in Request
  BY DEF TypeOK
<1>2. /\ UNCHANGED <<audit, started, answer>>
      /\ pc'[w] = "writing" /\ request'[w] = [request[w] EXCEPT !.write = c]
      /\ \A v \in Worker : v # w => request'[v] = request[v] /\ pc'[v] = pc[v]
  BY DEF TypeOK, WriteBack
<1>3. request'[w].number = request[w].number
  BY <1>1, <1>2 DEF Request
<1>4. \A v \in Worker : request'[v].number = request[v].number /\ (Busy(v)' <=> Busy(v))
  BY <1>2, <1>3 DEF Busy
<1>5. EventsNumbered' /\ RequestsNumbered' /\ AnswersNumbered'
  BY <1>2, <1>4 DEF Numbers, EventsNumbered, RequestsNumbered, AnswersNumbered
<1>6. WritesOnce'
  <2> SUFFICES ASSUME NEW v \in Worker
               PROVE  /\ pc'[v] \in {"running", "writing"} => Unwritten(request[v].number)'
                      /\ pc'[v] = "reading_back" =>
                           \E k \in DOMAIN audit'[request'[v].id] :
                             IsWriteOf(request[v].id, k, request[v].number)'
    BY DEF WritesOnce
  <2>1. CASE v = w
    <3>1. Unwritten(request[w].number)
      BY DEF Numbers, WritesOnce
    <3>2. Unwritten(request[w].number)'
      BY <1>2, <1>3, <3>1 DEF Unwritten, IsWriteOf
    <3> QED
      BY <1>2, <2>1, <3>2
  <2>2. CASE v # w
    BY <1>2, <2>2 DEF Numbers, WritesOnce, Unwritten, IsWriteOf
  <2> QED
    BY <2>1, <2>2
<1>7. AnswersTold'
  BY <1>2 DEF Numbers, AnswersTold, Truthful, Unwritten, IsWriteOf
<1> QED
  BY <1>5, <1>6, <1>7 DEF Numbers

\* A commit is the one write of its request, and answers with the version it wrote.
LEMMA CommitNumbers ==
  ASSUME CopyInv, Trails, Numbers, NEW w \in Worker, Commit(w)
  PROVE  Numbers'
<1> DEFINE r == request[w]
           trail == audit[r.id]
           e == AuditEvent(r)
           n == Len(trail) + 1
<1>1. /\ TypeOK /\ pc[w] = "writing" /\ r \in Request /\ r.id \in Id
      /\ r.read.version = cases[r.id].version
      /\ audit' = [audit EXCEPT ![r.id] = Append(trail, e)]
      /\ UNCHANGED started
  BY CommitStep DEF Commit, Finish, CopyInv
<1>2. /\ e \in Event /\ e.number = r.number /\ e.currentState = r.write.status
      /\ trail \in Seq(Event)
  BY <1>1, AuditEventType DEF AuditEvent, TypeOK
<1>3. Len(trail) = cases[r.id].version
  BY <1>1 DEF Trails, TrailOf
<1>4. /\ Append(trail, e) \in Seq(Event) /\ Len(Append(trail, e)) = n /\ Len(trail) \in Nat
      /\ \A k \in 1..Len(trail) : Append(trail, e)[k] = trail[k]
      /\ Append(trail, e)[n] = e
  BY <1>2, AppendProperties, LenProperties
<1>5. DOMAIN Append(trail, e) = 1..n /\ DOMAIN trail = 1..Len(trail) /\ n \in Nat
  BY <1>2, <1>4, LenProperties
<1>6. /\ audit'[r.id] = Append(trail, e)
      /\ \A i \in Id : i # r.id => audit'[i] = audit[i]
  BY <1>1 DEF TypeOK
<1> HIDE DEF trail, e, n
<1>7. /\ DOMAIN audit'[r.id] = (DOMAIN audit[r.id]) \cup {n} /\ n \notin DOMAIN audit[r.id]
      /\ audit'[r.id][n] = e
      /\ \A k \in DOMAIN audit[r.id] : audit'[r.id][k] = audit[r.id][k]
  <2>1. 1..n = 1..Len(trail) \cup {n} /\ n \notin 1..Len(trail)
    BY <1>4 DEF n
  <2> QED
    BY <1>4, <1>5, <1>6, <2>1 DEF trail
\* The new event is of this request; all others are where they were.
<1>8. /\ \A i \in Id : \A k \in DOMAIN audit[i] : k \in DOMAIN audit'[i] /\ audit'[i][k] = audit[i][k]
      /\ \A i \in Id : \A k \in DOMAIN audit'[i] :
           \/ k \in DOMAIN audit[i] /\ audit'[i][k] = audit[i][k]
           \/ audit'[i][k].number = r.number
  BY <1>2, <1>6, <1>7
<1>9. \A m : m # r.number /\ Unwritten(m) => \A i \in Id : \A k \in DOMAIN audit'[i] : audit'[i][k].number # m
  BY <1>8 DEF Unwritten, IsWriteOf
<1>10. r.number \in 1..started
  BY <1>1 DEF Numbers, RequestsNumbered, Busy
<1>11. /\ \A v \in Worker : v # w => request'[v] = request[v] /\ pc'[v] = pc[v] /\ answer'[v] = answer[v]
       /\ \/ pc'[w] = "reading_back" /\ request'[w] = r /\ answer'[w] = answer[w]
          \/ pc'[w] = "idle" /\ answer'[w] = Shows(r.number, Saved(r))
  BY <1>1 DEF Commit, Finish, TypeOK
<1>12. EventsNumbered'
  BY <1>1, <1>8, <1>10 DEF Numbers, EventsNumbered
<1>13. /\ Busy(w) /\ (Busy(w)' => request'[w] = r)
       /\ \A v \in Worker : v # w => (Busy(v)' <=> Busy(v))
  BY <1>1, <1>11 DEF Busy
<1>14. RequestsNumbered'
  <2>1. \A v \in Worker : Busy(v)' => Busy(v) /\ request'[v] = request[v]
    BY <1>11, <1>13
  <2> QED
    BY <1>1, <2>1 DEF Numbers, RequestsNumbered
<1>15. \A v \in Worker : v # w /\ Busy(v) => request[v].number # r.number
  BY <1>13 DEF Numbers, RequestsNumbered
<1>16. AnswersNumbered'
  <2> SUFFICES ASSUME NEW u \in Worker
               PROVE  /\ answer'[u].number \in 0..started
                      /\ \A v \in Worker : Busy(v)' => request'[v].number # answer'[u].number
    BY <1>1 DEF AnswersNumbered
  <2>1. CASE answer'[u] = answer[u]
    BY <1>11, <1>13, <2>1 DEF Numbers, AnswersNumbered
  <2>2. CASE u = w /\ pc'[w] = "idle" /\ answer'[w] = Shows(r.number, Saved(r))
    <3>1. answer'[u].number = r.number
      BY <2>2 DEF Shows
    <3>2. \A v \in Worker : Busy(v)' => v # w /\ Busy(v) /\ request'[v] = request[v]
      BY <1>11, <1>13, <2>2 DEF Busy
    <3>3. started \in Nat
      BY <1>1, RequestBound DEF TypeOK
    <3> QED
      BY <1>10, <1>15, <3>1, <3>2, <3>3
  <2> QED
    BY <1>11, <2>1, <2>2
<1>17. WritesOnce'
  <2> SUFFICES ASSUME NEW v \in Worker
               PROVE  /\ pc'[v] \in {"running", "writing"} =>
                           \A i \in Id : \A k \in DOMAIN audit'[i] :
                             audit'[i][k].number # request'[v].number
                      /\ pc'[v] = "reading_back" =>
                           \E k \in DOMAIN audit'[request'[v].id] :
                             audit'[request'[v].id][k].number = request'[v].number
    BY DEF WritesOnce, Unwritten, IsWriteOf
  <2>1. CASE v = w
    BY <1>2, <1>7, <1>11, <2>1
  <2>2. CASE v # w
    <3>1. request'[v] = request[v] /\ pc'[v] = pc[v]
      BY <1>11, <2>2
    <3>2. ASSUME pc[v] \in {"running", "writing"}
          PROVE  \A i \in Id : \A k \in DOMAIN audit'[i] : audit'[i][k].number # request[v].number
      BY <1>9, <1>15, <2>2, <3>2 DEF Numbers, WritesOnce, Busy
    <3>3. ASSUME pc[v] = "reading_back"
          PROVE  \E k \in DOMAIN audit'[request[v].id] :
                   audit'[request[v].id][k].number = request[v].number
      <4>1. request[v].id \in Id
        BY <1>1, <3>3 DEF TypeOK, Request
      <4> QED
        BY <1>8, <3>3, <4>1 DEF Numbers, WritesOnce, IsWriteOf
    <3> QED
      BY <3>1, <3>2, <3>3
  <2> QED
    BY <2>1, <2>2
<1>18. AnswersTold'
  <2>1. ASSUME NEW a, Truthful(a), a.number # r.number
        PROVE  Truthful(a)'
    <3>1. ASSUME a.kind = "ok"
          PROVE  \E i \in Id : \E k \in Nat :
                   /\ k \in DOMAIN audit'[i] /\ audit'[i][k].number = a.number
                   /\ k <= a.version /\ a.version \in DOMAIN audit'[i]
                   /\ a.status = audit'[i][a.version].currentState
      <4>1. PICK i \in Id, k \in Nat :
              /\ k \in DOMAIN audit[i] /\ audit[i][k].number = a.number
              /\ k <= a.version /\ a.version \in DOMAIN audit[i]
              /\ a.status = audit[i][a.version].currentState
        BY <2>1, <3>1 DEF Truthful, IsWriteOf
      <4> QED
        BY <1>8, <4>1
    <3>2. ASSUME a.kind \in {"refused", "conflict"}
          PROVE  \A i \in Id : \A k \in DOMAIN audit'[i] : audit'[i][k].number # a.number
      BY <1>9, <2>1, <3>2 DEF Truthful
    <3> QED
      BY <3>1, <3>2 DEF Truthful, Unwritten, IsWriteOf
  <2>2. \A v \in Worker : answer[v].number # r.number
    BY <1>13 DEF Numbers, AnswersNumbered
  <2>3. \A v \in Worker : Truthful(answer[v])
    BY DEF Numbers, AnswersTold
  <2>4. ASSUME NEW a, a = Shows(r.number, Saved(r))
        PROVE  Truthful(a)'
    <3>1. /\ Saved(r).version = n /\ Saved(r).status = e.currentState
      BY <1>1, <1>2, <1>3, SavedType DEF n
    <3>2. /\ a.version = n /\ a.status = e.currentState
          /\ a.number = r.number /\ a.kind = "ok"
      BY <2>4, <3>1 DEF Shows
    <3>3. PICK i \in Id : i = r.id
      BY <1>1
    <3>4. /\ n \in DOMAIN audit'[i] /\ audit'[i][n] = e /\ n \in Nat /\ n <= n
      BY <1>5, <1>7, <3>3
    <3> QED
      BY <1>2, <3>2, <3>4 DEF Truthful, IsWriteOf
  <2>5. ASSUME NEW v \in Worker PROVE Truthful(answer[v])'
    <3>1. PICK a : a = answer'[v]
      OBVIOUS
    <3>2. Truthful(a)'
      BY <1>11, <2>1, <2>2, <2>3, <2>4, <3>1
    <3> QED
      BY <3>1, <3>2 DEF Truthful, Unwritten, IsWriteOf
  <2> QED
    BY <2>5 DEF AnswersTold
<1> QED
  BY <1>12, <1>14, <1>16, <1>17, <1>18 DEF Numbers

\* Whatever a run comes to, it keeps its number.
LEMMA RunNumbers ==
  ASSUME TypeOK, Numbers, NEW w \in Worker, NEW out \in Outcome, FinishRun(w, out)
  PROVE  Numbers'
<1>1. pc[w] = "running" /\ Busy(w)
  BY DEF FinishRun, Busy
<1>2. CASE Respond(w, Failed(request[w].number, "error"))
  <2>1. /\ Failed(request[w].number, "error").number = request[w].number
        /\ Truthful(Failed(request[w].number, "error"))
    BY DEF Failed, Truthful
  <2> QED
    BY <1>1, <1>2, <2>1, RespondNumbers
<1>3. CASE \E c : WriteBack(w, c)
  BY <1>1, <1>3, WriteBackNumbers
<1> QED
  BY <1>2, <1>3, RunResults

\* A request that writes nothing, or whose write is read back, is answered truthfully.
LEMMA ReplyNumbers ==
  ASSUME TypeOK, Trails, Numbers, NEW w \in Worker,
         Conflict(w) \/ WriteFails(w) \/ ReadBack(w) \/ ReadBackFails(w)
  PROVE  Numbers'
<1> DEFINE r == request[w]
<1>1. Busy(w) /\ r \in Request
  BY DEF Conflict, WriteFails, ReadBack, ReadBackFails, Busy, TypeOK
<1>2. CASE Conflict(w)
  <2>1. Unwritten(r.number)
    BY <1>2 DEF Conflict, Numbers, WritesOnce
  <2>2. Truthful(Failed(r.number, "conflict")) /\ Failed(r.number, "conflict").number = r.number
    BY <2>1 DEF Failed, Truthful
  <2> QED
    BY <1>1, <1>2, <2>2, RespondNumbers DEF Conflict
<1>3. CASE WriteFails(w) \/ ReadBackFails(w)
  <2>1. Truthful(Failed(r.number, "error")) /\ Failed(r.number, "error").number = r.number
    BY DEF Failed, Truthful
  <2> QED
    BY <1>1, <1>3, <2>1, RespondNumbers DEF WriteFails, ReadBackFails
<1>4. CASE ReadBack(w)
  <2>1. r.id \in Id /\ pc[w] = "reading_back"
    BY <1>1, <1>4 DEF Request, ReadBack
  <2>2. PICK k \in DOMAIN audit[r.id] : IsWriteOf(r.id, k, r.number)
    BY <2>1 DEF Numbers, WritesOnce
  <2>3. /\ audit[r.id] \in Seq(Event) /\ cases[r.id].version \in Nat
        /\ TrailOf(audit[r.id], cases[r.id].version, cases[r.id].status)
    BY <2>1 DEF TypeOK, Trails, Case
  <2>4. DOMAIN audit[r.id] = 1..cases[r.id].version
    BY <2>3, LenProperties DEF TrailOf
  <2>5. /\ k \in Nat /\ k <= cases[r.id].version /\ cases[r.id].version \in DOMAIN audit[r.id]
        /\ cases[r.id].status = audit[r.id][cases[r.id].version].currentState
    BY <2>3, <2>4 DEF TrailOf
  <2>6. Truthful(Shows(r.number, cases[r.id])) /\ Shows(r.number, cases[r.id]).number = r.number
    BY <2>1, <2>2, <2>5 DEF Truthful, Shows
  <2> QED
    BY <1>1, <1>4, <2>6, RespondNumbers DEF ReadBack
<1> QED
  BY <1>2, <1>3, <1>4

LEMMA StartNumbers ==
  ASSUME TypeOK, Numbers, NEW w \in Worker, Start(w)
  PROVE  Numbers'
<1>1. PICK i \in Id :
        \/ \E f \in FaultType : StartCreate(w, i, f)
        \/ StartRun(w, i)
        \/ \E a \in ReviewActions : StartReview(w, i, a)
        \/ Refuse(w, i)
  BY DEF Start
<1>2. ASSUME NEW f \in FaultType, StartCreate(w, i, f) PROVE Numbers'
  BY <1>2, AcceptNumbers DEF StartCreate
<1>3. CASE StartRun(w, i)
  BY <1>3, AcceptNumbers DEF StartRun
<1>4. ASSUME NEW a \in ReviewActions, StartReview(w, i, a) PROVE Numbers'
  BY <1>4, AcceptNumbers DEF StartReview
<1>5. CASE Refuse(w, i)
  BY <1>5, RefuseNumbers
<1> QED
  BY <1>1, <1>2, <1>3, <1>4, <1>5

\* A restart leaves no request and no answer.
LEMMA RestartNumbers ==
  ASSUME TypeOK, Numbers, NEW s, Restart(s)
  PROVE  Numbers'
<1>1. /\ UNCHANGED <<audit, started>> /\ started \in Nat
      /\ \A w \in Worker : pc'[w] = "idle" /\ answer'[w] = NoAnswer
  BY RequestBound DEF Restart, AllIdle, TypeOK
<1> QED
  BY <1>1 DEF Numbers, EventsNumbered, RequestsNumbered, AnswersNumbered, WritesOnce,
              AnswersTold, Truthful, NoAnswer, Busy

LEMMA NumbersInvariant == Spec => [](CopyInv /\ Trails /\ Numbers)
<1>1. Init => CopyInv /\ Trails /\ Numbers
  <2> SUFFICES ASSUME Init PROVE CopyInv /\ Trails /\ Numbers
    OBVIOUS
  <2>1. TypeOK
    BY RequestBound, NewCaseType DEF Init, TypeOK, AllIdle, NoAnswer, Answer
  <2>2. Unstored /\ Copies
    BY DEF Init, AllIdle, Unstored, Copies
  <2>3. Trails
    BY DEF Init, Trails, TrailOf, NewCase
  <2>4. Numbers
    <3>1. \A i \in Id : DOMAIN audit[i] = {}
      BY DEF Init
    <3>2. started = 0 /\ \A w \in Worker : pc[w] = "idle" /\ answer[w] = NoAnswer
      BY DEF Init, AllIdle
    <3> QED
      BY <3>1, <3>2 DEF Numbers, EventsNumbered, RequestsNumbered, AnswersNumbered, WritesOnce,
                        AnswersTold, Truthful, NoAnswer, Busy
  <2> QED
    BY <2>1, <2>2, <2>3, <2>4 DEF CopyInv
<1>2. CopyInv /\ Trails /\ Numbers /\ [Next]_vars => Trails' /\ Numbers'
  <2> SUFFICES ASSUME CopyInv, Trails, Numbers, [Next]_vars PROVE Trails' /\ Numbers'
    OBVIOUS
  <2>1. TypeOK
    BY DEF CopyInv
  <2>2. Trails'
    <3>1. Trails /\ UNCHANGED <<cases, audit>> => Trails'
      BY DEF Trails
    <3> QED
      BY <3>1, OnlyCommitsWrite, CommitKeepsTrail
  <2>3. ASSUME NEW w \in Worker, Start(w) PROVE Numbers'
    BY <2>1, <2>3, StartNumbers
  <2>4. ASSUME NEW w \in Worker, NEW out \in Outcome, FinishRun(w, out) PROVE Numbers'
    BY <2>1, <2>4, RunNumbers
  <2>5. ASSUME NEW w \in Worker, Commit(w) PROVE Numbers'
    BY <2>5, CommitNumbers
  <2>6. ASSUME NEW w \in Worker,
               Conflict(w) \/ WriteFails(w) \/ ReadBack(w) \/ ReadBackFails(w)
        PROVE  Numbers'
    BY <2>1, <2>6, ReplyNumbers
  <2>7. ASSUME NEW s, Restart(s) PROVE Numbers'
    BY <2>1, <2>7, RestartNumbers
  <2>8. ASSUME UNCHANGED vars PROVE Numbers'
    BY <2>8 DEF vars, Numbers, EventsNumbered, RequestsNumbered, AnswersNumbered, WritesOnce,
                AnswersTold, Truthful, Unwritten, IsWriteOf, Busy
  <2>9. ASSUME NEW w \in Worker, Proceed(w) PROVE Numbers'
    BY <2>4, <2>5, <2>6, <2>9 DEF Proceed
  <2>10. ASSUME Next PROVE Numbers'
    BY <2>3, <2>6, <2>7, <2>9, <2>10 DEF Next
  <2> QED
    BY <2>2, <2>8, <2>10
<1> QED
  BY <1>1, <1>2, CopyInvariant, PTL DEF Spec

\* An answer tells the truth, whatever else was written before it was given: "ok" means
\* that the write of this very request is in the trail, at or before the version shown,
\* and the status shown is the one that version left; a refusal or a conflict means that
\* the request wrote nothing, and never will (diagnoses.py:541-570, 618-633).
THEOREM AnswersTellTheTruth == Spec => []AnswersAreTrue
<1>1. Numbers => AnswersAreTrue
  BY NumbersSuffice DEF Numbers
<1> QED
  BY <1>1, NumbersInvariant, PTL
===============================================================================
