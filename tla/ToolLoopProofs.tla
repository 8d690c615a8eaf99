---------------------------- MODULE ToolLoopProofs ----------------------------
(***************************************************************************)
(* Proofs about ToolLoop, for any tools, model, budgets and deadline.      *)
(***************************************************************************)
EXTENDS ToolLoop, SequenceTheorems, TLAPS

Outcome == [ok : BOOLEAN, kind : FailureKinds \cup {"none"}, drafts : SUBSET Drafts]

\* A query answered by its gateway yields evidence only of an answer, and only the
\* evidence its tool stands for (tools/*.py, contracts.py:98-100).
LEMMA QueryType ==
  ASSUME NEW n \in DOMAIN Tools, NEW answer \in AnswersOf(Tools[n])
  PROVE  /\ Query(Tools[n], answer) \in Outcome
         /\ Query(Tools[n], answer).drafts # {} =>
              /\ Query(Tools[n], answer).ok
              /\ answer \in {"facts", "nothing"}
              /\ Query(Tools[n], answer).drafts = {Draft(Tools[n])}
<1> DEFINE tool == Tools[n]
<1>1. {Draft(tool)} \in SUBSET Drafts
  BY ToolShape DEF Draft, Drafts, Tool
<1>2. answer \in {"facts", "nothing"} \cup GatewayErrors
  BY DEF AnswersOf, GatewayErrors
<1>3. \A e \in GatewayErrors : Classify(e) \in FailureKinds
  BY DEF Classify, GatewayErrors, AdapterErrors, FailureKinds
<1>4. CASE answer = "facts"
  BY <1>1, <1>4 DEF Query, Success, GatewayErrors, AdapterErrors, Outcome
<1>5. CASE answer = "nothing"
  BY <1>1, <1>5 DEF Query, Success, GatewayErrors, AdapterErrors, Outcome
<1>6. CASE answer \in GatewayErrors
  <2>1. Query(tool, answer) = Failure(IF tool.classifies THEN Classify(answer) ELSE "none")
    BY <1>6 DEF Query, GatewayErrors, AdapterErrors
  <2> QED
    BY <1>3, <1>6, <2>1 DEF Failure, Outcome
<1> QED
  BY <1>2, <1>4, <1>5, <1>6

\* The same of a call as the loop makes it: what is not allowed, not permitted or
\* malformed leaves nothing (runner.py:390-404, registry.py:66-128).
LEMMA InvokeType ==
  ASSUME NEW name \in Names, NEW arguments, NEW answer \in Outcomes(name, arguments)
  PROVE  /\ Invoke(name, arguments, answer) \in Outcome
         /\ Invoke(name, arguments, answer).drafts # {} =>
              /\ Invoke(name, arguments, answer).ok
              /\ name \in Allowed /\ Tools[name].permission \in Permissions
              /\ answer \in {"facts", "nothing"}
              /\ Invoke(name, arguments, answer).drafts = {Draft(Tools[name])}
         /\ answer # "not_queried" => name \in Allowed
         /\ answer \in Answers
<1>1. Failure("none") \in Outcome
      /\ Failure("none").drafts = {}
  BY DEF Failure, Outcome
<1>2. CASE Queries(name, arguments)
  <2>1. name \in DOMAIN Tools /\ answer \in AnswersOf(Tools[name])
    BY <1>2, AllowedAreRegistered DEF Queries, Outcomes
  <2>2. Invoke(name, arguments, answer) = Query(Tools[name], answer)
    BY <1>2 DEF Queries, Invoke, Execute
  <2>3. answer \in Answers
    BY <2>1 DEF AnswersOf, Answers, GatewayErrors
  <2> QED
    BY <1>2, <2>1, <2>2, <2>3, QueryType DEF Queries
<1>3. CASE ~ Queries(name, arguments)
  <2>1. Invoke(name, arguments, answer) = Failure("none")
    BY <1>3 DEF Queries, Invoke, Execute
  <2>2. answer = "not_queried"
    BY <1>3 DEF Outcomes
  <2> QED
    BY <1>1, <2>1, <2>2 DEF Answers
<1> QED
  BY <1>2, <1>3

-----------------------------------------------------------------------------
(* The invariant: types and the correspondence of calls, answers and the    *)
(* reply hold each other up, and a cancelled run is over.                   *)

OverWhenCancelled == cancelled => stage = "ended"
NoReplyYet == stage # "ended" => reply = NoReply
GatePassed == Strict /\ (round > 0 \/ stage \notin {"gate", "ended"}) => Undeclared = {}
FromAllowed == \A i \in DOMAIN results :
                 results[i].answer # "not_queried" => results[i].tool \in Allowed

IInv == /\ TypeOK
        /\ CallsAreAccountedFor
        /\ OverWhenCancelled
        /\ NoReplyYet
        /\ GatePassed
        /\ FromAllowed
        /\ EvidenceIsEarned

\* A failure keeps all that was counted and observed (runner.py:485-506).
LEMMA FailStep ==
  ASSUME IInv, NEW error \in Errors, NEW rounds \in Nat,
         Fail(error, rounds), cancelled' \in BOOLEAN,
         calls' \in 0..MaxToolCalls,
         Len(results) <= calls', calls' <= Len(asked)
  PROVE  IInv'
<1>1. reply' \in Reply /\ reply'.calls = calls' /\ reply'.ok = FALSE
  BY Budget DEF Fail, Reply
<1>2. TypeOK'
  BY <1>1 DEF IInv, TypeOK, Fail, Stages
<1>3. CallsAreAccountedFor'
  BY <1>1 DEF IInv, CallsAreAccountedFor, Fail
<1>4. OverWhenCancelled' /\ NoReplyYet'
  BY DEF Fail, OverWhenCancelled, NoReplyYet
<1>5. GatePassed'
  BY DEF IInv, GatePassed, Fail, Undeclared
<1>6. FromAllowed' /\ EvidenceIsEarned'
  BY DEF IInv, FromAllowed, EvidenceIsEarned, Fail
<1> QED
  BY <1>2, <1>3, <1>4, <1>5, <1>6 DEF IInv

LEMMA FailWithStep ==
  ASSUME IInv, NEW error \in Errors, NEW rounds \in Nat, FailWith(error, rounds)
  PROVE  IInv'
<1>1. cancelled' \in BOOLEAN /\ calls' \in 0..MaxToolCalls
  BY DEF FailWith, IInv, TypeOK
<1>2. Len(results) <= calls' /\ calls' <= Len(asked)
  BY DEF FailWith, IInv, CallsAreAccountedFor
<1> QED
  BY <1>1, <1>2, FailStep DEF FailWith

LEMMA FailLateStep ==
  ASSUME IInv, NEW rounds \in Nat, FailLate(rounds), UNCHANGED calls
  PROVE  IInv'
<1>1. cancelled' \in BOOLEAN /\ calls' \in 0..MaxToolCalls
  BY DEF FailLate, IInv, TypeOK
<1>2. Len(results) <= calls' /\ calls' <= Len(asked)
  BY DEF IInv, CallsAreAccountedFor
<1> QED
  BY <1>1, <1>2, FailStep DEF FailLate, Errors

LEMMA GateStep == IInv /\ Gate => IInv'
<1> SUFFICES ASSUME IInv, Gate PROVE IInv'
  OBVIOUS
<1>1. CASE FailWith("undeclared", 0)
  BY <1>1, FailWithStep DEF Errors
<1>2. CASE /\ Strict => Undeclared = {}
           /\ stage = "gate" /\ stage' = "asking"
           /\ UNCHANGED <<declared, round, asked, calls, results, chars, clock, cancelled, reply>>
  <2>1. TypeOK'
    BY <1>2 DEF IInv, TypeOK, Stages
  <2>2. CallsAreAccountedFor'
    BY <1>2 DEF IInv, CallsAreAccountedFor
  <2> QED
    BY <1>2, <2>1, <2>2
       DEF IInv, OverWhenCancelled, NoReplyYet, GatePassed, FromAllowed, EvidenceIsEarned, Undeclared
<1> QED
  BY <1>1, <1>2 DEF Gate

\* The head of a round starts nothing the deadline or a budget forbids
\* (runner.py:221-248).
LEMMA AskModelStep == IInv /\ AskModel => IInv'
<1> SUFFICES ASSUME IInv, AskModel PROVE IInv'
  OBVIOUS
<1>0. round \in Nat /\ MaxRounds \in Nat
  BY Budget DEF IInv, TypeOK
<1>1. CASE FailWith("round_budget", MaxRounds)
  BY <1>0, <1>1, FailWithStep DEF Errors
<1>2. CASE FailWith("context", round + 1)
  BY <1>0, <1>2, FailWithStep DEF Errors
<1>3. CASE UNCHANGED calls /\ FailLate(round + 1)
  BY <1>0, <1>3, FailLateStep
<1>4. CASE /\ stage = "asking" /\ stage' = "model"
           /\ round < MaxRounds /\ round' = round + 1
           /\ UNCHANGED <<declared, asked, calls, results, chars, clock, cancelled, reply>>
  <2>1. TypeOK'
    BY <1>0, <1>4 DEF IInv, TypeOK, Stages
  <2>2. CallsAreAccountedFor'
    BY <1>4 DEF IInv, CallsAreAccountedFor
  <2> QED
    BY <1>4, <2>1, <2>2
       DEF IInv, OverWhenCancelled, NoReplyYet, GatePassed, FromAllowed, EvidenceIsEarned, Undeclared
<1> QED
  BY <1>1, <1>2, <1>3, <1>4 DEF AskModel

LEMMA ModelFailsStep == IInv /\ ModelFails => IInv'
<1> SUFFICES ASSUME IInv, ModelFails PROVE IInv'
  OBVIOUS
<1>0. round \in Nat
  BY DEF IInv, TypeOK
<1> QED
  BY <1>0, FailWithStep, FailLateStep DEF ModelFails, Errors

\* A response that asks for tools adds its calls to those asked for; one that
\* concludes finds all calls answered (runner.py:269-378).
LEMMA ModelAnswersStep ==
  ASSUME IInv, NEW response \in Responses, ModelAnswers(response)
  PROVE  IInv'
<1>0. round \in Nat /\ response.calls \in Seq(Names)
  BY ResponseShape DEF IInv, TypeOK
<1>1. CASE UNCHANGED calls /\ FailLate(round)
  BY <1>0, <1>1, FailLateStep
<1>2. CASE \E error \in {"response_size", "model_error", "no_answer"} : FailWith(error, round)
  BY <1>0, <1>2, FailWithStep DEF Errors
<1>3. CASE /\ stage = "model" /\ stage' = "choosing"
           /\ asked' = asked \o response.calls
           /\ UNCHANGED <<declared, round, calls, results, chars, clock, cancelled, reply>>
  <2>1. /\ asked' \in Seq(Names)
        /\ Len(asked') = Len(asked) + Len(response.calls)
        /\ \A i \in 1..Len(asked) : asked'[i] = asked[i]
    BY <1>0, <1>3, ConcatProperties, LenProperties DEF IInv, TypeOK
  <2>2. Len(asked) \in Nat /\ Len(response.calls) \in Nat /\ Len(results) \in Nat
        /\ DOMAIN results = 1..Len(results)
    BY <1>0, LenProperties DEF IInv, TypeOK
  <2>3. TypeOK'
    BY <1>3, <2>1 DEF IInv, TypeOK, Stages
  <2>4. CallsAreAccountedFor'
    <3>1. calls = Len(results) /\ calls = Len(asked) /\ ~ reply.ok
      BY <1>3 DEF IInv, CallsAreAccountedFor, NoReplyYet, NoReply
    <3>2. \A i \in DOMAIN results : results[i].tool = asked'[i]
      BY <2>1, <2>2, <3>1 DEF IInv, CallsAreAccountedFor
    <3> QED
      BY <1>3, <2>1, <2>2, <3>1, <3>2 DEF CallsAreAccountedFor
  <2> QED
    BY <1>3, <2>3, <2>4
       DEF IInv, OverWhenCancelled, NoReplyYet, GatePassed, FromAllowed, EvidenceIsEarned, Undeclared
<1>4. CASE /\ stage = "model" /\ stage' = "ended"
           /\ reply' = [ok |-> TRUE, error |-> "none", rounds |-> round, calls |-> calls]
           /\ UNCHANGED <<declared, round, asked, calls, results, chars, clock, cancelled>>
  <2>1. reply' \in Reply
    BY <1>0, <1>4, Budget DEF Reply, Errors, IInv, TypeOK
  <2>2. TypeOK'
    BY <1>4, <2>1 DEF IInv, TypeOK, Stages
  <2>3. CallsAreAccountedFor'
    BY <1>4 DEF IInv, CallsAreAccountedFor
  <2> QED
    BY <1>4, <2>2, <2>3
       DEF IInv, OverWhenCancelled, NoReplyYet, GatePassed, FromAllowed, EvidenceIsEarned, Undeclared
<1>5. Concludes(response) => asked \o response.calls = asked
  <2>1. asked \o <<>> = asked
    BY ConcatEmptySeq DEF IInv, TypeOK
  <2> QED
    BY <2>1 DEF Concludes
<1> QED
  BY <1>1, <1>2, <1>3, <1>4, <1>5 DEF ModelAnswers

\* The next call is counted, and started if time remains (runner.py:292-326).
LEMMA NextCallStep == IInv /\ NextCall => IInv'
<1> SUFFICES ASSUME IInv, NextCall PROVE IInv'
  OBVIOUS
<1>0. /\ round \in Nat /\ calls \in Nat /\ MaxToolCalls \in Nat /\ Len(asked) \in Nat
      /\ calls \in 0..MaxToolCalls
      /\ calls = Len(results)
  BY Budget, LenProperties DEF IInv, TypeOK, CallsAreAccountedFor, NextCall
<1>1. CASE /\ calls = Len(asked)
           /\ stage' = "asking"
           /\ UNCHANGED <<declared, round, asked, calls, results, chars, clock, cancelled, reply>>
  <2>1. TypeOK'
    BY <1>1 DEF IInv, TypeOK, Stages
  <2>2. CallsAreAccountedFor'
    BY <1>0, <1>1 DEF IInv, CallsAreAccountedFor, NextCall
  <2> QED
    BY <1>1, <2>1, <2>2
       DEF IInv, OverWhenCancelled, NoReplyYet, GatePassed, FromAllowed, EvidenceIsEarned, Undeclared, NextCall
<1>2. CASE FailWith("call_budget", round)
  BY <1>0, <1>2, FailWithStep DEF Errors
<1>3. CASE /\ calls < Len(asked) /\ CallsRemain
           /\ calls' = calls + 1
           /\ FailLate(round)
  <2>1. calls' \in 0..MaxToolCalls /\ Len(results) <= calls' /\ calls' <= Len(asked)
    BY <1>0, <1>3 DEF CallsRemain
  <2> QED
    BY <1>0, <1>3, <2>1, FailStep DEF FailLate, Errors
<1>4. CASE /\ calls < Len(asked) /\ CallsRemain
           /\ calls' = calls + 1
           /\ stage' = "tool"
           /\ UNCHANGED <<declared, round, asked, results, chars, clock, cancelled, reply>>
  <2>1. calls' \in 0..MaxToolCalls
    BY <1>0, <1>4 DEF CallsRemain
  <2>2. TypeOK'
    BY <1>4, <2>1 DEF IInv, TypeOK, Stages
  <2>3. ~ reply.ok
    BY DEF IInv, NoReplyYet, NoReply, NextCall
  <2>4. CallsAreAccountedFor'
    BY <1>0, <1>4, <2>3 DEF IInv, CallsAreAccountedFor
  <2> QED
    BY <1>4, <2>2, <2>4
       DEF IInv, OverWhenCancelled, NoReplyYet, GatePassed, FromAllowed, EvidenceIsEarned, Undeclared, NextCall
<1> QED
  BY <1>1, <1>2, <1>3, <1>4 DEF NextCall

\* What a call in time returns becomes the result of that call, and its evidence
\* that of an answered query (runner.py:337-356).
LEMMA ToolAnswersStep ==
  ASSUME IInv, NEW arguments, NEW answer, NEW size \in Sizes,
         ToolAnswers(arguments, answer, size)
  PROVE  IInv'
<1> DEFINE name == asked[calls]
           result == Invoke(name, arguments, answer)
           entry == [tool |-> name, answer |-> answer, ok |-> result.ok,
                     kind |-> result.kind, drafts |-> result.drafts]
<1>0. /\ stage = "tool" /\ round \in Nat /\ size \in Nat /\ chars \in Nat
      /\ Len(asked) \in Nat /\ Len(results) \in Nat
      /\ calls = Len(results) + 1 /\ calls <= Len(asked)
      /\ ~ reply.ok
  BY MessageSizes, LenProperties
     DEF IInv, TypeOK, CallsAreAccountedFor, NoReplyYet, NoReply, ToolAnswers
<1>1. name \in Names
  BY <1>0, ElementOfSeq DEF IInv, TypeOK
<1>2. /\ result \in Outcome
      /\ result.drafts # {} =>
           /\ result.ok
           /\ name \in Allowed /\ Tools[name].permission \in Permissions
           /\ answer \in {"facts", "nothing"}
           /\ result.drafts = {Draft(Tools[name])}
      /\ answer # "not_queried" => name \in Allowed
      /\ answer \in Answers
  BY <1>1, InvokeType DEF ToolAnswers
<1>3. CASE UNCHANGED calls /\ FailLate(round)
  BY <1>0, <1>3, FailLateStep
<1>4. CASE FailWith("observation_size", round)
  BY <1>0, <1>4, FailWithStep DEF Errors
<1>5. CASE /\ results' = Append(results, entry)
           /\ chars' = chars + size
           /\ stage' = "choosing"
           /\ UNCHANGED <<declared, round, asked, calls, clock, cancelled, reply>>
  <2>1. entry \in Result
    BY <1>1, <1>2 DEF Result, Outcome
  <2> HIDE DEF entry
  <2>2. /\ results' \in Seq(Result)
        /\ Len(results') = Len(results) + 1
        /\ \A i \in 1..Len(results) : results'[i] = results[i]
        /\ results'[Len(results) + 1] = entry
        /\ DOMAIN results' = 1..(Len(results) + 1)
        /\ DOMAIN results = 1..Len(results)
    BY <1>0, <1>5, <2>1, AppendProperties, LenProperties DEF IInv, TypeOK
  <2>3. TypeOK'
    BY <1>0, <1>5, <2>2 DEF IInv, TypeOK, Stages
  <2>4. \A i \in DOMAIN results' :
          \/ i \in DOMAIN results /\ results'[i] = results[i]
          \/ i = calls /\ results'[i] = entry
    <3> SUFFICES ASSUME NEW i \in 1..(Len(results) + 1)
                 PROVE  \/ i \in 1..Len(results) /\ results'[i] = results[i]
                        \/ i = Len(results) + 1 /\ results'[i] = entry
      BY <1>0, <2>2
    <3> QED
      BY <1>0, <2>2
  <2>5. CallsAreAccountedFor'
    <3>1. Len(results') = calls' /\ calls' <= Len(asked') /\ ~ reply'.ok /\ stage' = "choosing"
      BY <1>0, <1>5, <2>2
    <3>2. ASSUME NEW i \in DOMAIN results' PROVE results'[i].tool = asked'[i]
      BY <1>5, <2>4 DEF IInv, CallsAreAccountedFor, entry
    <3> QED
      BY <1>0, <1>5, <3>1, <3>2 DEF CallsAreAccountedFor
  <2>6. FromAllowed'
    BY <1>2, <2>4 DEF IInv, FromAllowed, entry
  <2>7. EvidenceIsEarned'
    <3> SUFFICES ASSUME NEW i \in DOMAIN results', NEW d \in results'[i].drafts
                 PROVE  /\ results'[i].ok
                        /\ results'[i].tool \in Allowed
                        /\ Tools[results'[i].tool].permission \in Permissions
                        /\ results'[i].answer \in {"facts", "nothing"}
                        /\ d = Draft(Tools[results'[i].tool])
      BY DEF EvidenceIsEarned
    <3>1. CASE i \in DOMAIN results /\ results'[i] = results[i]
      BY <3>1 DEF IInv, EvidenceIsEarned
    <3>2. CASE results'[i] = entry
      BY <1>2, <3>2 DEF entry
    <3> QED
      BY <2>4, <3>1, <3>2
  <2> QED
    BY <1>0, <1>5, <2>3, <2>5, <2>6, <2>7
       DEF IInv, OverWhenCancelled, NoReplyYet, GatePassed, Undeclared
<1> QED
  BY <1>3, <1>4, <1>5 DEF ToolAnswers

LEMMA TickStep == IInv /\ (Tick \/ UNCHANGED vars) => IInv'
<1> SUFFICES ASSUME IInv, Tick \/ UNCHANGED vars PROVE IInv'
  OBVIOUS
<1>1. TypeOK'
  BY Clocks DEF IInv, TypeOK, Tick, vars
<1>2. CallsAreAccountedFor'
  BY DEF IInv, CallsAreAccountedFor, Tick, vars
<1> QED
  BY <1>1, <1>2
     DEF IInv, OverWhenCancelled, NoReplyYet, GatePassed, FromAllowed, EvidenceIsEarned, Undeclared, Tick, vars

LEMMA InitInv == Init => IInv
<1> SUFFICES ASSUME Init PROVE IInv
  OBVIOUS
<1>1. TypeOK
  <2>1. <<>> \in Seq(Names) /\ <<>> \in Seq(Result)
    BY EmptySeq
  <2>2. NoReply \in Reply
    BY DEF Reply, NoReply, Errors
  <2>3. chars \in Nat /\ 0 \in 0..MaxRounds /\ 0 \in 0..MaxToolCalls /\ 0 \in 0..Horizon
    BY Budget, Clocks, MessageSizes DEF Init
  <2> QED
    BY <2>1, <2>2, <2>3 DEF Init, TypeOK, Stages
<1>2. CallsAreAccountedFor
  BY EmptySeq DEF Init, CallsAreAccountedFor, NoReply
<1> QED
  BY <1>1, <1>2, EmptySeq
     DEF IInv, Init, OverWhenCancelled, NoReplyYet, GatePassed, FromAllowed, EvidenceIsEarned

LEMMA NextInv == IInv /\ [Next]_vars => IInv'
BY GateStep, AskModelStep, ModelFailsStep, ModelAnswersStep, NextCallStep, ToolAnswersStep,
   TickStep
   DEF Next, Step

LEMMA Invariant == Spec => []IInv
BY InitInv, NextInv, PTL DEF Spec

-----------------------------------------------------------------------------
\* Every run of the loop is well typed: no counter ever exceeds its budget.
THEOREM TypeCorrect == Spec => []TypeOK
BY Invariant, PTL DEF IInv

\* Calls and results correspond, in order, at every point of every run
\* (runner.py:291-368).
THEOREM CallsAccounted == Spec => []CallsAreAccountedFor
BY Invariant, PTL DEF IInv

\* No failure, refusal or unknown tool ever leaves evidence (contracts.py:98-100).
THEOREM EvidenceEarned == Spec => []EvidenceIsEarned
BY Invariant, PTL DEF IInv

\* Nothing runs for a participant that does not declare cancellation
\* (runner.py:190-201).
THEOREM DeclaredRun == Spec => []OnlyDeclaredRun
<1>1. IInv => OnlyDeclaredRun
  BY DEF IInv, GatePassed, FromAllowed, OnlyDeclaredRun, Undeclared
<1> QED
  BY <1>1, Invariant, PTL

\* Nothing is started or taken after the deadline or after the run was cancelled
\* (runner.py:462-482).
THEOREM NothingIsLate == Spec => NothingLate
<1>1. IInv /\ [Next]_vars => [clock > Deadline \/ cancelled =>
                                /\ asked' = asked /\ results' = results
                                /\ reply'.ok => reply.ok
                                /\ stage' \in {"model", "tool"} => stage' = stage]_vars
  <2> SUFFICES ASSUME IInv, Next, clock > Deadline \/ cancelled
               PROVE  /\ asked' = asked /\ results' = results
                      /\ reply'.ok => reply.ok
                      /\ stage' \in {"model", "tool"} => stage' = stage
    BY DEF vars
  <2>0. clock \in Nat /\ Deadline \in Nat
    BY Budget, Clocks DEF IInv, TypeOK
  <2>1. CASE cancelled
    <3>1. stage = "ended"
      BY <2>1 DEF IInv, OverWhenCancelled
    <3> QED
      BY <3>1 DEF Next, Step, Gate, AskModel, ModelFails, ModelAnswers, NextCall, ToolAnswers, Tick
  <2>2. CASE clock > Deadline
    <3>1. ~ InTime /\ ~ TimeRemains
      BY <2>0, <2>2 DEF InTime, TimeRemains
    <3>2. ASSUME NEW error, NEW rounds, Fail(error, rounds)
          PROVE  asked' = asked /\ results' = results /\ ~ reply'.ok /\ stage' = "ended"
      BY <3>2 DEF Fail
    <3>3. CASE Gate
      BY <3>2, <3>3 DEF Gate, FailWith
    <3>4. CASE AskModel
      BY <3>1, <3>2, <3>4 DEF AskModel, FailWith, FailLate
    <3>5. CASE ModelFails
      BY <3>1, <3>2, <3>5 DEF ModelFails, FailLate
    <3>6. ASSUME NEW response \in Responses, ModelAnswers(response)
          PROVE  asked' = asked /\ results' = results /\ ~ reply'.ok /\ stage' = "ended"
      BY <3>1, <3>2, <3>6 DEF ModelAnswers, FailLate
    <3>7. CASE NextCall
      BY <3>1, <3>2, <3>7 DEF NextCall, FailWith, FailLate
    <3>8. ASSUME NEW arguments, NEW answer, NEW size, ToolAnswers(arguments, answer, size)
          PROVE  asked' = asked /\ results' = results /\ ~ reply'.ok /\ stage' = "ended"
      BY <3>1, <3>2, <3>8 DEF ToolAnswers, FailLate
    <3>9. CASE Tick
      BY <3>9 DEF Tick
    <3> QED
      BY <3>3, <3>4, <3>5, <3>6, <3>7, <3>8, <3>9 DEF Next, Step
  <2> QED
    BY <2>1, <2>2
<1> QED
  BY <1>1, Invariant, PTL DEF Spec, NothingLate
=============================================================================
