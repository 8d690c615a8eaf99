------------------------------ MODULE ToolLoop ------------------------------
(***************************************************************************)
(* One run of ToolLoopRunner (agent/runner.py): the model is asked in      *)
(* rounds, each round it asks for tools or concludes, and every request is *)
(* counted against a budget and against one deadline for the whole run.    *)
(* Operations are synchronous: while the model or a tool works the loop    *)
(* waits, and what comes back after the deadline is thrown away.           *)
(***************************************************************************)
EXTENDS DeviceTools, Sequences

CONSTANTS
  Names,            \* names of tools, the ones a model makes up included
  Tools,            \* the tools of the registry: a function from names to tools
  Allowed,          \* tool_allowlist, the names that are not registered dropped
  Permissions,      \* what the execution context grants
  Strict,           \* require_cancellation_aware
  Responses,        \* responses of the model: [kind, calls, size, concludes]
  Arguments,        \* how the arguments of a call turn out: see DeviceTools!Execute
  Sizes,            \* sizes of messages, in some unit of characters
  MaxRounds, MaxToolCalls, MaxResponse, MaxObservation, MaxContext,
  Deadline,         \* timeout_seconds, in ticks
  Horizon           \* the clock is not followed beyond this tick

Model == "the_model"

ASSUME ToolShape == Tools \in [DOMAIN Tools -> Tool]
ASSUME RegisteredHaveNames == DOMAIN Tools \subseteq Names
ASSUME AllowedAreRegistered == Allowed \subseteq DOMAIN Tools
ASSUME Budget == /\ MaxRounds \in Nat \ {0}
                 /\ MaxToolCalls \in Nat
                 /\ {MaxResponse, MaxObservation, MaxContext, Deadline} \subseteq Nat \ {0}
ASSUME Clocks == Horizon \in Nat
ASSUME MessageSizes == Sizes \subseteq Nat
ASSUME ResponseShape ==
  \A r \in Responses :
    /\ r.kind \in {"answer", "error"}
    /\ r.size \in Nat
    /\ r.calls \in Seq(Names)
    /\ r.concludes \in BOOLEAN

VARIABLES
  stage,      \* where the loop is
  declared,   \* the participants that declare cooperative cancellation
  round,      \* round_index
  asked,      \* every tool call the model has asked for, in order
  calls,      \* tool_calls_used
  results,    \* tool_results, each with the call and the gateway's answer
  chars,      \* characters of the messages so far
  clock,      \* time since the run began
  cancelled,  \* the run's cancellation token
  reply       \* the ToolLoopResult, once the run has ended

vars == <<stage, declared, round, asked, calls, results, chars, clock, cancelled, reply>>

NoReply == [ok |-> FALSE, error |-> "none", rounds |-> 0, calls |-> 0]

Answers == {"facts", "nothing", "not_queried"} \cup GatewayErrors

Stages == {"gate", "asking", "model", "choosing", "tool", "ended"}
Errors == {"none", "undeclared", "context", "deadline", "model_failed", "response_size",
           "model_error", "call_budget", "observation_size", "no_answer", "round_budget"}
Result == [tool : Names, answer : Answers, ok : BOOLEAN, kind : FailureKinds \cup {"none"},
           drafts : SUBSET Drafts]
Reply == [ok : BOOLEAN, error : Errors, rounds : Nat, calls : Nat]

TypeOK ==
  /\ stage \in Stages
  /\ declared \subseteq DOMAIN Tools \cup {Model}
  /\ round \in 0..MaxRounds
  /\ asked \in Seq(Names)
  /\ calls \in 0..MaxToolCalls
  /\ results \in Seq(Result)
  /\ chars \in Nat
  /\ clock \in 0..Horizon
  /\ cancelled \in BOOLEAN
  /\ reply \in Reply

Init ==
  /\ stage = "gate"
  /\ declared \in SUBSET (DOMAIN Tools \cup {Model})
  /\ round = 0
  /\ asked = <<>>
  /\ calls = 0
  /\ results = <<>>
  /\ \E size \in Sizes : chars = size   \* the system prompt and the description of the case
  /\ clock = 0
  /\ cancelled = FALSE
  /\ reply = NoReply

-----------------------------------------------------------------------------
\* _failure: the run ends; what was observed so far stays in the result.
Fail(error, rounds) ==
  /\ stage' = "ended"
  /\ reply' = [ok |-> FALSE, error |-> error, rounds |-> rounds, calls |-> calls']
  /\ UNCHANGED <<declared, round, asked, results, chars, clock>>

\* _deadline_failure
FailLate(rounds) == cancelled' = TRUE /\ Fail("deadline", rounds)

FailWith(error, rounds) == UNCHANGED <<calls, cancelled>> /\ Fail(error, rounds)

\* An operation may start, and what it came back with may be used.
TimeRemains == clock < Deadline
\* Mutation: the deadline is looked at only before an operation.
AcceptLateAnswers == TRUE
InTime == clock <= Deadline

\* _unsupported_participants
Undeclared == (Allowed \cup {Model}) \ declared

Gate ==
  /\ stage = "gate"
  /\ \/ Strict /\ Undeclared # {} /\ FailWith("undeclared", 0)
     \/ /\ Strict => Undeclared = {}
        /\ stage' = "asking"
        /\ UNCHANGED <<declared, round, asked, calls, results, chars, clock, cancelled, reply>>

\* The head of the round: budgets, then the request to the model.
AskModel ==
  /\ stage = "asking"
  /\ \/ round = MaxRounds /\ FailWith("round_budget", MaxRounds)
     \/ round < MaxRounds /\ chars > MaxContext /\ FailWith("context", round + 1)
     \/ /\ round < MaxRounds /\ chars <= MaxContext /\ ~ TimeRemains
        /\ UNCHANGED calls /\ FailLate(round + 1)
     \/ /\ round < MaxRounds /\ chars <= MaxContext /\ TimeRemains
        /\ stage' = "model"
        /\ round' = round + 1
        /\ UNCHANGED <<declared, asked, calls, results, chars, clock, cancelled, reply>>

\* complete() raised.
ModelFails ==
  /\ stage = "model"
  /\ \/ ~ InTime /\ UNCHANGED calls /\ FailLate(round)
     \/ InTime /\ FailWith("model_failed", round)

\* Mutation: a response that asks for tools and concludes is taken as a conclusion.
ConcludeFirst(response) == response.concludes
\* A response with tool calls is no conclusion, whatever else it holds.
Concludes(response) == response.calls = <<>> /\ response.concludes

\* complete() returned.
ModelAnswers(response) ==
  LET use == InTime /\ response.size <= MaxResponse /\ response.kind # "error" IN
  /\ stage = "model"
  /\ \/ ~ InTime /\ UNCHANGED calls /\ FailLate(round)
     \/ InTime /\ response.size > MaxResponse /\ FailWith("response_size", round)
     \/ /\ InTime /\ response.size <= MaxResponse /\ response.kind = "error"
        /\ FailWith("model_error", round)
     \/ /\ use /\ ~ Concludes(response) /\ response.calls # <<>>
        /\ stage' = "choosing"
        /\ asked' = asked \o response.calls
        /\ UNCHANGED <<declared, round, calls, results, chars, clock, cancelled, reply>>
     \/ /\ use /\ Concludes(response)
        /\ stage' = "ended"
        /\ asked' = asked \o response.calls
        /\ reply' = [ok |-> TRUE, error |-> "none", rounds |-> round, calls |-> calls]
        /\ UNCHANGED <<declared, round, calls, results, chars, clock, cancelled>>
     \/ /\ use /\ ~ Concludes(response) /\ response.calls = <<>>
        /\ FailWith("no_answer", round)

\* Mutation: when the budget is spent the loop waits.
NextCallOrWait ==
  /\ stage = "choosing"
  /\ \/ /\ calls = Len(asked)
        /\ stage' = "asking"
        /\ UNCHANGED calls
     \/ /\ calls < Len(asked) /\ calls < MaxToolCalls /\ TimeRemains
        /\ calls' = calls + 1
        /\ stage' = "tool"
  /\ UNCHANGED <<declared, round, asked, results, chars, clock, cancelled, reply>>
CallsRemain == calls < MaxToolCalls

\* The next call of the response: it is counted before it is known to start.
NextCall ==
  /\ stage = "choosing"
  /\ \/ /\ calls = Len(asked)
        /\ stage' = "asking"
        /\ UNCHANGED <<declared, round, asked, calls, results, chars, clock, cancelled, reply>>
     \/ /\ calls < Len(asked) /\ ~ CallsRemain
        /\ FailWith("call_budget", round)
     \/ /\ calls < Len(asked) /\ CallsRemain /\ ~ TimeRemains
        /\ calls' = calls + 1
        /\ FailLate(round)
     \/ /\ calls < Len(asked) /\ CallsRemain /\ TimeRemains
        /\ calls' = calls + 1
        /\ stage' = "tool"
        /\ UNCHANGED <<declared, round, asked, results, chars, clock, cancelled, reply>>

\* _invoke, and BaseTool.run up to the query: the call reaches its gateway.
Queries(name, arguments) ==
  name \in Allowed /\ Tools[name].permission \in Permissions /\ arguments = "valid"

Outcomes(name, arguments) ==
  IF Queries(name, arguments) THEN AnswersOf(Tools[name]) ELSE {"not_queried"}

\* _invoke and ToolRegistry.execute
Invoke(name, arguments, answer) ==
  IF name \in Allowed THEN Execute(Tools[name], Permissions, arguments, answer)
                      ELSE Failure("none")

\* The call returns.  Only the observation of a success is limited; the text of a
\* failure goes into the messages as it is.
ToolAnswers(arguments, answer, size) ==
  LET name   == asked[calls]
      result == Invoke(name, arguments, answer)
  IN
  /\ stage = "tool"
  /\ answer \in Outcomes(name, arguments)
  /\ \/ ~ InTime /\ UNCHANGED calls /\ FailLate(round)
     \/ /\ InTime /\ result.ok /\ size > MaxObservation
        /\ FailWith("observation_size", round)
     \/ /\ InTime /\ (result.ok => size <= MaxObservation)
        /\ results' = Append(results, [tool |-> name, answer |-> answer, ok |-> result.ok,
                                       kind |-> result.kind, drafts |-> result.drafts])
        /\ chars' = chars + size
        /\ stage' = "choosing"
        /\ UNCHANGED <<declared, round, asked, calls, clock, cancelled, reply>>

Tick ==
  /\ stage # "ended"
  /\ clock < Horizon
  /\ clock' = clock + 1
  /\ UNCHANGED <<stage, declared, round, asked, calls, results, chars, cancelled, reply>>

Step ==
  \/ Gate
  \/ AskModel
  \/ ModelFails
  \/ \E response \in Responses : ModelAnswers(response)
  \/ NextCall
  \/ \E a \in Arguments, answer \in Answers, s \in Sizes :
       ToolAnswers(a, answer, s)

Next == Step \/ Tick

Spec == Init /\ [][Next]_vars

\* The model and the tools bound their own I/O, so every operation returns.
FairSpec == Spec /\ WF_vars(Step)

-----------------------------------------------------------------------------
\* Each call the model asked for is answered in the order asked, at most one is
\* under way, none is counted twice or forgotten; and a run concludes only when
\* every call it asked for, in this or an earlier round, was answered in time
\* (runner.py:291-368).
CallsAreAccountedFor ==
  /\ Len(results) <= calls /\ calls <= Len(asked)
  /\ stage = "tool" => calls = Len(results) + 1
  /\ stage \in {"gate", "asking", "model", "choosing"} => calls = Len(results)
  /\ stage \in {"gate", "asking", "model"} => calls = Len(asked)
  /\ \A i \in DOMAIN results : results[i].tool = asked[i]
  /\ stage = "ended" => reply.calls = calls
  /\ reply.ok => calls = Len(results) /\ calls = Len(asked)

\* Evidence is only ever drafted from what a gateway answered to an allowed call,
\* as the kind of evidence its tool stands for; no failure leaves any
\* (registry.py:66-128, contracts.py:98-100).
EvidenceIsEarned ==
  \A i \in DOMAIN results : \A d \in results[i].drafts :
    LET name == results[i].tool IN
    /\ results[i].ok
    /\ name \in Allowed /\ Tools[name].permission \in Permissions
    /\ results[i].answer \in {"facts", "nothing"}
    /\ d = Draft(Tools[name])

\* A run that was refused, or that ran out of time, has asked for nothing since:
\* what the model and the tools return late is in no result, and nothing is started
\* (runner.py:462-482).
NothingLate ==
  [][clock > Deadline \/ cancelled =>
       /\ asked' = asked /\ results' = results
       /\ reply'.ok => reply.ok
       /\ stage' \in {"model", "tool"} => stage' = stage]_vars

\* Nothing runs for a participant that does not declare cooperative cancellation
\* (runner.py:190-201).
OnlyDeclaredRun ==
  Strict /\ round > 0 =>
    /\ Model \in declared
    /\ \A i \in DOMAIN results : results[i].answer # "not_queried" => results[i].tool \in declared

\* Every run ends, whatever the model keeps asking for (runner.py:221, 293).
EveryRunEnds == <>(stage = "ended")

\* What a failed gateway query is called in the result: a run whose device calls
\* timed out is told apart from one that had nothing to ask.
TimeoutsAreClassified ==
  \A i \in DOMAIN results : results[i].answer = "timeout" => results[i].kind = "timeout"
=============================================================================
