----------------------------- MODULE ToolCalls ------------------------------
(***************************************************************************)
(* The handling of the tool calls of a round (Graph.Run, agent/graph.go),  *)
(* from the model's request to the reported result, with the parts that    *)
(* AgentRun takes as given: the approver, the parameter checks and the     *)
(* timeout around the tool's function.  An element of Runs is a run that   *)
(* handles one round of calls; the runs share the console, the approving   *)
(* service and what the tools act on.                                      *)
(***************************************************************************)
EXTENDS Validation, Approvers, ToolTimeout, FiniteSets

CONSTANTS
    Runs,
    RoundLength,  \* the calls of a round, at most
    Requests,     \* the calls a model may ask for: name -> [tool, args]
    Scenarios     \* programs and rounds: [build, approver, round]; build is
                  \* the validator's, "default" or "jsonschema", and round
                  \* gives each run its requests in order

\* Approvers and ToolTimeout are both about the calls of these rounds.
Calls == Runs \X (1 .. RoundLength)
ASSUME CallsAssumption == RoundLength \in Nat /\ Asks = Calls /\ Attempts = Calls
ASSUME ScenariosAssumption ==
    /\ Scenarios \subseteq [build : {"default", "jsonschema"}, approver : ApproverKinds,
                            round : [Runs -> Seq(DOMAIN Requests)]]
    /\ \A s \in Scenarios, r \in Runs : Len(s.round[r]) <= RoundLength

VARIABLES
    build,      \* the validator this program was built with
    alive,      \* has no validator panicked?
    at,         \* where each run is in the handling of its call
    next,       \* the position of that call in the round
    round,      \* toolCalls of each run
    cancelled,  \* the runs whose context the caller cancelled
    outcome     \* what became of each call

runVars == <<build, alive, at, next, round, cancelled, outcome>>
callVars == <<runVars, approverVars, timeoutVars>>

Current(r) == <<r, next[r]>>
Tool(c) == Requests[round[c[1]][c[2]]].tool
Args(c) == Requests[round[c[1]][c[2]]].args

CallsInit ==
    /\ \E s \in Scenarios : build = s.build /\ approver = s.approver /\ round = s.round
    /\ alive = TRUE
    /\ at = [r \in Runs |-> "next"]
    /\ next = [r \in Runs |-> 1]
    /\ cancelled = {}
    /\ outcome = [c \in Calls |-> "none"]
    /\ ApproversInit /\ TimeoutsInit

Report(r, what) ==
    /\ outcome' = [outcome EXCEPT ![Current(r)] = what]
    /\ next' = [next EXCEPT ![r] = @ + 1]
    /\ at' = [at EXCEPT ![r] = "next"]

-----------------------------------------------------------------------------
(***************************************************************************)
(* The steps of a run.  None of them looks at the run's context.           *)
(***************************************************************************)
Request(r) ==
    /\ at[r] = "next" /\ next[r] <= Len(round[r])
    /\ IF Tool(Current(r)).gated
       THEN Ask(Current(r)) /\ at' = [at EXCEPT ![r] = "approval"]
       ELSE at' = [at EXCEPT ![r] = "approved"] /\ UNCHANGED approverVars
    /\ UNCHANGED <<build, alive, next, round, cancelled, outcome, timeoutVars>>

ApproverReturns(r) ==
    \/ ConsoleDecides(Current(r))
    \/ r \in cancelled /\ ConsoleCancelled(Current(r))
    \/ HTTPDecides(Current(r))
    \/ HTTPFails(Current(r))

\* Mutant: the decision is read and only "rejected" is a rejection.
HearReply_ByDecision(r) ==
    /\ at[r] = "approval"
    /\ ApproverReturns(r)
    /\ IF reply'[Current(r)].decision = "rejected"
       THEN Report(r, "rejected")
       ELSE at' = [at EXCEPT ![r] = "approved"] /\ UNCHANGED <<next, outcome>>
    /\ UNCHANGED <<build, alive, round, cancelled, timeoutVars>>

\* An error is a rejection; the decision itself is not read.
HearReply(r) ==
    /\ at[r] = "approval"
    /\ ApproverReturns(r)
    /\ IF reply'[Current(r)].err
       THEN Report(r, "rejected")
       ELSE at' = [at EXCEPT ![r] = "approved"] /\ UNCHANGED <<next, outcome>>
    /\ UNCHANGED <<build, alive, round, cancelled, timeoutVars>>

Acceptable(c) == SchemaAccepts(build, ParametersSchema(Tool(c).parameters), Args(c))

RefuseBySchema(r) ==
    /\ at[r] = "approved" /\ ~Acceptable(Current(r))
    /\ Report(r, "refused")
    /\ UNCHANGED <<build, alive, round, cancelled, approverVars, timeoutVars>>

\* WrappedTool.Call with its validators, then the tool it wraps.
CallWrapped(r) ==
    /\ at[r] = "approved" /\ Acceptable(Current(r))
    /\ LET c == Current(r)
           verdictOf == ChainVerdict(Tool(c).validators, Args(c))
       IN  CASE verdictOf = "pass" ->
                  /\ StartAttempt(c, Tool(c).timed, r \in cancelled)
                  /\ at' = [at EXCEPT ![r] = "call"]
                  /\ UNCHANGED <<alive, next, outcome>>
             [] verdictOf = "refuse" -> Report(r, "invalid") /\ UNCHANGED <<alive, timeoutVars>>
             [] OTHER -> alive' = FALSE /\ UNCHANGED <<at, next, outcome, timeoutVars>>
    /\ UNCHANGED <<build, round, cancelled, approverVars>>

CallReturns(r) ==
    /\ at[r] = "call"
    /\ LET c == Current(r)
       IN  /\ ReturnResult(c) \/ TakeResult(c) \/ ReportTimeout(c)
           /\ Report(r, verdict'[c])
    /\ UNCHANGED <<build, alive, round, cancelled, approverVars>>

RoundEnds(r) ==
    /\ at[r] = "next" /\ next[r] > Len(round[r])
    /\ at' = [at EXCEPT ![r] = "done"]
    /\ UNCHANGED <<build, alive, next, round, cancelled, outcome, approverVars, timeoutVars>>

RunStep(r) ==
    Request(r) \/ HearReply(r) \/ RefuseBySchema(r) \/ CallWrapped(r) \/ CallReturns(r) \/ RoundEnds(r)

-----------------------------------------------------------------------------
(***************************************************************************)
(* The functions of the tools and the goroutines                           *)
(***************************************************************************)
\* What the built-in tools check themselves before they act: every argument
\* they need is there and is a string, the ones named in filled not empty.
\* Mutant: only the arguments that must not be empty are looked at.
OwnCheck_FilledOnly(tool, args) ==
    \A key \in tool.filled : key \in DOMAIN args /\ args[key] # EmptyString

OwnCheck(tool, args) ==
    /\ \A key \in tool.needs : key \in DOMAIN args /\ HasType(args, key, "string")
    /\ \A key \in tool.filled : args[key] # EmptyString

FunctionActs(c) ==
    /\ Act(c, Tool(c).heeds)
    /\ OwnCheck(Tool(c), Args(c))
    /\ UNCHANGED <<runVars, approverVars>>

\* A check of its own, its context, or the work itself fails.
FunctionFails(c) == GiveUp(c) /\ UNCHANGED <<runVars, approverVars>>

GoroutineSends(c) == SendResult(c) /\ UNCHANGED <<runVars, approverVars>>
DeadlinePasses(c) == Expire(c) /\ UNCHANGED <<runVars, approverVars>>
ReaderReads(c) == Read(c) /\ UNCHANGED <<runVars, timeoutVars>>

(***************************************************************************)
(* People                                                                  *)
(***************************************************************************)
PersonAnswers(c) == Answer(c) /\ UNCHANGED <<runVars, timeoutVars>>
InputCloses == CloseInput /\ UNCHANGED <<runVars, timeoutVars>>

\* The caller gives up; the contexts of the run's calls are done with its own.
CancelRun(r) ==
    /\ r \notin cancelled /\ at[r] # "done"
    /\ cancelled' = cancelled \cup {r}
    /\ expired' = expired \cup {c \in Calls : c[1] = r /\ caller[c] \in {"selecting", "calling"}}
    /\ UNCHANGED <<build, alive, at, next, round, outcome, approverVars,
                   caller, worker, channel, verdict, effects>>

Stopped ==
    /\ ~alive \/ (\A r \in Runs : at[r] = "done")
    /\ UNCHANGED callVars

CallsNext ==
    \/ /\ alive
       /\ \/ \E r \in Runs : RunStep(r) \/ CancelRun(r)
          \/ \E c \in Calls :
               \/ FunctionActs(c) \/ FunctionFails(c) \/ GoroutineSends(c)
               \/ DeadlinePasses(c) \/ ReaderReads(c) \/ PersonAnswers(c)
          \/ InputCloses
    \/ Stopped

CallsSpec == CallsInit /\ [][CallsNext]_callVars

(***************************************************************************)
(* Goroutines are not starved, deadlines pass, and the HTTP client has a   *)
(* timeout (10 s unless configured).  A function that watches its context  *)
(* returns once that is done; nothing makes any other function return, a   *)
(* person answer, or a caller cancel.  The steps of Background of one call  *)
(* are finitely many, so fairness to any of them is fairness to all.       *)
(***************************************************************************)
Background(c) ==
    \/ GoroutineSends(c) \/ DeadlinePasses(c) \/ ReaderReads(c)
    \/ c \in expired /\ Tool(c).heeds /\ FunctionFails(c)

FairCallsSpec ==
    /\ CallsSpec
    /\ \A r \in Runs : WF_callVars(alive /\ RunStep(r))
    /\ \A c \in Calls : WF_callVars(alive /\ Background(c))

-----------------------------------------------------------------------------
(***************************************************************************)
(* Properties                                                              *)
(***************************************************************************)
\* Every variable holds values of its kind, and a call is where its run is.
CallsTypeOK ==
    /\ [build |-> build, approver |-> approver, round |-> round] \in Scenarios
    /\ alive \in BOOLEAN
    /\ at \in [Runs -> {"next", "approval", "approved", "call", "done"}]
    /\ next \in [Runs -> 1 .. RoundLength + 1]
    /\ cancelled \subseteq Runs
    /\ outcome \in [Calls -> Verdicts \cup {"none", "rejected", "refused", "invalid"}]
    /\ ApproversTypeOK /\ TimeoutsTypeOK
    /\ \A r \in Runs : next[r] <= Len(round[r]) =>
         /\ at[r] = "approval" <=> asked[Current(r)] = "waiting"
         /\ at[r] = "call" <=> caller[Current(r)] \in {"selecting", "calling"}

\* No gated tool takes effect, in time or after its timeout, unless a yes to
\* that very call was given: on a console whose prompt had standard input to
\* itself, or to the approving service (graph.go:237-273, hitl.go:60-85,
\* hitl_http.go:78-113).
ActsAreApproved ==
    \A i \in DOMAIN effects :
        LET c == effects[i]
        IN  Tool(c).gated => answered[c] = "yes" \/ c \in contested

\* An approver returns no error only with "approved": what AgentRun assumes
\* of it.  The graph never reads the decision (graph.go:237-239).
ApproversKeepTheContract ==
    \A c \in Calls : reply[c] # NoAnswer /\ ~reply[c].err => reply[c] = Approved

\* A tool acts only on arguments that hold every key its schema requires: the
\* default build does not see the built-in tools' lists of required keys, so
\* it is their own checks that keep this (validation.go:173-180, fs/write.go:23).
Declares(tool) == ParametersSchema(tool.parameters)
ActsHaveTheirArguments ==
    \A i \in DOMAIN effects :
        LET c == effects[i]
        IN  /\ Declares(Tool(c)).required \subseteq DOMAIN Args(c)
            /\ TypesHold(Declares(Tool(c)).props, Args(c))

\* Whichever validator is built in, a call is refused only for what its schema
\* says: what the light validator refuses, the full one refuses too.
RefusalsAreDue ==
    \A c \in Calls : outcome[c] = "refused" => ~FullAccepts(Declares(Tool(c)), Args(c))

\* The calls of a run that are reported to have succeeded took effect in the
\* order of the reports, each once and before its report; an effect can come
\* after the report of its own call only when that reported a timeout
\* (tool.go:61-85).
EffectOf(c) == {i \in DOMAIN effects : effects[i] = c}
SuccessesInOrder ==
    /\ \A c \in Calls : Cardinality(EffectOf(c)) =
          CASE verdict[c] = "ok" -> 1
            [] verdict[c] = "error" -> 0
            [] OTHER -> IF EffectOf(c) = {} THEN 0 ELSE 1
    /\ \A c, d \in Calls : \A i \in EffectOf(c), j \in EffectOf(d) :
          (c[1] = d[1] /\ c[2] < d[2] /\ verdict[c] = "ok") => i < j

\* A call of a tool with a timeout returns although its function may not, and
\* a goroutine whose function has returned ends although its caller may have
\* gone: neither waits for the other (tool.go:64-85).
TimedCallsEnd ==
    /\ \A r \in Runs : at[r] = "call" /\ Tool(Current(r)).timed ~> at[r] # "call" \/ ~alive
    /\ \A c \in Calls : worker[c] \in {"ok", "error"} ~> worker[c] = "ended" \/ ~alive

\* A cancelled run comes to the end of its round: neither a person who does not
\* answer nor a tool holds it up, except a function without a timeout that does
\* not watch its context (hitl.go:72-74, tool.go:81-83).
Unbounded(tool) == ~tool.timed /\ ~tool.heeds
CancelledRunsFinish ==
    \A r \in Runs :
        r \in cancelled ~>
            \/ at[r] = "done" \/ ~alive
            \/ at[r] = "call" /\ Unbounded(Tool(Current(r)))

\* The answer to a prompt that has standard input to itself ends the prompt.
AnswersAreHeard ==
    \A c \in Calls :
        answered[c] # NoAnswer ~> asked[c] = "returned" \/ c \in contested \/ ~alive

=============================================================================
