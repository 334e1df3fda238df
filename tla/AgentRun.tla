------------------------------ MODULE AgentRun ------------------------------
(***************************************************************************)
(* Graph.Run (agent/graph.go): the ReAct loop of an agent, executed by a   *)
(* set of concurrent callers of Invoke and Stream over shared threads.     *)
(*                                                                         *)
(* One element of Runs is one call of Invoke.  A run loads the checkpoint  *)
(* of its thread, appends its input, and alternates model calls and tool   *)
(* calls, saving the whole conversation after every round, until the model *)
(* answers, fails, or the iteration budget of the thread is spent.         *)
(*                                                                         *)
(* Every await of the code (the model, the approver, the tool, the store,  *)
(* the checkpointer) ends an action, so other runs and a crash of the      *)
(* process can come between any two of them.                               *)
(***************************************************************************)
EXTENDS Naturals, FiniteSets, SequencesExt

CONSTANTS
    Runs,             \* the calls of Invoke/Stream made on this agent
    Threads,          \* thread ids, the keys of the checkpointer
    ToolNames,        \* the names a model may ask for
    Tools,            \* Graph.tools: the registered ones
    Gated,            \* the tools that InterruptConfig maps to true
    Responses,        \* what the model may answer
    ToolOutcomes,     \* how executing a tool may end
    ApproverReplies,  \* what the approver may return
    MaxIterations,    \* the bound of the ReAct loop (20 in the code)
    Faults,           \* the failures of the environment in this instance
    Overlap,          \* may the caller overlap runs on one thread?
    None,             \* "no value"; an absent checkpoint or memory entry
    Torn              \* a checkpoint file that no longer parses

FaultKinds == {"load", "save", "audit", "memory", "crash", "torn"}

(***************************************************************************)
(* "error" is a Call that returns an error, "invalid" a call the schema    *)
(* refused before Call, "unserializable" a result json.Marshal refuses.    *)
(***************************************************************************)
OutcomeKinds == {"ok", "error", "invalid", "unserializable"}

ResponseType == [content : BOOLEAN, calls : Seq(ToolNames)]
ReplyType == [decision : STRING, err : BOOLEAN]

ASSUME ToolsAssumption == Tools \subseteq ToolNames /\ Gated \subseteq ToolNames
ASSUME ResponsesAssumption == Responses \subseteq ResponseType
ASSUME OutcomesAssumption == ToolOutcomes \subseteq OutcomeKinds
ASSUME BudgetAssumption == MaxIterations \in Nat \ {0}
ASSUME FaultsAssumption == Faults \subseteq FaultKinds /\ Overlap \in BOOLEAN
\* The contract of ApproverFunc: it returns no error only for an approval.
ASSUME ApproverAssumption ==
    /\ ApproverReplies \subseteq ReplyType
    /\ \A a \in ApproverReplies : ~a.err => a.decision = "approved"

(***************************************************************************)
(* Conversations                                                           *)
(***************************************************************************)
CallIds == [run : Runs, round : Nat, index : Nat, tool : ToolNames]

Codes == {"ok", "tool_execution_error", "serialization_error", "hitl_rejected"}

SystemMessage == [role |-> "system"]
UserMessage(r) == [role |-> "user", run |-> r]
AssistantMessage(r, i) == [role |-> "assistant", run |-> r, round |-> i]
ToolMessage(c, code) == [role |-> "tool", call |-> c, code |-> code]

Messages == {SystemMessage}
            \cup [role : {"user"}, run : Runs]
            \cup [role : {"assistant"}, run : Runs, round : Nat]
            \cup [role : {"tool"}, call : CallIds, code : Codes]

\* State.Final: the run and round of the last answer given on the thread.
Finals == [run : Runs, round : Nat]
Conversations == [messages : Seq(Messages) \ {<<>>}, iteration : Nat, final : Finals \cup {None}]

FreshConversation == [messages |-> <<SystemMessage>>, iteration |-> 0, final |-> None]

Say(state, m) == [state EXCEPT !.messages = Append(@, m)]

\* Mutants of Resume: a new run starts with a fresh budget; without the
\* history; with the history cut down to its last message.
Resume_FreshBudget(saved, r) ==
    LET state == IF saved = None THEN FreshConversation ELSE saved
    IN  [state EXCEPT !.messages = Append(@, UserMessage(r)), !.iteration = 0]
Resume_Forgets(saved, r) == Say(FreshConversation, UserMessage(r))
Resume_Trims(saved, r) ==
    LET state == IF saved = None THEN FreshConversation ELSE saved
    IN  [state EXCEPT !.messages = <<Last(@), UserMessage(r)>>]

\* The checkpoint read and the new input appended to it.
Resume(saved, r) ==
    LET state == IF saved = None THEN FreshConversation ELSE saved
    IN  Say(state, UserMessage(r))

\* Mutants of OutcomeCode: a code the documents do not list; a call the schema
\* refused reported as done.
OutcomeCode_Unlisted(o) == IF o = "ok" THEN "ok" ELSE "tool_failed"
OutcomeCode_InvalidIsOk(o) ==
    CASE o \in {"ok", "invalid"} -> "ok"
      [] o = "unserializable" -> "serialization_error"
      [] OTHER -> "tool_execution_error"

\* The code of the tool message for the outcome of a call.
OutcomeCode(o) ==
    CASE o = "ok" -> "ok"
      [] o = "unserializable" -> "serialization_error"
      [] OTHER -> "tool_execution_error"

(***************************************************************************)
(* Events.  ok is the negation of "error", or "approved", or the OK field  *)
(* of a tool result; code is the Code field of a tool result, or the code  *)
(* of the error that ends the run.                                         *)
(***************************************************************************)
EventTypes == {"model_call", "message", "tool_call", "hitl_request",
               "hitl_decision", "tool_result", "final", "error"}
RunErrors == {"checkpoint_load_error", "llm_invoke_error", "max_iterations_reached"}

\* No conversation, call or outcome of a run can be taken for one of the markers.
ASSUME MarkersAssumption ==
    /\ None \notin Conversations /\ Torn \notin Conversations
    /\ None \notin CallIds /\ None \notin RunErrors \cup {"final"}

Events == [type : EventTypes, call : CallIds \cup {None}, ok : BOOLEAN,
           code : Codes \cup RunErrors \cup {None}]

Event(type, c, ok, code) == [type |-> type, call |-> c, ok |-> ok, code |-> code]
Plain(type) == Event(type, None, TRUE, None)
AuditEntries == [event : {"hitl_request", "hitl_decision"}, call : CallIds, approved : BOOLEAN]

\* The counters of a run.
Stats == [modelCalls : Nat, modelErrors : Nat, toolCalls : Nat, toolErrors : Nat]

VARIABLES
    \* local to Run
    pc,          \* where each run is
    thread,      \* input.ThreadID
    conv,        \* state: the run's copy of the conversation
    calls,       \* toolCalls of the current round
    next,        \* index of the tool call being handled
    stats,       \* modelCalls, modelErrors, toolCallCount, toolErrors
    outcome,     \* how the run returned
    events,      \* what the run has put into its event sink
    \* shared by all runs of the agent
    ckpt,        \* the checkpointer, per thread
    memory,      \* the "last_tool_result" entry of the memory store, per thread
    audit,       \* the HITL audit log
    \* history, read by the properties only
    requested,   \* the tool calls models asked for
    executed,    \* the tool calls whose Call was made
    approved,    \* the tool calls an approver answered "approved" to
    overlapped,  \* the runs that shared their thread with another active run
    unsaved      \* the runs whose latest Save failed

local == <<pc, thread, conv, calls, next, stats, outcome, events>>
shared == <<ckpt, memory, audit>>
history == <<requested, executed, approved, overlapped, unsaved>>
vars == <<local, shared, history>>

Ended == {"done", "crashed"}
Active(r) == pc[r] \notin Ended \cup {"idle"}
CurrentCall(r) ==
    [run |-> r, round |-> conv[r].iteration, index |-> next[r], tool |-> calls[r][next[r]]]
Emit(r, es) == events' = [events EXCEPT ![r] = @ \o es]
Go(r, l) == pc' = [pc EXCEPT ![r] = l]

Init ==
    /\ pc = [r \in Runs |-> "idle"]
    /\ thread = [r \in Runs |-> None]
    /\ conv = [r \in Runs |-> FreshConversation]
    /\ calls = [r \in Runs |-> <<>>]
    /\ next = [r \in Runs |-> 1]
    /\ stats = [r \in Runs |-> [modelCalls |-> 0, modelErrors |-> 0,
                                toolCalls |-> 0, toolErrors |-> 0]]
    /\ outcome = [r \in Runs |-> None]
    /\ events = [r \in Runs |-> <<>>]
    /\ ckpt = [t \in Threads |-> None]
    /\ memory = [t \in Threads |-> None]
    /\ audit = <<>>
    /\ requested = {} /\ executed = {} /\ approved = {}
    /\ overlapped = {} /\ unsaved = {}

-----------------------------------------------------------------------------
(***************************************************************************)
(* Starting a run                                                          *)
(***************************************************************************)
Sharing(r, t) == {s \in Runs \ {r} : Active(s) /\ thread[s] = t}

\* The caller invokes the agent; without Overlap it waits for the thread's
\* previous run first, which nothing in the code makes it do.
Invoked(r, t) ==
    /\ pc[r] = "idle"
    /\ Overlap \/ Sharing(r, t) = {}
    /\ thread' = [thread EXCEPT ![r] = t]

\* Mutant: a failed run ends without its error event.
Fail_Silently(r, es, code) ==
    /\ Emit(r, es)
    /\ outcome' = [outcome EXCEPT ![r] = code]
    /\ Go(r, "done")

Fail(r, es, code) ==
    /\ Emit(r, es \o <<Event("error", None, FALSE, code)>>)
    /\ outcome' = [outcome EXCEPT ![r] = code]
    /\ Go(r, "done")

Load(r, t) ==
    /\ Invoked(r, t)
    /\ ckpt[t] # Torn
    /\ conv' = [conv EXCEPT ![r] = Resume(ckpt[t], r)]
    /\ Go(r, "loop")
    /\ overlapped' = IF Sharing(r, t) = {} THEN overlapped
                     ELSE overlapped \cup Sharing(r, t) \cup {r}
    /\ UNCHANGED <<calls, next, stats, outcome, events, shared,
                   requested, executed, approved, unsaved>>

LoadFails(r, t) ==
    /\ Invoked(r, t)
    /\ ckpt[t] = Torn \/ "load" \in Faults
    /\ Fail(r, <<>>, "checkpoint_load_error")
    /\ UNCHANGED <<conv, calls, next, stats, shared, history>>

-----------------------------------------------------------------------------
(***************************************************************************)
(* The model's turn                                                        *)
(***************************************************************************)
ModelsTurn(r) == pc[r] = "loop" /\ conv[r].iteration < MaxIterations

NextRound(state) == [state EXCEPT !.iteration = @ + 1]

\* Mutant: only the model calls that succeed are counted.
Count_Successes(s, models, modelErrors, tools, toolErrors) ==
    [modelCalls |-> s.modelCalls + models - modelErrors,
     modelErrors |-> s.modelErrors + modelErrors,
     toolCalls |-> s.toolCalls + tools, toolErrors |-> s.toolErrors + toolErrors]

Count(s, models, modelErrors, tools, toolErrors) ==
    [modelCalls |-> s.modelCalls + models, modelErrors |-> s.modelErrors + modelErrors,
     toolCalls |-> s.toolCalls + tools, toolErrors |-> s.toolErrors + toolErrors]

\* Mutant: the conversation is saved when the model fails, too.
ModelFails_Saves(r) ==
    /\ ModelsTurn(r)
    /\ conv' = [conv EXCEPT ![r] = NextRound(@)]
    /\ ckpt' = [ckpt EXCEPT ![thread[r]] = conv[r]]
    /\ stats' = [stats EXCEPT ![r] = Count(@, 1, 1, 0, 0)]
    /\ Fail(r, <<Event("model_call", None, FALSE, None)>>, "llm_invoke_error")
    /\ UNCHANGED <<thread, calls, next, memory, audit, history>>

ModelFails(r) ==
    /\ ModelsTurn(r)
    /\ conv' = [conv EXCEPT ![r] = NextRound(@)]
    /\ stats' = [stats EXCEPT ![r] = Count(@, 1, 1, 0, 0)]
    /\ Fail(r, <<Event("model_call", None, FALSE, None)>>, "llm_invoke_error")
    /\ UNCHANGED <<thread, calls, next, shared, history>>

IsAnswer(resp) == resp.calls = <<>> /\ resp.content

ModelAnswers(r) ==
    /\ ModelsTurn(r)
    /\ \E resp \in Responses : IsAnswer(resp)
    /\ LET state == NextRound(conv[r])
       IN  conv' = [conv EXCEPT ![r] =
                      [Say(state, AssistantMessage(r, state.iteration)) EXCEPT
                         !.final = [run |-> r, round |-> state.iteration]]]
    /\ stats' = [stats EXCEPT ![r] = Count(@, 1, 0, 0, 0)]
    /\ Emit(r, <<Plain("model_call"), Plain("message")>>)
    /\ Go(r, "answer")
    /\ UNCHANGED <<thread, calls, next, outcome, shared, history>>

\* Also an empty answer: no content and no calls starts an empty round.
ModelCallsTools(r) ==
    /\ ModelsTurn(r)
    /\ \E resp \in Responses :
         /\ ~IsAnswer(resp)
         /\ calls' = [calls EXCEPT ![r] = resp.calls]
         /\ next' = [next EXCEPT ![r] = 1]
         /\ LET state == NextRound(conv[r])
            IN  /\ conv' = [conv EXCEPT ![r] =
                              Say(state, AssistantMessage(r, state.iteration))]
                /\ requested' = requested \cup
                     {[run |-> r, round |-> state.iteration, index |-> i,
                       tool |-> resp.calls[i]] : i \in DOMAIN resp.calls}
         /\ Emit(r, <<Plain("model_call")>> \o
                    (IF resp.content THEN <<Plain("message")>> ELSE <<>>))
    /\ stats' = [stats EXCEPT ![r] = Count(@, 1, 0, 0, 0)]
    /\ Go(r, "tools")
    /\ UNCHANGED <<thread, outcome, shared, executed, approved, overlapped, unsaved>>

ExceedIterations(r) ==
    /\ pc[r] = "loop"
    /\ conv[r].iteration >= MaxIterations
    /\ Fail(r, <<>>, "max_iterations_reached")
    /\ UNCHANGED <<thread, conv, calls, next, stats, shared, history>>

-----------------------------------------------------------------------------
(***************************************************************************)
(* The tool calls of a round, one after the other                          *)
(***************************************************************************)
HandlingCall(r) == pc[r] = "tools" /\ next[r] <= Len(calls[r])
Advance(r) == next' = [next EXCEPT ![r] = @ + 1]
Registered(tool) == tool \in Tools

\* Mutant: an approval is remembered for the tool.
ShouldInterrupt_Once(tool) == tool \in Gated /\ \A c \in approved : c.tool # tool
ShouldInterrupt(tool) == tool \in Gated

\* Mutant: an unknown tool does not move the loop on.
SkipUnknown_Waits(r) ==
    /\ HandlingCall(r)
    /\ ~Registered(CurrentCall(r).tool)
    /\ UNCHANGED vars

SkipUnknown(r) ==
    /\ HandlingCall(r)
    /\ ~Registered(CurrentCall(r).tool)
    /\ Advance(r)
    /\ UNCHANGED <<pc, thread, conv, calls, stats, outcome, events, shared, history>>

\* A tool that needs no approval.
StartCall(r) ==
    /\ HandlingCall(r)
    /\ Registered(CurrentCall(r).tool)
    /\ ~ShouldInterrupt(CurrentCall(r).tool)
    /\ Emit(r, <<Event("tool_call", CurrentCall(r), TRUE, None)>>)
    /\ Go(r, "call")
    /\ UNCHANGED <<thread, conv, calls, next, stats, outcome, shared, history>>

\* Mutant: only decisions are logged.
Audit_DecisionsOnly(event, c, ok) ==
    IF event = "hitl_request" THEN UNCHANGED audit
    ELSE audit' = Append(audit, [event |-> event, call |-> c, approved |-> ok])

\* logHITLAudit ignores the error of the sink.
Audit(event, c, ok) ==
    \/ audit' = Append(audit, [event |-> event, call |-> c, approved |-> ok])
    \/ "audit" \in Faults /\ UNCHANGED audit

RequestApproval(r) ==
    /\ HandlingCall(r)
    /\ Registered(CurrentCall(r).tool)
    /\ ShouldInterrupt(CurrentCall(r).tool)
    /\ Emit(r, <<Event("tool_call", CurrentCall(r), TRUE, None),
                 Event("hitl_request", CurrentCall(r), TRUE, None)>>)
    /\ Audit("hitl_request", CurrentCall(r), FALSE)
    /\ Go(r, "approval")
    /\ UNCHANGED <<thread, conv, calls, next, stats, outcome, ckpt, memory, history>>

ApproverRejects(r) ==
    /\ pc[r] = "approval"
    /\ \E reply \in ApproverReplies : reply.err
    /\ conv' = [conv EXCEPT ![r] = Say(@, ToolMessage(CurrentCall(r), "hitl_rejected"))]
    /\ stats' = [stats EXCEPT ![r] = Count(@, 0, 0, 0, 1)]
    /\ Emit(r, <<Event("hitl_decision", CurrentCall(r), FALSE, None)>>)
    /\ Audit("hitl_decision", CurrentCall(r), FALSE)
    /\ Advance(r)
    /\ Go(r, "tools")
    /\ UNCHANGED <<thread, calls, outcome, ckpt, memory, history>>

\* The decision string is logged, not read: the absence of an error approves.
ApproverApproves(r) ==
    /\ pc[r] = "approval"
    /\ \E reply \in ApproverReplies :
         /\ ~reply.err
         /\ approved' = IF reply.decision = "approved"
                        THEN approved \cup {CurrentCall(r)} ELSE approved
    /\ Emit(r, <<Event("hitl_decision", CurrentCall(r), TRUE, None)>>)
    /\ Audit("hitl_decision", CurrentCall(r), TRUE)
    /\ Go(r, "call")
    /\ UNCHANGED <<thread, conv, calls, next, stats, outcome, ckpt, memory,
                   requested, executed, overlapped, unsaved>>

\* The event is emitted before Code, Error and Data are filled in.
CallTool(r) ==
    /\ pc[r] = "call"
    /\ \E o \in ToolOutcomes :
         LET errors == IF o \in {"error", "invalid"} THEN 1 ELSE 0
         IN  /\ executed' = IF o = "invalid" THEN executed
                            ELSE executed \cup {CurrentCall(r)}
             /\ conv' = [conv EXCEPT ![r] = Say(@, ToolMessage(CurrentCall(r), OutcomeCode(o)))]
             /\ stats' = [stats EXCEPT ![r] = Count(@, 0, 0, 1, errors)]
             /\ Emit(r, <<Event("tool_result", CurrentCall(r), errors = 0, None)>>)
    /\ Go(r, "remember")
    /\ UNCHANGED <<thread, calls, next, outcome, shared, requested, approved, overlapped, unsaved>>

Storable(result) == result.code # "serialization_error"

\* memory.Put of the result just recorded; its error is ignored.  The stores
\* marshal too, so they refuse the result that could not be marshalled.
Remember(r) ==
    /\ pc[r] = "remember"
    /\ LET result == Last(conv[r].messages)
       IN  \/ /\ Storable(result)
              /\ memory' = [memory EXCEPT ![thread[r]] = result]
           \/ /\ "memory" \in Faults \/ ~Storable(result)
              /\ UNCHANGED memory
    /\ Advance(r)
    /\ Go(r, "tools")
    /\ UNCHANGED <<thread, conv, calls, stats, outcome, events, ckpt, audit, history>>

-----------------------------------------------------------------------------
(***************************************************************************)
(* Saving.  Save writes the whole conversation; its error is a warning     *)
(* after a round and ignored after the answer.  A write that fails half    *)
(* way leaves a file that no longer parses.                                *)
(***************************************************************************)
\* Mutant: the round is saved before its last call is handled.
Saving_Early(r) == pc[r] = "answer" \/ (pc[r] = "tools" /\ next[r] >= Len(calls[r]))
Saving(r) == pc[r] = "answer" \/ (pc[r] = "tools" /\ next[r] > Len(calls[r]))

\* Mutant: only every other round is saved.
Save_EveryOther(r) ==
    /\ ckpt' = IF pc[r] = "answer" \/ conv[r].iteration % 2 = 0
               THEN [ckpt EXCEPT ![thread[r]] = conv[r]] ELSE ckpt
    /\ unsaved' = unsaved \ {r}

Save(r) ==
    \/ /\ ckpt' = [ckpt EXCEPT ![thread[r]] = conv[r]]
       /\ unsaved' = unsaved \ {r}
    \/ /\ "save" \in Faults
       /\ \/ UNCHANGED ckpt
          \/ "torn" \in Faults /\ ckpt' = [ckpt EXCEPT ![thread[r]] = Torn]
       /\ unsaved' = unsaved \cup {r}

SaveRound(r) ==
    /\ pc[r] = "tools" /\ Saving(r)
    /\ Save(r)
    /\ Go(r, "loop")
    /\ UNCHANGED <<thread, conv, calls, next, stats, outcome, events, memory, audit,
                   requested, executed, approved, overlapped>>

SaveAnswer(r) ==
    /\ pc[r] = "answer"
    /\ Save(r)
    /\ Go(r, "return")
    /\ UNCHANGED <<thread, conv, calls, next, stats, outcome, events, memory, audit,
                   requested, executed, approved, overlapped>>

Return(r) ==
    /\ pc[r] = "return"
    /\ Emit(r, <<Plain("final")>>)
    /\ outcome' = [outcome EXCEPT ![r] = "final"]
    /\ Go(r, "done")
    /\ UNCHANGED <<thread, conv, calls, next, stats, shared, history>>

\* The process dies: every run in flight is gone, and so may be the file of
\* a thread that was being written.
Crash ==
    /\ "crash" \in Faults
    /\ \E r \in Runs : Active(r)
    /\ pc' = [r \in Runs |-> IF Active(r) THEN "crashed" ELSE pc[r]]
    /\ \E lost \in SUBSET {thread[r] : r \in {s \in Runs : Saving(s)}} :
         /\ lost # {} => "torn" \in Faults
         /\ ckpt' = [t \in Threads |-> IF t \in lost THEN Torn ELSE ckpt[t]]
    /\ UNCHANGED <<thread, conv, calls, next, stats, outcome, events, memory, audit, history>>

-----------------------------------------------------------------------------
Begin(r) == \E t \in Threads : Load(r, t) \/ LoadFails(r, t)

Step(r) ==
    \/ ModelFails(r) \/ ModelAnswers(r) \/ ModelCallsTools(r) \/ ExceedIterations(r)
    \/ SkipUnknown(r) \/ StartCall(r) \/ RequestApproval(r)
    \/ ApproverRejects(r) \/ ApproverApproves(r)
    \/ CallTool(r) \/ Remember(r)
    \/ SaveRound(r) \/ SaveAnswer(r) \/ Return(r)

\* Every call of Invoke has returned.
Finished == (\A r \in Runs : pc[r] \in Ended) /\ UNCHANGED vars

Next == (\E r \in Runs : Begin(r) \/ Step(r)) \/ Crash \/ Finished

Spec == Init /\ [][Next]_vars

(***************************************************************************)
(* A run is a goroutine that the scheduler does not starve; the model, the *)
(* approver and the tools answer, which holds when the caller's context or *)
(* the HTTP clients' timeouts bound them.  Nobody has to start a run and   *)
(* nothing has to crash.                                                   *)
(***************************************************************************)
FairSpec == Spec /\ \A r \in Runs : WF_vars(Step(r))

-----------------------------------------------------------------------------
(***************************************************************************)
(* What a run reports                                                      *)
(***************************************************************************)
\* The RunSummaryEvent logged when Run returns; the rate is kept as the pair
\* toolErrors / toolCalls.  iteration is a local that only a model call sets.
Summary(r) ==
    [iterations |-> IF stats[r].modelCalls = 0 THEN 0 ELSE conv[r].iteration,
     modelCalls |-> stats[r].modelCalls, modelErrors |-> stats[r].modelErrors,
     toolCalls |-> stats[r].toolCalls, toolErrors |-> stats[r].toolErrors]

-----------------------------------------------------------------------------
(***************************************************************************)
(* Properties                                                              *)
(***************************************************************************)
Saved(t) == ckpt[t] \notin {None, Torn}
InTranscript(m, state) == \E i \in DOMAIN state.messages : state.messages[i] = m
InCheckpoint(m, t) == Saved(t) /\ InTranscript(m, ckpt[t])

\* Every variable holds values of its kind.
TypeOK ==
    /\ pc \in [Runs -> Ended \cup {"idle", "loop", "tools", "approval", "call",
                                   "remember", "answer", "return"}]
    /\ thread \in [Runs -> Threads \cup {None}]
    /\ \A r \in Runs : pc[r] # "idle" => thread[r] \in Threads
    /\ conv \in [Runs -> Conversations]
    /\ calls \in [Runs -> Seq(ToolNames)]
    /\ next \in [Runs -> Nat \ {0}]
    /\ \A r \in Runs : pc[r] \in {"approval", "call", "remember"} => next[r] \in DOMAIN calls[r]
    /\ stats \in [Runs -> Stats]
    /\ outcome \in [Runs -> RunErrors \cup {"final", None}]
    /\ events \in [Runs -> Seq(Events)]
    /\ ckpt \in [Threads -> Conversations \cup {None, Torn}]
    /\ memory \in [Threads -> Messages \cup {None}]
    /\ audit \in Seq(AuditEntries)
    /\ requested \subseteq CallIds /\ executed \subseteq CallIds /\ approved \subseteq CallIds
    /\ overlapped \subseteq Runs /\ unsaved \subseteq Runs

\* No tool in InterruptConfig runs unless an approver approved that very call
\* (same run, round and position), and no unregistered tool ever runs
\* (graph.go:195-198, 210, 237-273).
GatedCallsApproved ==
    \A c \in executed : c.tool \in Tools /\ (c.tool \in Gated => c \in approved)

\* What the conversation tells the model about a call is what happened: a
\* call reported to have succeeded was made, a call reported as rejected was
\* not, in the copies of the runs and in the checkpoints (graph.go:264-271,
\* 336-353).
Truthful(m) ==
    m.role = "tool" =>
        /\ m.code \in {"ok", "serialization_error"} => m.call \in executed
        /\ m.code = "hitl_rejected" => m.call \notin executed
TruthfulConversation(state) == \A i \in DOMAIN state.messages : Truthful(state.messages[i])
TranscriptTruthful ==
    /\ \A r \in Runs : TruthfulConversation(conv[r])
    /\ \A t \in Threads : Saved(t) => TruthfulConversation(ckpt[t])

\* Every round that reached the checkpointer carries exactly one tool message
\* for each call of a registered tool the model asked for in it, and none for
\* anything else: rounds are saved whole (graph.go:194-362).
ToolMessagesFor(c, state) ==
    {i \in DOMAIN state.messages : state.messages[i].role = "tool" /\ state.messages[i].call = c}
RoundsSavedWhole ==
    \A t \in Threads : Saved(t) =>
        \A c \in requested :
            Cardinality(ToolMessagesFor(c, ckpt[t])) =
               IF c.tool \in Tools /\ InTranscript(AssistantMessage(c.run, c.round), ckpt[t])
               THEN 1 ELSE 0

\* The budget a thread has spent, which is never reset, is the number of
\* assistant messages its checkpoint holds (graph.go:122-124, 161, 183).
AssistantTurns(state) ==
    Cardinality({i \in DOMAIN state.messages : state.messages[i].role = "assistant"})
BudgetMatchesTranscript ==
    \A t \in Threads : Saved(t) =>
        /\ ckpt[t].iteration = AssistantTurns(ckpt[t])
        /\ ckpt[t].iteration <= MaxIterations

\* Saving never forgets: as long as no two runs overlapped on a thread, what
\* was saved there is a prefix of whatever is saved next, across runs, failed
\* saves and crashes, or the file is destroyed by a write that failed half way
\* (graph.go:106-119, 171, 360).
Contended(t) == \E r \in overlapped : thread[r] = t
TranscriptOnlyGrows ==
    [][\A t \in Threads : Saved(t) /\ ~Contended(t) =>
          ckpt'[t] = Torn \/ (Saved(t)' /\ IsPrefix(ckpt[t].messages, ckpt'[t].messages))]_ckpt

\* Once Invoke has returned an answer, the input and the answer stay in the
\* checkpoint of the thread, whatever later runs, failures and crashes do
\* (graph.go:171).  Excepted are runs whose last Save failed, because the code
\* ignores that error, runs the caller overlapped with another, and a file
\* that a later Save left destroyed.
AnsweredRunsDurable ==
    \A r \in Runs :
        outcome[r] = "final" /\ r \notin overlapped \cup unsaved /\ ckpt[thread[r]] # Torn =>
            /\ InCheckpoint(UserMessage(r), thread[r])
            /\ InCheckpoint(AssistantMessage(r, conv[r].iteration), thread[r])

\* A run that ends without its whole work saved (a crash, a model failure, the
\* budget) leaves no trace in the checkpoint of at most one round of executed
\* tool calls; the next run of the thread may do that round again
\* (graph.go:194-362).
Whole(t) == t \in Threads => ckpt[t] # Torn
LostCalls(r) ==
    {c \in executed : /\ c.run = r
                      /\ \A code \in Codes : ~InCheckpoint(ToolMessage(c, code), thread[r])}
AtMostOneRoundLost ==
    \A r \in Runs \ (overlapped \cup unsaved) : Whole(thread[r]) =>
        /\ \A c, d \in LostCalls(r) : c.round = d.round
        /\ pc[r] = "done" => LostCalls(r) = {}

\* A caller that sends an input again after an error can tell from the
\* checkpoint whether it is there already: an input is saved only together with
\* a turn of the model that heard it, and the input of a run that returned, with
\* an answer or an error, is saved exactly if the model took a turn in it.
\* Excepted from the latter are runs whose last Save failed, runs the caller
\* overlapped with another, and destroyed files (graph.go:154, 171, 360).
TurnsOf(r, state) ==
    {i \in DOMAIN state.messages : /\ state.messages[i].role = "assistant"
                                   /\ state.messages[i].run = r}
InputsSavedWithATurn ==
    /\ \A t \in Threads, r \in Runs : Saved(t) =>
          (InTranscript(UserMessage(r), ckpt[t]) <=> TurnsOf(r, ckpt[t]) # {})
    /\ \A r \in Runs \ (overlapped \cup unsaved) :
          pc[r] = "done" /\ ckpt[thread[r]] # Torn =>
             (InCheckpoint(UserMessage(r), thread[r]) <=> TurnsOf(r, conv[r]) # {})

\* With an audit sink that accepts every entry, a gated tool has run only
\* after its request and then its approval were logged, in that order
\* (graph.go:221-230, 286-295).
AuditedBeforeExecution ==
    \A c \in executed : c.tool \in Gated =>
        \E i, j \in DOMAIN audit :
            /\ i < j
            /\ audit[i] = [event |-> "hitl_request", call |-> c, approved |-> FALSE]
            /\ audit[j] = [event |-> "hitl_decision", call |-> c, approved |-> TRUE]

\* A consumer of Stream can follow a run from its events alone: the run's last
\* event, and no other, is final or error, exactly when it returned; every
\* tool_result answers the tool_call right before it (or before its HITL
\* exchange), once, and every other tool_call of a finished run was refused
\* (graph.go:70-103, 145-178, 200-341).
Terminal(e) == e.type \in {"final", "error"}
Opens(es, i, c) ==
    \/ es[i - 1] = Event("tool_call", c, TRUE, None) /\ c.tool \notin Gated
    \/ /\ c.tool \in Gated
       /\ i > 3
       /\ es[i - 1] = Event("hitl_decision", c, TRUE, None)
       /\ es[i - 2] = Event("hitl_request", c, TRUE, None)
       /\ es[i - 3] = Event("tool_call", c, TRUE, None)
EventsFollowable ==
    \A r \in Runs :
        LET es == events[r]
            At(type, c) == {i \in DOMAIN es : es[i].type = type /\ es[i].call = c}
        IN  /\ \A i \in DOMAIN es : Terminal(es[i]) <=> i = Len(es) /\ pc[r] = "done"
            /\ \A i \in DOMAIN es : es[i].type = "tool_result" => i > 1 /\ Opens(es, i, es[i].call)
            /\ \A c \in executed : c.run = r => Cardinality(At("tool_result", c)) = 1
            /\ pc[r] = "done" =>
                 \A i \in DOMAIN es : es[i].type = "tool_call" =>
                    \E j \in DOMAIN es : /\ j > i /\ es[j].call = es[i].call
                                         /\ \/ es[j].type = "tool_result"
                                            \/ es[j].type = "hitl_decision" /\ ~es[j].ok

\* README: a caller branches on ToolResult.code, and a failed tool carries
\* tool_execution_error.  The event is emitted before the code is filled in.
ToolResultEventsCarryCode ==
    \A r \in Runs : \A i \in DOMAIN events[r] :
        LET e == events[r][i]
        IN  e.type = "tool_result" /\ ~e.ok => e.code = "tool_execution_error"

\* The metrics of a run agree with what it put into its transcript: a tool
\* call counted per reported result, an error per message that reports one
\* (graph.go:239, 319-322).
Reports(r, codes) ==
    {i \in DOMAIN conv[r].messages :
        LET m == conv[r].messages[i]
        IN  m.role = "tool" /\ m.call.run = r /\ m.code \in codes}
SummaryMatchesTranscript ==
    \A r \in Runs :
        LET s == Summary(r)
        IN  /\ s.toolCalls = Cardinality(Reports(r, Codes \ {"hitl_rejected"}))
            /\ s.toolErrors = Cardinality(Reports(r, {"hitl_rejected", "tool_execution_error"}))
            /\ s.modelErrors = IF outcome[r] = "llm_invoke_error" THEN 1 ELSE 0
            /\ s.modelCalls - s.modelErrors =
                 Cardinality({i \in DOMAIN conv[r].messages :
                     LET m == conv[r].messages[i] IN m.role = "assistant" /\ m.run = r})

\* Every run that was started returns, or dies with the process
\* (graph.go:122, 365: the bound on the rounds).
StartedRunsReturn == \A r \in Runs : Active(r) ~> pc[r] \in Ended

=============================================================================
