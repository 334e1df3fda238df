--------------------------- MODULE AgentRunProofs ---------------------------
(***************************************************************************)
(* Theorems about AgentRun, for every value of its constants: types, the   *)
(* gate, the audit log, and what the transcripts and checkpoints hold.  A  *)
(* copy is the conversation of a run or a checkpoint that can be read;     *)
(* runs that overlap on a thread have copies that differ.                  *)
(***************************************************************************)
EXTENDS AgentRun, FiniteSetTheorems, TLAPS

-----------------------------------------------------------------------------
(* Operators on conversations and calls                                    *)

\* Appending a message to a conversation gives a conversation.
LEMMA SayType ==
    ASSUME NEW state \in Conversations, NEW m \in Messages
    PROVE  /\ Say(state, m) \in Conversations
           /\ Say(state, m).messages = Append(state.messages, m)
           /\ Say(state, m).iteration = state.iteration
<1>1. Append(state.messages, m) \in Seq(Messages) \ {<<>>}
  BY DEF Conversations
<1> QED  BY <1>1 DEF Say, Conversations

\* What a run starts from is a conversation that extends what was saved.
LEMMA ResumeType ==
    ASSUME NEW saved \in Conversations \cup {None}, NEW r \in Runs
    PROVE  Resume(saved, r) \in Conversations
<1>1. FreshConversation \in Conversations
  BY DEF FreshConversation, Conversations, Messages, SystemMessage
<1>2. UserMessage(r) \in Messages
  BY DEF UserMessage, Messages
<1> QED  BY <1>1, <1>2, SayType DEF Resume

LEMMA NextRoundType ==
    ASSUME NEW state \in Conversations
    PROVE  /\ NextRound(state) \in Conversations
           /\ NextRound(state).messages = state.messages
           /\ NextRound(state).iteration = state.iteration + 1
  BY DEF NextRound, Conversations

\* The call being handled is a call of the run.
LEMMA CurrentCallType ==
    ASSUME TypeOK, NEW r \in Runs, next[r] \in DOMAIN calls[r]
    PROVE  CurrentCall(r) \in CallIds /\ CurrentCall(r).run = r
<1>1. calls[r][next[r]] \in ToolNames
  BY DEF TypeOK
<1>2. conv[r].iteration \in Nat /\ next[r] \in Nat
  BY DEF TypeOK, Conversations
<1> QED  BY <1>1, <1>2 DEF CurrentCall, CallIds

LEMMA HandlingInDomain ==
    ASSUME TypeOK, NEW r \in Runs, HandlingCall(r)
    PROVE  next[r] \in DOMAIN calls[r]
  BY DEF TypeOK, HandlingCall

LEMMA ToolMessageType ==
    ASSUME NEW c \in CallIds, NEW code \in Codes
    PROVE  ToolMessage(c, code) \in Messages
  BY DEF ToolMessage, Messages

LEMMA OutcomeCodeType ==
    ASSUME NEW o
    PROVE  OutcomeCode(o) \in Codes \ {"hitl_rejected"}
  BY DEF OutcomeCode, Codes

LEMMA EmitType ==
    ASSUME TypeOK, NEW r \in Runs, NEW es \in Seq(Events), Emit(r, es)
    PROVE  events' \in [Runs -> Seq(Events)]
  BY DEF TypeOK, Emit

LEMMA SeqOne == ASSUME NEW S, NEW x \in S PROVE <<x>> \in Seq(S)
  OBVIOUS

LEMMA SeqTwo == ASSUME NEW S, NEW x \in S, NEW y \in S PROVE <<x, y>> \in Seq(S)
  OBVIOUS

LEMMA SeqConcat == ASSUME NEW S, NEW s \in Seq(S), NEW t \in Seq(S) PROVE s \o t \in Seq(S)
  OBVIOUS

LEMMA EventType ==
    ASSUME NEW type \in EventTypes, NEW c \in CallIds \cup {None}, NEW ok \in BOOLEAN,
           NEW code \in Codes \cup RunErrors \cup {None}
    PROVE  Event(type, c, ok, code) \in Events
  BY DEF Event, Events

LEMMA PlainType ==
    ASSUME NEW type \in EventTypes
    PROVE  Plain(type) \in Events
  BY EventType DEF Plain

LEMMA CountType ==
    ASSUME NEW s \in Stats, NEW a \in Nat, NEW b \in Nat, NEW c \in Nat, NEW d \in Nat
    PROVE  Count(s, a, b, c, d) \in Stats
  BY DEF Stats, Count

LEMMA AuditType ==
    ASSUME TypeOK, NEW event \in {"hitl_request", "hitl_decision"}, NEW c \in CallIds,
           NEW ok \in BOOLEAN, Audit(event, c, ok)
    PROVE  audit' \in Seq(AuditEntries)
<1> DEFINE entry == [event |-> event, call |-> c, approved |-> ok]
<1>1. entry \in AuditEntries
  BY DEF AuditEntries
<1>2. audit' = Append(audit, entry) \/ audit' = audit
  BY Zenon DEF Audit
<1>3. audit \in Seq(AuditEntries)
  BY DEF TypeOK
<1> HIDE DEF entry
<1> QED  BY <1>1, <1>2, <1>3

\* Ending a run with an error.
LEMMA FailType ==
    ASSUME TypeOK, NEW r \in Runs, NEW es \in Seq(Events), NEW code \in RunErrors,
           Fail(r, es, code)
    PROVE  /\ events' \in [Runs -> Seq(Events)]
           /\ outcome' \in [Runs -> RunErrors \cup {"final", None}]
           /\ pc' = [pc EXCEPT ![r] = "done"]
<1>1. Event("error", None, FALSE, code) \in Events
  BY EventType DEF EventTypes
<1>2. es \o <<Event("error", None, FALSE, code)>> \in Seq(Events)
  BY <1>1, SeqOne, SeqConcat
<1>3. events' \in [Runs -> Seq(Events)]
  BY <1>2, EmitType DEF Fail
<1> QED  BY <1>3 DEF Fail, Go, TypeOK

-----------------------------------------------------------------------------
(* Type correctness                                                        *)

LEMMA TypeInit == ASSUME Init PROVE TypeOK
<1>1. FreshConversation \in Conversations
  BY DEF FreshConversation, Conversations, Messages, SystemMessage
<1> QED  BY <1>1 DEF Init, TypeOK, Ended, Stats

LEMMA TypeLoad == ASSUME TypeOK, NEW r \in Runs, NEW t \in Threads, Load(r, t) PROVE TypeOK'
<1>1. Resume(ckpt[t], r) \in Conversations
  BY ResumeType DEF TypeOK, Load
<1>2. conv' \in [Runs -> Conversations]
  BY <1>1 DEF TypeOK, Load
<1>3. overlapped' \subseteq Runs
  BY DEF TypeOK, Load, Sharing
<1> QED  BY <1>2, <1>3 DEF TypeOK, Load, Invoked, Go, shared, Ended

LEMMA TypeLoadFails == ASSUME TypeOK, NEW r \in Runs, NEW t \in Threads, LoadFails(r, t) PROVE TypeOK'
<1>1. Fail(r, <<>>, "checkpoint_load_error") /\ <<>> \in Seq(Events)
  BY DEF LoadFails
<1>2. "checkpoint_load_error" \in RunErrors
  BY DEF RunErrors
<1>3. /\ events' \in [Runs -> Seq(Events)]
      /\ outcome' \in [Runs -> RunErrors \cup {"final", None}]
      /\ pc' = [pc EXCEPT ![r] = "done"]
  BY <1>1, <1>2, FailType
<1> QED  BY <1>3 DEF TypeOK, LoadFails, Invoked, shared, history, Ended

LEMMA TypeModelFails == ASSUME TypeOK, NEW r \in Runs, ModelFails(r) PROVE TypeOK'
<1>1. Event("model_call", None, FALSE, None) \in Events
  BY EventType DEF EventTypes
<1>2. <<Event("model_call", None, FALSE, None)>> \in Seq(Events)
  BY <1>1, SeqOne
<1>3. Fail(r, <<Event("model_call", None, FALSE, None)>>, "llm_invoke_error")
  BY DEF ModelFails
<1>4. "llm_invoke_error" \in RunErrors
  BY DEF RunErrors
<1>5. /\ events' \in [Runs -> Seq(Events)]
      /\ outcome' \in [Runs -> RunErrors \cup {"final", None}]
      /\ pc' = [pc EXCEPT ![r] = "done"]
  BY <1>2, <1>3, <1>4, FailType
<1>6. conv' \in [Runs -> Conversations]
  BY NextRoundType DEF TypeOK, ModelFails
<1>7. stats' \in [Runs -> Stats]
  BY CountType DEF TypeOK, ModelFails
<1> QED  BY <1>5, <1>6, <1>7 DEF TypeOK, ModelFails, ModelsTurn, shared, history, Ended

LEMMA TypeSkipUnknown == ASSUME TypeOK, NEW r \in Runs, SkipUnknown(r) PROVE TypeOK'
<1>1. next' \in [Runs -> Nat \ {0}]
  BY DEF TypeOK, SkipUnknown, Advance
<1>2. ASSUME NEW s \in Runs, pc[s] \in {"approval", "call", "remember"}
      PROVE  next'[s] \in DOMAIN calls[s]
  BY <1>2 DEF TypeOK, SkipUnknown, HandlingCall, Advance
<1> QED  BY <1>1, <1>2 DEF TypeOK, SkipUnknown, shared, history

LEMMA TypeModelAnswers == ASSUME TypeOK, NEW r \in Runs, ModelAnswers(r) PROVE TypeOK'
<1> DEFINE state == NextRound(conv[r])
           said == Say(state, AssistantMessage(r, state.iteration))
           answered == [said EXCEPT !.final = [run |-> r, round |-> state.iteration]]
<1>1. state \in Conversations /\ state.iteration \in Nat
  BY NextRoundType DEF TypeOK, Conversations
<1>2. AssistantMessage(r, state.iteration) \in Messages
  BY <1>1 DEF AssistantMessage, Messages
<1>3. said \in Conversations
  BY <1>1, <1>2, SayType
<1>4. answered \in Conversations
  BY <1>1, <1>3 DEF Conversations, Finals
<1>5. conv' \in [Runs -> Conversations]
  BY <1>4 DEF TypeOK, ModelAnswers
<1>6. <<Plain("model_call"), Plain("message")>> \in Seq(Events)
  BY PlainType, SeqTwo DEF EventTypes
<1>7. events' \in [Runs -> Seq(Events)]
  BY <1>6, EmitType DEF ModelAnswers
<1>8. stats' \in [Runs -> Stats]
  BY CountType DEF TypeOK, ModelAnswers
<1> QED  BY <1>5, <1>7, <1>8 DEF TypeOK, ModelAnswers, ModelsTurn, Go, shared, history, Ended

LEMMA TypeModelCallsTools == ASSUME TypeOK, NEW r \in Runs, ModelCallsTools(r) PROVE TypeOK'
<1> DEFINE state == NextRound(conv[r])
<1>1. PICK resp \in Responses :
        /\ calls' = [calls EXCEPT ![r] = resp.calls]
        /\ next' = [next EXCEPT ![r] = 1]
        /\ conv' = [conv EXCEPT ![r] = Say(state, AssistantMessage(r, state.iteration))]
        /\ requested' = requested \cup
             {[run |-> r, round |-> state.iteration, index |-> i,
               tool |-> resp.calls[i]] : i \in DOMAIN resp.calls}
        /\ Emit(r, <<Plain("model_call")>> \o
                    (IF resp.content THEN <<Plain("message")>> ELSE <<>>))
  BY Zenon DEF ModelCallsTools
<1>2. state \in Conversations /\ state.iteration \in Nat
  BY NextRoundType DEF TypeOK, Conversations
<1>3. AssistantMessage(r, state.iteration) \in Messages
  BY <1>2 DEF AssistantMessage, Messages
<1>4. conv' \in [Runs -> Conversations]
  BY <1>1, <1>2, <1>3, SayType DEF TypeOK
<1>5. resp.calls \in Seq(ToolNames)
  BY ResponsesAssumption DEF ResponseType
<1>6. requested' \subseteq CallIds
  BY <1>1, <1>2, <1>5 DEF TypeOK, CallIds
<1>7. <<Plain("model_call")>> \in Seq(Events) /\ <<Plain("message")>> \in Seq(Events)
  BY PlainType, SeqOne DEF EventTypes
<1>8. <<Plain("model_call")>> \o (IF resp.content THEN <<Plain("message")>> ELSE <<>>) \in Seq(Events)
  BY <1>7, SeqConcat
<1>9. events' \in [Runs -> Seq(Events)]
  BY <1>1, <1>8, EmitType
<1>10. stats' \in [Runs -> Stats]
  BY CountType DEF TypeOK, ModelCallsTools
<1> QED  BY <1>1, <1>4, <1>5, <1>6, <1>9, <1>10
         DEF TypeOK, ModelCallsTools, ModelsTurn, Go, shared, Ended

LEMMA TypeExceedIterations == ASSUME TypeOK, NEW r \in Runs, ExceedIterations(r) PROVE TypeOK'
<1>1. Fail(r, <<>>, "max_iterations_reached") /\ <<>> \in Seq(Events)
  BY DEF ExceedIterations
<1>2. "max_iterations_reached" \in RunErrors
  BY DEF RunErrors
<1>3. /\ events' \in [Runs -> Seq(Events)]
      /\ outcome' \in [Runs -> RunErrors \cup {"final", None}]
      /\ pc' = [pc EXCEPT ![r] = "done"]
  BY <1>1, <1>2, FailType
<1> QED  BY <1>3 DEF TypeOK, ExceedIterations, shared, history, Ended

LEMMA TypeStartCall == ASSUME TypeOK, NEW r \in Runs, StartCall(r) PROVE TypeOK'
<1>1. next[r] \in DOMAIN calls[r]
  BY HandlingInDomain DEF StartCall
<1>2. Event("tool_call", CurrentCall(r), TRUE, None) \in Events
  BY <1>1, CurrentCallType, EventType DEF EventTypes
<1>3. events' \in [Runs -> Seq(Events)]
  BY <1>2, SeqOne, EmitType DEF StartCall
<1> QED  BY <1>1, <1>3 DEF TypeOK, StartCall, Go, shared, history, HandlingCall

LEMMA TypeRequestApproval == ASSUME TypeOK, NEW r \in Runs, RequestApproval(r) PROVE TypeOK'
<1>1. next[r] \in DOMAIN calls[r]
  BY HandlingInDomain DEF RequestApproval
<1>2. Event("tool_call", CurrentCall(r), TRUE, None) \in Events
  BY <1>1, CurrentCallType, EventType DEF EventTypes
<1>3. Event("hitl_request", CurrentCall(r), TRUE, None) \in Events
  BY <1>1, CurrentCallType, EventType DEF EventTypes
<1>4. events' \in [Runs -> Seq(Events)]
  BY <1>2, <1>3, SeqTwo, EmitType DEF RequestApproval
<1>5. audit' \in Seq(AuditEntries)
  BY <1>1, CurrentCallType, AuditType DEF RequestApproval
<1> QED  BY <1>1, <1>4, <1>5 DEF TypeOK, RequestApproval, Go, history, HandlingCall

LEMMA TypeApproverRejects == ASSUME TypeOK, NEW r \in Runs, ApproverRejects(r) PROVE TypeOK'
<1>1. next[r] \in DOMAIN calls[r]
  BY DEF TypeOK, ApproverRejects
<1>2. Event("hitl_decision", CurrentCall(r), FALSE, None) \in Events
  BY <1>1, CurrentCallType, EventType DEF EventTypes
<1>3. events' \in [Runs -> Seq(Events)]
  BY <1>2, SeqOne, EmitType DEF ApproverRejects
<1>4. audit' \in Seq(AuditEntries)
  BY <1>1, CurrentCallType, AuditType DEF ApproverRejects
<1>5. ToolMessage(CurrentCall(r), "hitl_rejected") \in Messages
  BY <1>1, CurrentCallType, ToolMessageType DEF Codes
<1>6. conv' \in [Runs -> Conversations]
  BY <1>5, SayType DEF TypeOK, ApproverRejects
<1>7. stats' \in [Runs -> Stats]
  BY CountType DEF TypeOK, ApproverRejects
<1>8. next' \in [Runs -> Nat \ {0}]
  BY DEF TypeOK, ApproverRejects, Advance
<1> QED  BY <1>3, <1>4, <1>6, <1>7, <1>8 DEF TypeOK, ApproverRejects, Advance, Go, history

LEMMA TypeApproverApproves == ASSUME TypeOK, NEW r \in Runs, ApproverApproves(r) PROVE TypeOK'
<1>1. next[r] \in DOMAIN calls[r]
  BY DEF TypeOK, ApproverApproves
<1>2. Event("hitl_decision", CurrentCall(r), TRUE, None) \in Events
  BY <1>1, CurrentCallType, EventType DEF EventTypes
<1>3. events' \in [Runs -> Seq(Events)]
  BY <1>2, SeqOne, EmitType DEF ApproverApproves
<1>4. audit' \in Seq(AuditEntries)
  BY <1>1, CurrentCallType, AuditType DEF ApproverApproves
<1>5. approved' \subseteq CallIds
  BY <1>1, CurrentCallType DEF TypeOK, ApproverApproves
<1> QED  BY <1>1, <1>3, <1>4, <1>5 DEF TypeOK, ApproverApproves, Go

LEMMA TypeCallTool == ASSUME TypeOK, NEW r \in Runs, CallTool(r) PROVE TypeOK'
<1> DEFINE errors(o) == IF o \in {"error", "invalid"} THEN 1 ELSE 0
<1>1. PICK o \in ToolOutcomes :
        /\ executed' = IF o = "invalid" THEN executed ELSE executed \cup {CurrentCall(r)}
        /\ conv' = [conv EXCEPT ![r] = Say(@, ToolMessage(CurrentCall(r), OutcomeCode(o)))]
        /\ stats' = [stats EXCEPT ![r] = Count(@, 0, 0, 1, errors(o))]
        /\ Emit(r, <<Event("tool_result", CurrentCall(r), errors(o) = 0, None)>>)
  BY Zenon DEF CallTool
<1>2. next[r] \in DOMAIN calls[r]
  BY DEF TypeOK, CallTool
<1>3. Event("tool_result", CurrentCall(r), errors(o) = 0, None) \in Events
  BY <1>2, CurrentCallType, EventType DEF EventTypes
<1>4. events' \in [Runs -> Seq(Events)]
  BY <1>1, <1>3, SeqOne, EmitType
<1>5. ToolMessage(CurrentCall(r), OutcomeCode(o)) \in Messages
  BY <1>2, CurrentCallType, OutcomeCodeType, ToolMessageType
<1>6. conv' \in [Runs -> Conversations]
  BY <1>1, <1>5, SayType DEF TypeOK
<1>7. stats' \in [Runs -> Stats]
  BY <1>1, CountType DEF TypeOK
<1>8. executed' \subseteq CallIds
  BY <1>1, <1>2, CurrentCallType DEF TypeOK
<1> QED  BY <1>2, <1>4, <1>6, <1>7, <1>8 DEF TypeOK, CallTool, Go, shared

LEMMA TypeRemember == ASSUME TypeOK, NEW r \in Runs, Remember(r) PROVE TypeOK'
<1>1. Last(conv[r].messages) \in Messages
  BY DEF TypeOK, Conversations, Last
<1>2. memory' \in [Threads -> Messages \cup {None}]
  BY <1>1 DEF TypeOK, Remember
<1>3. next' \in [Runs -> Nat \ {0}]
  BY DEF TypeOK, Remember, Advance
<1> QED  BY <1>2, <1>3 DEF TypeOK, Remember, Advance, Go, history

\* Save leaves a conversation, or what was there, or a torn file.
LEMMA SaveType ==
    ASSUME TypeOK, NEW r \in Runs, Save(r)
    PROVE  ckpt' \in [Threads -> Conversations \cup {None, Torn}] /\ unsaved' \subseteq Runs
<1>1. conv[r] \in Conversations /\ ckpt \in [Threads -> Conversations \cup {None, Torn}]
  BY DEF TypeOK
<1>2. \/ ckpt' = ckpt
      \/ \E v \in {conv[r], Torn} : ckpt' = [ckpt EXCEPT ![thread[r]] = v]
  BY DEF Save
<1>3. ckpt' \in [Threads -> Conversations \cup {None, Torn}]
  BY <1>1, <1>2
<1>4. unsaved' \subseteq Runs
  BY DEF TypeOK, Save
<1> QED  BY <1>3, <1>4

LEMMA TypeSaveRound == ASSUME TypeOK, NEW r \in Runs, SaveRound(r) PROVE TypeOK'
  BY SaveType DEF TypeOK, SaveRound, Go

LEMMA TypeSaveAnswer == ASSUME TypeOK, NEW r \in Runs, SaveAnswer(r) PROVE TypeOK'
  BY SaveType DEF TypeOK, SaveAnswer, Go

LEMMA TypeReturn == ASSUME TypeOK, NEW r \in Runs, Return(r) PROVE TypeOK'
<1>1. events' \in [Runs -> Seq(Events)]
  BY PlainType, SeqOne, EmitType DEF EventTypes, Return
<1> QED  BY <1>1 DEF TypeOK, Return, Go, shared, history, Ended

LEMMA TypeCrash == ASSUME TypeOK, Crash PROVE TypeOK'
<1>1. pc' \in [Runs -> Ended \cup {"idle", "loop", "tools", "approval", "call",
                                  "remember", "answer", "return"}]
  BY DEF TypeOK, Crash, Ended
<1>2. \A r \in Runs : pc'[r] = pc[r] \/ (pc[r] # "idle" /\ pc'[r] = "crashed")
  BY DEF TypeOK, Crash, Active
<1>3. ckpt' \in [Threads -> Conversations \cup {None, Torn}]
  BY DEF TypeOK, Crash
<1> QED  BY <1>1, <1>2, <1>3 DEF TypeOK, Crash, history

LEMMA TypeStep == ASSUME TypeOK, [Next]_vars PROVE TypeOK'
<1>1. CASE UNCHANGED vars
  BY <1>1 DEF TypeOK, vars, local, shared, history
<1>2. ASSUME NEW r \in Runs, NEW t \in Threads, Load(r, t) \/ LoadFails(r, t) PROVE TypeOK'
  BY <1>2, TypeLoad, TypeLoadFails
<1>3. ASSUME NEW r \in Runs, Step(r) PROVE TypeOK'
  BY <1>3, TypeModelFails, TypeModelAnswers, TypeModelCallsTools, TypeExceedIterations,
     TypeSkipUnknown, TypeStartCall, TypeRequestApproval, TypeApproverRejects,
     TypeApproverApproves, TypeCallTool, TypeRemember, TypeSaveRound, TypeSaveAnswer,
     TypeReturn DEF Step
<1> QED  BY <1>1, <1>2, <1>3, TypeCrash DEF Next, Begin, Finished

\* Every variable holds values of its kind, in every state of every instance
\* (the whole of Graph.Run).
THEOREM TypeCorrect == Spec => []TypeOK
<1> QED  BY TypeInit, TypeStep, PTL DEF Spec

-----------------------------------------------------------------------------
(* The approval gate.  GatedCallsApproved is not inductive: a run that is   *)
(* about to call a tool must have been let through for that very call.      *)

Cleared(r) ==
    /\ pc[r] \in {"approval", "call"} => CurrentCall(r).tool \in Tools
    /\ pc[r] = "call" /\ CurrentCall(r).tool \in Gated => CurrentCall(r) \in approved

GateInv == GatedCallsApproved /\ \A r \in Runs : Cleared(r)

\* A step that executes nothing, withdraws no approval and lets no run
\* through keeps the gate.
LEMMA GateFrame ==
    ASSUME GateInv,
           executed' = executed, approved' = approved,
           \A s \in Runs : pc'[s] \in {"approval", "call"} =>
               /\ pc'[s] = pc[s] /\ conv'[s] = conv[s]
               /\ next'[s] = next[s] /\ calls'[s] = calls[s]
    PROVE  GateInv'
<1>1. GatedCallsApproved'
  BY DEF GateInv, GatedCallsApproved
<1>2. ASSUME NEW s \in Runs PROVE Cleared(s)'
  <2>1. CASE pc'[s] \in {"approval", "call"}
    <3>1. CurrentCall(s)' = CurrentCall(s)
      BY <2>1 DEF CurrentCall
    <3> QED  BY <2>1, <3>1 DEF GateInv, Cleared
  <2>2. CASE pc'[s] \notin {"approval", "call"}
    BY <2>2 DEF Cleared
  <2> QED  BY <2>1, <2>2
<1> QED  BY <1>1, <1>2 DEF GateInv

\* What a run that handles a call does to its own position only.
LEMMA OwnStep ==
    ASSUME TypeOK, NEW r \in Runs, NEW l, Go(r, l)
    PROVE  pc'[r] = l /\ \A s \in Runs \ {r} : pc'[s] = pc[s]
  BY DEF TypeOK, Go

LEMMA GateStep == ASSUME TypeOK, GateInv, [Next]_vars PROVE GateInv'
<1>1. CASE UNCHANGED vars
  BY <1>1, GateFrame DEF vars, local, shared, history
<1>2. ASSUME NEW r \in Runs, NEW t \in Threads, Load(r, t) PROVE GateInv'
  BY <1>2, GateFrame DEF Load, Invoked, Go, TypeOK
<1>3. ASSUME NEW r \in Runs, NEW t \in Threads, LoadFails(r, t) PROVE GateInv'
  BY <1>3, GateFrame DEF LoadFails, Fail, Invoked, Go, TypeOK, history
<1>4. ASSUME NEW r \in Runs, ModelFails(r) PROVE GateInv'
  BY <1>4, GateFrame DEF ModelFails, Fail, Go, TypeOK, history
<1>5. ASSUME NEW r \in Runs, ModelAnswers(r) PROVE GateInv'
  BY <1>5, GateFrame DEF ModelAnswers, Go, TypeOK, history
<1>6. ASSUME NEW r \in Runs, ModelCallsTools(r) PROVE GateInv'
  BY <1>6, GateFrame DEF ModelCallsTools, Go, TypeOK
<1>7. ASSUME NEW r \in Runs, ExceedIterations(r) PROVE GateInv'
  BY <1>7, GateFrame DEF ExceedIterations, Fail, Go, TypeOK, history
<1>8. ASSUME NEW r \in Runs, SkipUnknown(r) PROVE GateInv'
  BY <1>8, GateFrame DEF SkipUnknown, HandlingCall, Advance, TypeOK, history
<1>9. ASSUME NEW r \in Runs, StartCall(r) PROVE GateInv'
  <2>1. CurrentCall(r)' = CurrentCall(r)
    BY <1>9 DEF StartCall, CurrentCall
  <2>2. CurrentCall(r).tool \in Tools \ Gated
    BY <1>9 DEF StartCall, Registered, ShouldInterrupt
  <2>3. Cleared(r)'
    BY <2>1, <2>2 DEF Cleared
  <2>4. ASSUME NEW s \in Runs \ {r} PROVE Cleared(s)'
    BY <1>9 DEF StartCall, Go, TypeOK, GateInv, Cleared, CurrentCall, history
  <2> QED  BY <1>9, <2>3, <2>4 DEF GateInv, GatedCallsApproved, StartCall, history
<1>10. ASSUME NEW r \in Runs, RequestApproval(r) PROVE GateInv'
  <2>1. CurrentCall(r)' = CurrentCall(r)
    BY <1>10 DEF RequestApproval, CurrentCall
  <2>2. CurrentCall(r).tool \in Tools /\ pc'[r] = "approval"
    BY <1>10, OwnStep DEF RequestApproval, Registered
  <2>3. Cleared(r)'
    BY <2>1, <2>2 DEF Cleared
  <2>4. ASSUME NEW s \in Runs \ {r} PROVE Cleared(s)'
    BY <1>10 DEF RequestApproval, Go, TypeOK, GateInv, Cleared, CurrentCall, history
  <2> QED  BY <1>10, <2>3, <2>4 DEF GateInv, GatedCallsApproved, RequestApproval, history
<1>11. ASSUME NEW r \in Runs, ApproverRejects(r) PROVE GateInv'
  BY <1>11, GateFrame DEF ApproverRejects, Advance, Go, TypeOK, history
<1>12. ASSUME NEW r \in Runs, ApproverApproves(r) PROVE GateInv'
  <2>1. CurrentCall(r)' = CurrentCall(r)
    BY <1>12 DEF ApproverApproves, CurrentCall
  <2>2. approved' = approved \cup {CurrentCall(r)}
    BY <1>12, ApproverAssumption DEF ApproverApproves
  <2>3. CurrentCall(r).tool \in Tools
    BY <1>12 DEF ApproverApproves, GateInv, Cleared
  <2>4. Cleared(r)'
    BY <2>1, <2>2, <2>3 DEF Cleared
  <2>5. ASSUME NEW s \in Runs \ {r} PROVE Cleared(s)'
    BY <1>12, <2>2 DEF ApproverApproves, Go, TypeOK, GateInv, Cleared, CurrentCall
  <2> QED  BY <1>12, <2>2, <2>4, <2>5 DEF GateInv, GatedCallsApproved, ApproverApproves
<1>13. ASSUME NEW r \in Runs, CallTool(r) PROVE GateInv'
  <2>1. executed' \subseteq executed \cup {CurrentCall(r)}
    BY <1>13 DEF CallTool
  <2>2. GatedCallsApproved'
    BY <1>13, <2>1 DEF CallTool, GateInv, GatedCallsApproved, Cleared
  <2>3. ASSUME NEW s \in Runs PROVE Cleared(s)'
    BY <1>13 DEF CallTool, Go, TypeOK, GateInv, Cleared, CurrentCall
  <2> QED  BY <2>2, <2>3 DEF GateInv
<1>14. ASSUME NEW r \in Runs, Remember(r) PROVE GateInv'
  BY <1>14, GateFrame DEF Remember, Advance, Go, TypeOK, history
<1>15. ASSUME NEW r \in Runs, SaveRound(r) \/ SaveAnswer(r) PROVE GateInv'
  BY <1>15, GateFrame DEF SaveRound, SaveAnswer, Go, TypeOK
<1>16. ASSUME NEW r \in Runs, Return(r) PROVE GateInv'
  BY <1>16, GateFrame DEF Return, Go, TypeOK, history
<1>17. CASE Crash
  BY <1>17, GateFrame DEF Crash, TypeOK, history
<1> QED  BY <1>1, <1>2, <1>3, <1>4, <1>5, <1>6, <1>7, <1>8, <1>9, <1>10, <1>11, <1>12,
            <1>13, <1>14, <1>15, <1>16, <1>17 DEF Next, Begin, Step, Finished

LEMMA GateKept == Spec => []GateInv
<1>1. Init => GateInv
  BY DEF Init, GateInv, GatedCallsApproved, Cleared
<1>2. TypeOK /\ GateInv /\ [Next]_vars => GateInv'
  BY GateStep
<1> QED  BY <1>1, <1>2, TypeCorrect, PTL DEF Spec

\* No tool in InterruptConfig runs unless an approver approved that very call,
\* and no unregistered tool ever runs, for any number of runs and threads
\* (graph.go:195-198, 210, 237-273).
THEOREM GateHolds == Spec => []GatedCallsApproved
<1>1. GateInv => GatedCallsApproved
  BY DEF GateInv
<1> QED  BY <1>1, GateKept, PTL

-----------------------------------------------------------------------------
(* The audit log, when its sink accepts every entry.                       *)

LogEntry(event, c, ok) == [event |-> event, call |-> c, approved |-> ok]
Requested(c) == \E i \in DOMAIN audit : audit[i] = LogEntry("hitl_request", c, FALSE)
Audited(c) ==
    \E i, j \in DOMAIN audit : /\ i < j
                               /\ audit[i] = LogEntry("hitl_request", c, FALSE)
                               /\ audit[j] = LogEntry("hitl_decision", c, TRUE)

Logged(r) ==
    /\ pc[r] = "approval" => Requested(CurrentCall(r))
    /\ pc[r] = "call" /\ CurrentCall(r).tool \in Gated => Audited(CurrentCall(r))

AuditInv == (\A c \in executed : c.tool \in Gated => Audited(c)) /\ \A r \in Runs : Logged(r)

\* What is in the log stays, and what is added to it is its last entry.
LEMMA LogGrows ==
    ASSUME TypeOK, NEW e, audit' = Append(audit, e)
    PROVE  /\ \E j \in DOMAIN audit' : audit'[j] = e /\ \A i \in DOMAIN audit : i < j
           /\ \A i \in DOMAIN audit : i \in DOMAIN audit' /\ audit'[i] = audit[i]
           /\ \A c : (Requested(c) => Requested(c)') /\ (Audited(c) => Audited(c)')
<1>1. audit \in Seq(AuditEntries)
  BY DEF TypeOK
<1>2. /\ DOMAIN audit' = 1..Len(audit) + 1 /\ DOMAIN audit = 1..Len(audit) /\ Len(audit) \in Nat
      /\ audit'[Len(audit) + 1] = e
      /\ \A i \in 1..Len(audit) : audit'[i] = audit[i]
  BY <1>1
<1>3. \E j \in DOMAIN audit' : audit'[j] = e /\ \A i \in DOMAIN audit : i < j
  BY <1>2
<1>4. \A i \in DOMAIN audit : i \in DOMAIN audit' /\ audit'[i] = audit[i]
  BY <1>2
<1>5. \A c : Requested(c) => Requested(c)'
  BY <1>4 DEF Requested
<1>6. \A c : Audited(c) => Audited(c)'
  BY <1>4 DEF Audited
<1> QED  BY <1>3, <1>4, <1>5, <1>6

LEMMA LogKept ==
    ASSUME TypeOK, audit' = audit \/ \E e : audit' = Append(audit, e)
    PROVE  \A c : (Requested(c) => Requested(c)') /\ (Audited(c) => Audited(c)')
<1>1. CASE audit' = audit
  BY <1>1 DEF Requested, Audited
<1> QED  BY <1>1, LogGrows

\* A step keeps the invariant if it makes audited calls only and sees to the
\* call of the run that takes it.
LEMMA AuditFrame ==
    ASSUME TypeOK, AuditInv, audit' = audit \/ \E e : audit' = Append(audit, e),
           \A c \in executed' \ executed : c.tool \in Gated => Audited(c),
           \A s \in Runs : \/ Logged(s)'
                           \/ pc'[s] \in {"approval", "call"} =>
                                 /\ pc'[s] = pc[s] /\ conv'[s] = conv[s]
                                 /\ next'[s] = next[s] /\ calls'[s] = calls[s]
    PROVE  AuditInv'
<1>1. \A c : (Requested(c) => Requested(c)') /\ (Audited(c) => Audited(c)')
  BY LogKept
<1>2. \A c \in executed' : c.tool \in Gated => Audited(c)'
  BY <1>1 DEF AuditInv
<1>3. ASSUME NEW s \in Runs PROVE Logged(s)'
  <2>1. CASE pc'[s] \notin {"approval", "call"}
    BY <2>1 DEF Logged
  <2>2. CASE /\ pc'[s] = pc[s] /\ conv'[s] = conv[s]
             /\ next'[s] = next[s] /\ calls'[s] = calls[s]
    <3>1. \A c : c = CurrentCall(s) => CurrentCall(s)' = c
      BY <2>2 DEF CurrentCall
    <3>2. Logged(s)
      BY DEF AuditInv
    <3> QED  BY <1>1, <2>2, <3>1, <3>2 DEF Logged
  <2> QED  BY <2>1, <2>2
<1> QED  BY <1>2, <1>3 DEF AuditInv

LEMMA AuditStep ==
    ASSUME "audit" \notin Faults, TypeOK, AuditInv, [Next]_vars
    PROVE  AuditInv'
<1>1. CASE UNCHANGED vars \/ Crash
  BY <1>1, AuditFrame DEF Crash, TypeOK, vars, local, shared, history
<1>2. ASSUME NEW r \in Runs, NEW t \in Threads, Load(r, t) \/ LoadFails(r, t) PROVE AuditInv'
  BY <1>2, AuditFrame DEF Load, LoadFails, Fail, Invoked, Go, TypeOK, shared, history
<1>3. ASSUME NEW r \in Runs, ModelFails(r) \/ ModelAnswers(r) \/ ModelCallsTools(r) PROVE AuditInv'
  BY <1>3, AuditFrame DEF ModelFails, ModelAnswers, ModelCallsTools, Fail, Go, TypeOK, shared, history
<1>4. ASSUME NEW r \in Runs, ExceedIterations(r) \/ SkipUnknown(r) \/ Remember(r) \/ Return(r)
      PROVE  AuditInv'
  BY <1>4, AuditFrame DEF ExceedIterations, SkipUnknown, Remember, Return, HandlingCall, Advance,
                          Fail, Go, TypeOK, shared, history
<1>5. ASSUME NEW r \in Runs, SaveRound(r) \/ SaveAnswer(r) PROVE AuditInv'
  BY <1>5, AuditFrame DEF SaveRound, SaveAnswer, Go, TypeOK
<1>6. ASSUME NEW r \in Runs, StartCall(r) PROVE AuditInv'
  <2>1. pc'[r] = "call" /\ CurrentCall(r)' = CurrentCall(r) /\ CurrentCall(r).tool \notin Gated
    BY <1>6 DEF StartCall, ShouldInterrupt, Go, TypeOK, CurrentCall
  <2>2. Logged(r)'
    BY <2>1 DEF Logged
  <2> QED  BY <1>6, <2>2, AuditFrame DEF StartCall, Go, TypeOK, shared, history
<1>7. ASSUME NEW r \in Runs, RequestApproval(r) PROVE AuditInv'
  <2>0. PICK c : c = CurrentCall(r)
    OBVIOUS
  <2>1. /\ pc'[r] = "approval" /\ CurrentCall(r)' = c
        /\ audit' = Append(audit, LogEntry("hitl_request", c, FALSE))
    BY <1>7, <2>0 DEF RequestApproval, Audit, LogEntry, Go, TypeOK, CurrentCall
  <2>2. Requested(c)'
    BY <2>1, LogGrows DEF Requested
  <2>3. Logged(r)'
    BY <2>1, <2>2 DEF Logged, Requested
  <2> QED  BY <1>7, <2>1, <2>3, AuditFrame DEF RequestApproval, Go, TypeOK, history
<1>8. ASSUME NEW r \in Runs, ApproverRejects(r) PROVE AuditInv'
  <2>1. \E e : audit' = Append(audit, e)
    BY <1>8 DEF ApproverRejects, Audit
  <2>2. pc'[r] = "tools" /\ executed' = executed
    BY <1>8 DEF ApproverRejects, Go, TypeOK, history
  <2>3. ASSUME NEW s \in Runs \ {r}
        PROVE  /\ pc'[s] = pc[s] /\ conv'[s] = conv[s]
               /\ next'[s] = next[s] /\ calls'[s] = calls[s]
    BY <1>8 DEF ApproverRejects, Advance, Go, TypeOK
  <2> QED  BY <2>1, <2>2, <2>3, AuditFrame
<1>9. ASSUME NEW r \in Runs, ApproverApproves(r) PROVE AuditInv'
  <2>0. PICK c : c = CurrentCall(r)
    OBVIOUS
  <2>1. /\ pc[r] = "approval" /\ pc'[r] = "call" /\ CurrentCall(r)' = c
        /\ audit' = Append(audit, LogEntry("hitl_decision", c, TRUE))
    BY <1>9, <2>0 DEF ApproverApproves, Audit, LogEntry, Go, TypeOK, CurrentCall
  <2>2. Requested(c)
    BY <2>0, <2>1 DEF AuditInv, Logged
  <2>3. Audited(c)'
    <3>1. PICK i \in DOMAIN audit : audit[i] = LogEntry("hitl_request", c, FALSE)
      BY <2>2 DEF Requested
    <3>2. PICK j \in DOMAIN audit' : /\ audit'[j] = LogEntry("hitl_decision", c, TRUE)
                                     /\ \A k \in DOMAIN audit : k < j
      BY <2>1, LogGrows
    <3>3. i \in DOMAIN audit' /\ audit'[i] = audit[i]
      BY <2>1, LogGrows
    <3> QED  BY <3>1, <3>2, <3>3 DEF Audited
  <2>4. Logged(r)'
    BY <2>1, <2>3 DEF Logged, Audited
  <2> QED  BY <1>9, <2>1, <2>4, AuditFrame DEF ApproverApproves, Go, TypeOK
<1>10. ASSUME NEW r \in Runs, CallTool(r) PROVE AuditInv'
  <2>1. executed' \subseteq executed \cup {CurrentCall(r)} /\ pc[r] = "call"
    BY <1>10 DEF CallTool
  <2>2. CurrentCall(r).tool \in Gated => Audited(CurrentCall(r))
    BY <2>1 DEF AuditInv, Logged
  <2> QED  BY <1>10, <2>1, <2>2, AuditFrame DEF CallTool, Go, TypeOK, shared
<1> QED
  BY <1>1, <1>2, <1>3, <1>4, <1>5, <1>6, <1>7, <1>8, <1>9, <1>10 DEF Next, Begin, Step, Finished

\* If the sink of the audit log accepts every entry, a gated tool is called
\* only after its request and then its approval were logged, for any number of
\* runs that log at once and whatever else fails (graph.go:221-230, 286-295).
\* Where it refuses one, the code goes on: logHITLAudit drops the error.
THEOREM AuditedFirst ==
    ASSUME "audit" \notin Faults
    PROVE  Spec => []AuditedBeforeExecution
<1>1. Init => AuditInv
  BY DEF Init, AuditInv, Logged
<1>2. TypeOK /\ AuditInv /\ [Next]_vars => AuditInv'
  BY AuditStep
<1>3. AuditInv => AuditedBeforeExecution
  BY DEF AuditInv, Audited, LogEntry, AuditedBeforeExecution
<1> QED  BY <1>1, <1>2, <1>3, TypeCorrect, PTL DEF Spec

-----------------------------------------------------------------------------
(* Saving never forgets.  The induction needs that a thread has one active  *)
(* run, and that what is saved is a prefix of what that run holds.          *)

LEMMA PrefixRefl == ASSUME NEW S, NEW s \in Seq(S) PROVE IsPrefix(s, s)
  BY DEF IsPrefix

LEMMA PrefixAppend ==
    ASSUME NEW S, NEW s \in Seq(S), NEW e \in S PROVE IsPrefix(s, Append(s, e))
  BY DEF IsPrefix

LEMMA PrefixTrans ==
    ASSUME NEW S, NEW s \in Seq(S), NEW t \in Seq(S), NEW u \in Seq(S),
           IsPrefix(s, t), IsPrefix(t, u)
    PROVE  IsPrefix(s, u)
<1>1. Len(s) <= Len(t) /\ Len(t) <= Len(u) /\ Len(s) \in Nat /\ Len(t) \in Nat /\ Len(u) \in Nat
  BY DEF IsPrefix
<1>2. \A i \in 1..Len(s) : SubSeq(s, 1, Len(s))[i] = SubSeq(u, 1, Len(s))[i]
  BY <1>1 DEF IsPrefix
<1> QED  BY <1>1, <1>2 DEF IsPrefix

\* A message said in a conversation is said at its end.
LEMMA SayExtends ==
    ASSUME NEW state \in Conversations, NEW m \in Messages
    PROVE  IsPrefix(state.messages, Say(state, m).messages)
<1>1. state.messages \in Seq(Messages)
  BY DEF Conversations
<1>2. Say(state, m).messages = Append(state.messages, m)
  BY SayType
<1>3. IsPrefix(state.messages, Append(state.messages, m))
  BY <1>1, PrefixAppend
<1> QED  BY <1>2, <1>3

\* Two active runs of a thread are known to have overlapped; a run that was not
\* started is not; an active run of a thread without overlaps goes on from what
\* is saved there.
SharersOverlap ==
    \A r, s \in Runs :
        r # s /\ Active(r) /\ Active(s) /\ thread[r] = thread[s] => r \in overlapped
IdleIsFresh == \A r \in Runs : pc[r] = "idle" => r \notin overlapped
SavedIsPrefix ==
    \A r \in Runs : Active(r) /\ Saved(thread[r]) /\ ~Contended(thread[r]) =>
        IsPrefix(ckpt[thread[r]].messages, conv[r].messages)
GrowthInv == SharersOverlap /\ IdleIsFresh /\ SavedIsPrefix

\* A step that saves nothing, starts no run and only adds to conversations
\* keeps the invariant.
LEMMA GrowthFrame ==
    ASSUME TypeOK, TypeOK', GrowthInv, ckpt' = ckpt, thread' = thread, overlapped' = overlapped,
           \A s \in Runs : pc'[s] = "idle" => pc[s] = "idle",
           \A s \in Runs : Active(s)' =>
               Active(s) /\ IsPrefix(conv[s].messages, conv'[s].messages)
    PROVE  GrowthInv'
<1>1. SharersOverlap'
  BY DEF GrowthInv, SharersOverlap
<1>2. IdleIsFresh'
  BY DEF GrowthInv, IdleIsFresh
<1>3. ASSUME NEW r \in Runs, Active(r)', Saved(thread[r]), ~Contended(thread[r])
      PROVE  IsPrefix(ckpt[thread[r]].messages, conv'[r].messages)
  <2>1. Active(r) /\ IsPrefix(conv[r].messages, conv'[r].messages)
    BY <1>3
  <2>2. thread[r] \in Threads
    BY <2>1 DEF TypeOK, Active
  <2>3. IsPrefix(ckpt[thread[r]].messages, conv[r].messages)
    BY <1>3, <2>1 DEF GrowthInv, SavedIsPrefix
  <2>4. ckpt[thread[r]].messages \in Seq(Messages)
    BY <1>3, <2>2 DEF TypeOK, Saved, Conversations
  <2>5. conv[r].messages \in Seq(Messages) /\ conv'[r].messages \in Seq(Messages)
    BY DEF TypeOK, Conversations
  <2> QED  BY <2>1, <2>3, <2>4, <2>5, PrefixTrans
<1>4. SavedIsPrefix'
  BY <1>3 DEF SavedIsPrefix, Saved, Contended
<1> QED  BY <1>1, <1>2, <1>4 DEF GrowthInv

\* Every conversation is a prefix of itself.
LEMMA ConvPrefix == ASSUME TypeOK, NEW s \in Runs PROVE IsPrefix(conv[s].messages, conv[s].messages)
<1>1. conv[s].messages \in Seq(Messages)
  BY DEF TypeOK, Conversations
<1> QED  BY <1>1, PrefixRefl

\* Starting a run contends its thread only if another one is active there.
LEMMA GrowthLoad ==
    ASSUME TypeOK, TypeOK', GrowthInv, NEW r \in Runs, NEW t \in Threads, Load(r, t)
    PROVE  GrowthInv'
<1>1. /\ pc' = [pc EXCEPT ![r] = "loop"] /\ thread' = [thread EXCEPT ![r] = t]
      /\ ckpt' = ckpt /\ conv' = [conv EXCEPT ![r] = Resume(ckpt[t], r)] /\ pc[r] = "idle"
  BY DEF Load, Invoked, Go, shared
<1>2. overlapped' = IF Sharing(r, t) = {} THEN overlapped
                    ELSE overlapped \cup Sharing(r, t) \cup {r}
  BY DEF Load
<1>3. \A s \in Runs \ {r} : (Active(s)' <=> Active(s)) /\ thread'[s] = thread[s] /\ conv'[s] = conv[s]
  BY <1>1 DEF TypeOK, Active
<1>4. thread'[r] = t /\ pc'[r] = "loop"
  BY <1>1 DEF TypeOK
<1>5. overlapped \subseteq overlapped'
  BY <1>2
<1>6. SharersOverlap'
  <2>1. ASSUME NEW s \in Runs \ {r}, Active(s), thread[s] = t PROVE s \in overlapped' /\ r \in overlapped'
    BY <1>2, <2>1 DEF Sharing
  <2> QED  BY <1>3, <1>4, <1>5, <2>1 DEF GrowthInv, SharersOverlap
<1>7. IdleIsFresh'
  <2>1. ASSUME NEW s \in Runs, pc'[s] = "idle" PROVE s # r /\ s \notin overlapped /\ s \notin Sharing(r, t)
    BY <1>1, <1>4, <2>1 DEF TypeOK, GrowthInv, IdleIsFresh, Sharing, Active
  <2> QED  BY <1>2, <2>1 DEF IdleIsFresh
<1>8. ASSUME Saved(t) PROVE IsPrefix(ckpt[t].messages, conv'[r].messages)
  <2>1. ckpt[t] \in Conversations
    BY <1>8 DEF TypeOK, Saved
  <2>2. conv'[r] = Say(ckpt[t], UserMessage(r))
    BY <1>1, <1>8 DEF TypeOK, Saved, Resume
  <2>3. UserMessage(r) \in Messages
    BY DEF UserMessage, Messages
  <2> QED  BY <2>1, <2>2, <2>3, SayExtends
<1>9. \A u : ~Contended(u)' => ~Contended(u)
  <2>1. r \notin overlapped /\ overlapped \subseteq Runs
    BY <1>1 DEF TypeOK, GrowthInv, IdleIsFresh
  <2> QED  BY <1>3, <1>5, <2>1 DEF Contended
<1>10. SavedIsPrefix'
  <2>1. ASSUME NEW s \in Runs, Active(s)', Saved(thread[s])', ~Contended(thread[s])'
        PROVE  IsPrefix(ckpt[thread'[s]].messages, conv'[s].messages)
    <3>1. CASE s = r
      BY <1>1, <1>4, <1>8, <2>1, <3>1 DEF Saved
    <3>2. CASE s # r
      BY <1>1, <1>3, <1>9, <2>1, <3>2 DEF GrowthInv, SavedIsPrefix, Saved, Contended
    <3> QED  BY <3>1, <3>2
  <2> QED  BY <1>1, <2>1 DEF SavedIsPrefix
<1> QED  BY <1>6, <1>7, <1>10 DEF GrowthInv

\* A save replaces the checkpoint of the thread by the run's conversation,
\* leaves it, or destroys it.
LEMMA SaveOutcomes ==
    ASSUME NEW r \in Runs, Save(r)
    PROVE  \/ ckpt' = ckpt
           \/ \E v \in {conv[r], Torn} : ckpt' = [ckpt EXCEPT ![thread[r]] = v]
  BY DEF Save

LEMMA GrowthSave ==
    ASSUME TypeOK, TypeOK', GrowthInv, NEW r \in Runs, SaveRound(r) \/ SaveAnswer(r)
    PROVE  GrowthInv'
<1>1. \/ ckpt' = ckpt
      \/ \E v \in {conv[r], Torn} : ckpt' = [ckpt EXCEPT ![thread[r]] = v]
  BY SaveOutcomes DEF SaveRound, SaveAnswer
<1>2. thread' = thread /\ conv' = conv /\ overlapped' = overlapped /\ Active(r)
  BY DEF SaveRound, SaveAnswer, Active, Ended
<1>3. \A s \in Runs : (Active(s)' => Active(s)) /\ (pc'[s] = "idle" => pc[s] = "idle")
  BY DEF SaveRound, SaveAnswer, Go, TypeOK, Active, Ended
<1>4. CASE ckpt' = ckpt
  BY <1>2, <1>3, <1>4, GrowthFrame, ConvPrefix
<1>5. ASSUME NEW v \in {conv[r], Torn}, ckpt' = [ckpt EXCEPT ![thread[r]] = v]
      PROVE  GrowthInv'
  <2>1. SharersOverlap'
    BY <1>2, <1>3 DEF GrowthInv, SharersOverlap
  <2>2. IdleIsFresh'
    BY <1>2, <1>3 DEF GrowthInv, IdleIsFresh
  <2>3. ASSUME NEW s \in Runs, Active(s)', Saved(thread[s])', ~Contended(thread[s])
        PROVE  IsPrefix(ckpt'[thread[s]].messages, conv[s].messages)
    <3>1. CASE s = r
      <4>1. ckpt'[thread[s]] = v /\ v # Torn
        BY <1>2, <1>5, <2>3, <3>1 DEF TypeOK, Active, Saved
      <4> QED  BY <3>1, <4>1, ConvPrefix
    <3>2. CASE s # r
      <4>1. Active(s) /\ thread[s] # thread[r]
        BY <1>2, <1>3, <2>3, <3>2 DEF GrowthInv, SharersOverlap, Contended
      <4>2. ckpt'[thread[s]] = ckpt[thread[s]]
        BY <1>5, <4>1 DEF TypeOK, Active
      <4> QED  BY <1>2, <2>3, <4>1, <4>2 DEF GrowthInv, SavedIsPrefix, Saved
    <3> QED  BY <3>1, <3>2
  <2>4. SavedIsPrefix'
    BY <1>2, <2>3 DEF SavedIsPrefix, Saved, Contended
  <2> QED  BY <2>1, <2>2, <2>4 DEF GrowthInv
<1> QED  BY <1>1, <1>4, <1>5

\* The steps of a run that change its conversation add one message to it.
LEMMA GrowthSpeak ==
    ASSUME TypeOK, TypeOK', GrowthInv, NEW r \in Runs,
           ModelAnswers(r) \/ ModelCallsTools(r) \/ ApproverRejects(r) \/ CallTool(r)
    PROVE  GrowthInv'
<1>1. PICK m : /\ conv'[r].messages = Append(conv[r].messages, m)
               /\ m \in Messages
  <2> DEFINE state == NextRound(conv[r])
  <2>1. conv[r] \in Conversations
    BY DEF TypeOK
  <2>2. /\ state \in Conversations /\ state.messages = conv[r].messages
        /\ state.iteration \in Nat
    BY <2>1, NextRoundType DEF Conversations
  <2>3. AssistantMessage(r, state.iteration) \in Messages
    BY <2>2 DEF AssistantMessage, Messages
  <2>4. Say(state, AssistantMessage(r, state.iteration)).messages
          = Append(conv[r].messages, AssistantMessage(r, state.iteration))
    BY <2>2, <2>3, SayType
  <2>5. CASE ModelAnswers(r)
    <3>1. conv'[r] = [Say(state, AssistantMessage(r, state.iteration)) EXCEPT
                         !.final = [run |-> r, round |-> state.iteration]]
      BY <2>5 DEF ModelAnswers, TypeOK
    <3>2. Say(state, AssistantMessage(r, state.iteration)) \in Conversations
      BY <2>2, <2>3, SayType
    <3>3. conv'[r].messages = Say(state, AssistantMessage(r, state.iteration)).messages
      BY <3>1, <3>2 DEF Conversations
    <3> QED  BY <2>3, <2>4, <3>3
  <2>6. CASE ModelCallsTools(r)
    <3>1. conv'[r] = Say(state, AssistantMessage(r, state.iteration))
      BY <2>6 DEF ModelCallsTools, TypeOK
    <3> QED  BY <2>3, <2>4, <3>1
  <2>7. CASE ApproverRejects(r)
    <3>1. ToolMessage(CurrentCall(r), "hitl_rejected") \in Messages
      BY <2>7, CurrentCallType, ToolMessageType DEF Codes, TypeOK, ApproverRejects
    <3>2. conv'[r] = Say(conv[r], ToolMessage(CurrentCall(r), "hitl_rejected"))
      BY <2>7 DEF ApproverRejects, TypeOK
    <3> QED  BY <2>1, <3>1, <3>2, SayType
  <2>8. CASE CallTool(r)
    <3>1. PICK o \in ToolOutcomes :
            conv'[r] = Say(conv[r], ToolMessage(CurrentCall(r), OutcomeCode(o)))
      BY <2>8 DEF CallTool, TypeOK
    <3>2. CurrentCall(r) \in CallIds
      BY <2>8, CurrentCallType DEF TypeOK, CallTool
    <3>3. ToolMessage(CurrentCall(r), OutcomeCode(o)) \in Messages
      BY <3>2, OutcomeCodeType, ToolMessageType
    <3> QED  BY <2>1, <3>1, <3>3, SayType
  <2> QED  BY <2>5, <2>6, <2>7, <2>8
<1>2. IsPrefix(conv[r].messages, conv'[r].messages)
  BY <1>1, PrefixAppend DEF TypeOK, Conversations
<1>3. ckpt' = ckpt /\ thread' = thread /\ overlapped' = overlapped
  BY DEF ModelAnswers, ModelCallsTools, ApproverRejects, CallTool, shared, history
<1>4. \A s \in Runs \ {r} : conv'[s] = conv[s]
  BY DEF ModelAnswers, ModelCallsTools, ApproverRejects, CallTool, TypeOK
<1>5. \A s \in Runs : (Active(s)' => Active(s)) /\ (pc'[s] = "idle" => pc[s] = "idle")
  BY DEF ModelAnswers, ModelCallsTools, ModelsTurn, ApproverRejects, CallTool, Go, TypeOK,
         Active, Ended
<1> QED  BY <1>2, <1>3, <1>4, <1>5, GrowthFrame, ConvPrefix

LEMMA GrowthLoadFails ==
    ASSUME TypeOK, TypeOK', GrowthInv, NEW r \in Runs, NEW t \in Threads, LoadFails(r, t)
    PROVE  GrowthInv'
<1>1. ckpt' = ckpt /\ conv' = conv /\ overlapped' = overlapped /\ ~Active(r)'
  BY DEF LoadFails, Fail, Go, TypeOK, Active, Ended, shared, history
<1>2. /\ pc[r] = "idle" /\ pc'[r] # "idle"
      /\ \A s \in Runs \ {r} : thread'[s] = thread[s] /\ pc'[s] = pc[s] /\ (Active(s)' <=> Active(s))
  BY DEF LoadFails, Invoked, Fail, Go, TypeOK, Active
<1>3. SharersOverlap'
  BY <1>1, <1>2 DEF GrowthInv, SharersOverlap
<1>4. IdleIsFresh'
  BY <1>1, <1>2 DEF GrowthInv, IdleIsFresh
<1>5. \A u : ~Contended(u)' => ~Contended(u)
  <2>1. r \notin overlapped /\ overlapped \subseteq Runs
    BY <1>2 DEF TypeOK, GrowthInv, IdleIsFresh
  <2> QED  BY <1>1, <1>2, <2>1 DEF Contended
<1>6. SavedIsPrefix'
  BY <1>1, <1>2, <1>5 DEF GrowthInv, SavedIsPrefix, Saved, Contended
<1> QED  BY <1>3, <1>4, <1>6 DEF GrowthInv

\* The steps of a run that neither speak nor save.
LEMMA GrowthSilent ==
    ASSUME TypeOK, TypeOK', GrowthInv, NEW r \in Runs,
           \/ ModelFails(r) \/ ExceedIterations(r) \/ SkipUnknown(r) \/ StartCall(r)
           \/ RequestApproval(r) \/ ApproverApproves(r) \/ Remember(r) \/ Return(r)
    PROVE  GrowthInv'
<1>1. ckpt' = ckpt /\ thread' = thread /\ overlapped' = overlapped
  BY DEF ModelFails, ExceedIterations, SkipUnknown, StartCall, RequestApproval,
         ApproverApproves, Remember, Return, shared, history
<1>2. \A s \in Runs : conv'[s].messages = conv[s].messages
  <2>1. CASE ModelFails(r)
    BY <2>1, NextRoundType DEF ModelFails, TypeOK
  <2>2. CASE ~ModelFails(r)
    BY <2>2 DEF ExceedIterations, SkipUnknown, StartCall, RequestApproval,
         ApproverApproves, Remember, Return
  <2> QED  BY <2>1, <2>2
<1>3. \A s \in Runs : (Active(s)' => Active(s)) /\ (pc'[s] = "idle" => pc[s] = "idle")
  BY DEF ModelFails, ModelsTurn, ExceedIterations, SkipUnknown, HandlingCall, StartCall,
         RequestApproval, ApproverApproves, Remember, Return, Fail, Go, TypeOK, Active, Ended
<1> QED  BY <1>1, <1>2, <1>3, GrowthFrame, ConvPrefix

\* After a crash no run is active.
LEMMA GrowthCrash ==
    ASSUME TypeOK, TypeOK', GrowthInv, Crash
    PROVE  GrowthInv'
<1>1. \A s \in Runs : ~Active(s)' /\ (pc'[s] = "idle" => pc[s] = "idle")
  BY DEF Crash, Active, Ended
<1>2. overlapped' = overlapped
  BY DEF Crash, history
<1> QED  BY <1>1, <1>2 DEF GrowthInv, SharersOverlap, IdleIsFresh, SavedIsPrefix

LEMMA GrowthStep ==
    ASSUME TypeOK, TypeOK', GrowthInv, [Next]_vars
    PROVE  GrowthInv'
<1>1. CASE UNCHANGED vars
  BY <1>1, GrowthFrame, ConvPrefix DEF vars, local, shared, history, Active
<1>2. CASE Crash
  BY <1>2, GrowthCrash
<1>3. ASSUME NEW r \in Runs, NEW t \in Threads, Load(r, t) \/ LoadFails(r, t) PROVE GrowthInv'
  BY <1>3, GrowthLoad, GrowthLoadFails
<1>4. ASSUME NEW r \in Runs, Step(r) PROVE GrowthInv'
  BY <1>4, GrowthSilent, GrowthSpeak, GrowthSave DEF Step
<1> QED  BY <1>1, <1>2, <1>3, <1>4 DEF Next, Begin, Finished

\* A checkpoint that stays as it is extends itself.
LEMMA KeptExtends ==
    ASSUME TypeOK, NEW t \in Threads, Saved(t), ckpt'[t] = ckpt[t]
    PROVE  Saved(t)' /\ IsPrefix(ckpt[t].messages, ckpt'[t].messages)
<1>1. ckpt[t].messages \in Seq(Messages)
  BY DEF TypeOK, Saved, Conversations
<1> QED  BY <1>1, PrefixRefl DEF Saved

\* Under the invariant, the only steps that change the checkpoint of a thread
\* without overlaps extend it or destroy it.
LEMMA SavesExtend ==
    ASSUME TypeOK, TypeOK', GrowthInv, [Next]_vars
    PROVE  [\A t \in Threads : Saved(t) /\ ~Contended(t) =>
              ckpt'[t] = Torn \/ (Saved(t)' /\ IsPrefix(ckpt[t].messages, ckpt'[t].messages))]_ckpt
<1>1. ASSUME NEW r \in Runs, SaveRound(r) \/ SaveAnswer(r), ckpt' # ckpt,
             NEW t \in Threads, Saved(t), ~Contended(t)
      PROVE  ckpt'[t] = Torn \/ (Saved(t)' /\ IsPrefix(ckpt[t].messages, ckpt'[t].messages))
  <2>1. PICK v \in {conv[r], Torn} : ckpt' = [ckpt EXCEPT ![thread[r]] = v]
    BY <1>1, SaveOutcomes DEF SaveRound, SaveAnswer
  <2>2. Active(r)
    BY <1>1 DEF SaveRound, SaveAnswer, Active, Ended
  <2>3. CASE t = thread[r] /\ v # Torn
    <3>1. ckpt'[t] = conv[r] /\ conv[r] \in Conversations
      BY <2>1, <2>3 DEF TypeOK
    <3>2. Saved(t)'
      BY <3>1, MarkersAssumption DEF Saved
    <3> QED  BY <1>1, <2>2, <2>3, <3>1, <3>2 DEF GrowthInv, SavedIsPrefix
  <2>4. CASE t = thread[r] /\ v = Torn
    BY <2>1, <2>4 DEF TypeOK
  <2>5. CASE t # thread[r]
    <3>1. ckpt'[t] = ckpt[t]
      BY <2>1, <2>5 DEF TypeOK
    <3> QED  BY <1>1, <3>1, KeptExtends
  <2> QED  BY <2>3, <2>4, <2>5
<1>2. CASE UNCHANGED vars
  BY <1>2 DEF vars, shared
<1>3. ASSUME Crash, NEW t \in Threads, Saved(t)
      PROVE  ckpt'[t] = Torn \/ (Saved(t)' /\ IsPrefix(ckpt[t].messages, ckpt'[t].messages))
  <2>1. ckpt'[t] = Torn \/ ckpt'[t] = ckpt[t]
    BY <1>3 DEF Crash
  <2> QED  BY <1>3, <2>1, KeptExtends
<1>4. ASSUME NEW r \in Runs, NEW t \in Threads, Load(r, t) \/ LoadFails(r, t) PROVE ckpt' = ckpt
  BY <1>4 DEF Load, LoadFails, shared
<1>5. ASSUME NEW r \in Runs, Step(r), ~SaveRound(r), ~SaveAnswer(r) PROVE ckpt' = ckpt
  BY <1>5 DEF Step, ModelFails, ModelAnswers, ModelCallsTools, ExceedIterations, SkipUnknown,
              StartCall, RequestApproval, ApproverRejects, ApproverApproves, CallTool,
              Remember, Return, shared
<1> QED  BY <1>1, <1>2, <1>3, <1>4, <1>5 DEF Next, Begin, Finished

LEMMA GrowthKept == Spec => []GrowthInv
<1>1. Init => GrowthInv
  BY DEF Init, GrowthInv, SharersOverlap, IdleIsFresh, SavedIsPrefix, Active
<1>2. TypeOK /\ TypeOK' /\ GrowthInv /\ [Next]_vars => GrowthInv'
  BY GrowthStep
<1> QED  BY <1>1, <1>2, TypeCorrect, PTL DEF Spec

\* Whatever was saved on a thread whose runs never overlapped is a prefix of
\* everything saved on it later, through any number of runs, failures, lost
\* saves and crashes, until a write that fails half way destroys the file
\* (graph.go:106-119, 171, 360).
THEOREM TranscriptsGrow == Spec => TranscriptOnlyGrows
<1>1. TypeOK /\ TypeOK' /\ GrowthInv /\ [Next]_vars =>
        [\A t \in Threads : Saved(t) /\ ~Contended(t) =>
           ckpt'[t] = Torn \/ (Saved(t)' /\ IsPrefix(ckpt[t].messages, ckpt'[t].messages))]_ckpt
  BY SavesExtend
<1> QED  BY <1>1, GrowthKept, TypeCorrect, PTL DEF Spec, TranscriptOnlyGrows

-----------------------------------------------------------------------------
(* Messages and copies                                                     *)

\* No message can be taken for another.
LEMMA MessageKinds ==
    ASSUME NEW r, NEW s, NEW k, NEW l, NEW c, NEW d, NEW x, NEW y
    PROVE  /\ UserMessage(r) # SystemMessage /\ AssistantMessage(r, k) # SystemMessage
           /\ ToolMessage(c, x) # SystemMessage /\ UserMessage(r) # AssistantMessage(s, k)
           /\ UserMessage(r) # ToolMessage(c, x) /\ AssistantMessage(r, k) # ToolMessage(c, x)
           /\ UserMessage(r) = UserMessage(s) <=> r = s
           /\ AssistantMessage(r, k) = AssistantMessage(s, l) <=> r = s /\ k = l
           /\ ToolMessage(c, x) = ToolMessage(d, y) <=> c = d /\ x = y
<1>1. SystemMessage.role = "system" /\ UserMessage(r).role = "user"
      /\ AssistantMessage(r, k).role = "assistant" /\ AssistantMessage(s, k).role = "assistant"
      /\ ToolMessage(c, x).role = "tool"
  BY DEF SystemMessage, UserMessage, AssistantMessage, ToolMessage
<1>2. UserMessage(r) = UserMessage(s) <=> r = s
  <2>1. UserMessage(r).run = r /\ UserMessage(s).run = s
    BY DEF UserMessage
  <2> QED  BY <2>1
<1>3. AssistantMessage(r, k) = AssistantMessage(s, l) <=> r = s /\ k = l
  <2>1. /\ AssistantMessage(r, k).run = r /\ AssistantMessage(r, k).round = k
        /\ AssistantMessage(s, l).run = s /\ AssistantMessage(s, l).round = l
    BY DEF AssistantMessage
  <2> QED  BY <2>1
<1>4. ToolMessage(c, x) = ToolMessage(d, y) <=> c = d /\ x = y
  <2>1. /\ ToolMessage(c, x).call = c /\ ToolMessage(c, x).code = x
        /\ ToolMessage(d, y).call = d /\ ToolMessage(d, y).code = y
    BY DEF ToolMessage
  <2> QED  BY <2>1
<1> QED  BY <1>1, <1>2, <1>3, <1>4

\* A conversation in which m was said holds what it held before, and m.
LEMMA SaidIn ==
    ASSUME NEW state \in Conversations, NEW m \in Messages, NEW new,
           new.messages = Append(state.messages, m), NEW x
    PROVE  InTranscript(x, new) <=> InTranscript(x, state) \/ x = m
<1>1. state.messages \in Seq(Messages)
  BY DEF Conversations
<1>2. /\ DOMAIN new.messages = DOMAIN state.messages \cup {Len(state.messages) + 1}
      /\ \A i \in DOMAIN state.messages : new.messages[i] = state.messages[i]
      /\ new.messages[Len(state.messages) + 1] = m
  BY <1>1
<1> QED  BY <1>2 DEF InTranscript

\* What a run starts from holds the checkpoint, if there is one, and its input.
LEMMA ResumedIn ==
    ASSUME NEW saved \in Conversations \cup {None}, NEW r \in Runs, NEW new,
           new = Resume(saved, r), NEW x
    PROVE  /\ new \in Conversations
           /\ InTranscript(x, new) <=> \/ x = UserMessage(r)
                                       \/ saved = None /\ x = SystemMessage
                                       \/ saved # None /\ InTranscript(x, saved)
           /\ new.iteration = IF saved = None THEN 0 ELSE saved.iteration
<1> DEFINE state == IF saved = None THEN FreshConversation ELSE saved
<1>1. FreshConversation \in Conversations /\ FreshConversation.iteration = 0
      /\ FreshConversation.messages = <<SystemMessage>>
  BY DEF FreshConversation, Conversations, Messages, SystemMessage
<1>2. UserMessage(r) \in Messages /\ state \in Conversations
  BY <1>1 DEF UserMessage, Messages
<1>3. new = Say(state, UserMessage(r))
  BY DEF Resume
<1>4. /\ new \in Conversations /\ new.iteration = state.iteration
      /\ new.messages = Append(state.messages, UserMessage(r))
  BY <1>2, <1>3, SayType
<1>5. InTranscript(x, new) <=> InTranscript(x, state) \/ x = UserMessage(r)
  BY <1>2, <1>4, SaidIn
<1>6. InTranscript(x, FreshConversation) <=> x = SystemMessage
  BY <1>1 DEF InTranscript
<1> QED  BY <1>1, <1>4, <1>5, <1>6

-----------------------------------------------------------------------------
(* What each step does to the conversations, the checkpoints and the calls. *)

Handling(r) == pc[r] \in {"tools", "approval", "call", "remember"}
InRound(r) == Handling(r) \/ pc[r] = "answer"

\* The part of the state that only a run's own steps change.
Untouched(s) ==
    /\ pc'[s] = pc[s] /\ thread'[s] = thread[s] /\ conv'[s] = conv[s] /\ calls'[s] = calls[s]
    /\ next'[s] = next[s] /\ outcome'[s] = outcome[s] /\ stats'[s] = stats[s]

\* The steps of a run that change neither a conversation nor a checkpoint.
Silent(r) ==
    \/ ExceedIterations(r) \/ SkipUnknown(r) \/ StartCall(r) \/ RequestApproval(r)
    \/ ApproverApproves(r) \/ Remember(r) \/ Return(r)

Speaking(r) == ModelAnswers(r) \/ ModelCallsTools(r) \/ ApproverRejects(r) \/ CallTool(r)

LEMMA StepKinds ==
    ASSUME NEW r \in Runs, Step(r)
    PROVE  Silent(r) \/ ModelFails(r) \/ Speaking(r) \/ SaveRound(r) \/ SaveAnswer(r)
  BY DEF Step, Silent, Speaking

\* A step of a run leaves the other runs alone.
LEMMA OthersStay ==
    ASSUME TypeOK, NEW r \in Runs, Step(r)
    PROVE  /\ thread' = thread /\ overlapped' = overlapped
           /\ \A s \in Runs \ {r} : Untouched(s)
<1>1. CASE ModelFails(r) \/ ExceedIterations(r)
  BY <1>1 DEF ModelFails, ExceedIterations, Fail, Go, TypeOK, history, Untouched
<1>2. CASE ModelAnswers(r) \/ ModelCallsTools(r)
  BY <1>2 DEF ModelAnswers, ModelCallsTools, Go, TypeOK, history, Untouched
<1>3. CASE SkipUnknown(r) \/ Remember(r)
  BY <1>3 DEF SkipUnknown, Remember, Advance, Go, TypeOK, history, Untouched
<1>4. CASE StartCall(r) \/ RequestApproval(r) \/ ApproverApproves(r)
  BY <1>4 DEF StartCall, RequestApproval, ApproverApproves, Go, TypeOK, history, Untouched
<1>5. CASE ApproverRejects(r)
  BY <1>5 DEF ApproverRejects, Advance, Go, TypeOK, history, Untouched
<1>6. CASE CallTool(r)
  BY <1>6 DEF CallTool, Go, TypeOK, history, Untouched
<1>7. CASE SaveRound(r) \/ SaveAnswer(r) \/ Return(r)
  BY <1>7 DEF SaveRound, SaveAnswer, Return, Go, TypeOK, history, Untouched
<1> QED  BY <1>1, <1>2, <1>3, <1>4, <1>5, <1>6, <1>7 DEF Step

LEMMA SilentEffect ==
    ASSUME TypeOK, NEW r \in Runs, Silent(r)
    PROVE  /\ conv' = conv /\ calls' = calls /\ ckpt' = ckpt /\ requested' = requested
           /\ executed' = executed /\ unsaved' = unsaved
           /\ Active(r) /\ pc'[r] \notin {"idle", "answer", "return", "crashed"}
           /\ pc'[r] = "done" => pc[r] \in {"loop", "return"}
           /\ Handling(r)' <=> Handling(r)
           /\ pc'[r] # "loop" /\ pc[r] # "answer"
<1>1. CASE ExceedIterations(r) \/ Return(r)
  BY <1>1 DEF ExceedIterations, Return, Fail, Go, TypeOK, shared, history, Handling, Active, Ended
<1>2. CASE SkipUnknown(r) \/ Remember(r)
  BY <1>2 DEF SkipUnknown, Remember, Go, HandlingCall, TypeOK, shared, history, Handling, Active, Ended
<1>3. CASE StartCall(r) \/ RequestApproval(r) \/ ApproverApproves(r)
  BY <1>3 DEF StartCall, RequestApproval, ApproverApproves, HandlingCall, Go, TypeOK, shared,
              history, Handling, Active, Ended
<1> QED  BY <1>1, <1>2, <1>3 DEF Silent

\* A silent step passes a call over only if it is not registered, or has just
\* been reported.
LEMMA SilentAdvance ==
    ASSUME TypeOK, NEW r \in Runs, Silent(r), Handling(r)
    PROVE  \/ /\ next'[r] = next[r] + 1 /\ next[r] \in DOMAIN calls[r]
              /\ pc'[r] = "tools"
              /\ pc[r] = "remember" \/ (pc[r] = "tools" /\ calls[r][next[r]] \notin Tools)
           \/ /\ next'[r] = next[r] /\ pc'[r] # "remember" /\ pc[r] # "remember"
              /\ pc'[r] \in {"approval", "call"} => next[r] \in DOMAIN calls[r]
<1>1. CASE ExceedIterations(r) \/ Return(r)
  BY <1>1 DEF ExceedIterations, Return, Handling
<1>2. CASE SkipUnknown(r)
  <2>1. HandlingCall(r) /\ CurrentCall(r).tool \notin Tools /\ pc' = pc
    BY <1>2 DEF SkipUnknown, Registered
  <2>2. next'[r] = next[r] + 1
    BY <1>2 DEF SkipUnknown, Advance, TypeOK
  <2> QED  BY <2>1, <2>2, HandlingInDomain DEF CurrentCall, HandlingCall
<1>3. CASE Remember(r)
  BY <1>3 DEF Remember, Advance, Go, TypeOK
<1>4. CASE StartCall(r) \/ RequestApproval(r)
  <2>1. HandlingCall(r) /\ next' = next /\ pc'[r] # "remember"
    BY <1>4 DEF StartCall, RequestApproval, Go, TypeOK
  <2> QED  BY <2>1, HandlingInDomain DEF HandlingCall
<1>5. CASE ApproverApproves(r)
  BY <1>5 DEF ApproverApproves, Go, TypeOK
<1> QED  BY <1>1, <1>2, <1>3, <1>4, <1>5 DEF Silent

LEMMA FailureEffect ==
    ASSUME TypeOK, NEW r \in Runs, ModelFails(r)
    PROVE  /\ pc[r] = "loop" /\ pc'[r] = "done" /\ conv[r].iteration < MaxIterations
           /\ conv'[r].messages = conv[r].messages
           /\ conv'[r].iteration = conv[r].iteration + 1
           /\ calls' = calls /\ ckpt' = ckpt /\ requested' = requested /\ executed' = executed
           /\ unsaved' = unsaved
<1>1. pc'[r] = "done" /\ conv'[r] = NextRound(conv[r])
  BY DEF ModelFails, Fail, Go, TypeOK
<1>2. conv[r] \in Conversations
  BY DEF TypeOK
<1> QED  BY <1>1, <1>2, NextRoundType DEF ModelFails, ModelsTurn, shared, history

LEMMA AnswerEffect ==
    ASSUME TypeOK, NEW r \in Runs, ModelAnswers(r)
    PROVE  /\ pc[r] = "loop" /\ pc'[r] = "answer" /\ conv[r].iteration < MaxIterations
           /\ conv'[r].iteration = conv[r].iteration + 1
           /\ AssistantMessage(r, conv'[r].iteration) \in Messages
           /\ conv'[r].messages = Append(conv[r].messages, AssistantMessage(r, conv'[r].iteration))
           /\ calls' = calls /\ ckpt' = ckpt /\ requested' = requested /\ executed' = executed
           /\ unsaved' = unsaved /\ outcome' = outcome
<1> DEFINE state == NextRound(conv[r])
           m == AssistantMessage(r, state.iteration)
<1>1. state \in Conversations /\ state.messages = conv[r].messages
      /\ state.iteration = conv[r].iteration + 1 /\ state.iteration \in Nat
  BY NextRoundType DEF TypeOK, Conversations
<1>2. m \in Messages
  BY <1>1 DEF AssistantMessage, Messages
<1>3. conv'[r] = [Say(state, m) EXCEPT !.final = [run |-> r, round |-> state.iteration]]
  BY DEF ModelAnswers, TypeOK
<1>4. Say(state, m) \in Conversations /\ Say(state, m).messages = Append(state.messages, m)
      /\ Say(state, m).iteration = state.iteration
  BY <1>1, <1>2, SayType
<1>5. conv'[r].messages = Append(state.messages, m) /\ conv'[r].iteration = state.iteration
  BY <1>3, <1>4 DEF Conversations
<1>6. pc[r] = "loop" /\ pc'[r] = "answer" /\ conv[r].iteration < MaxIterations
  BY DEF ModelAnswers, ModelsTurn, Go, TypeOK
<1> QED  BY <1>1, <1>2, <1>5, <1>6 DEF ModelAnswers, shared, history

LEMMA AskEffect ==
    ASSUME TypeOK, NEW r \in Runs, ModelCallsTools(r)
    PROVE  /\ pc[r] = "loop" /\ pc'[r] = "tools" /\ conv[r].iteration < MaxIterations
           /\ conv'[r].iteration = conv[r].iteration + 1
           /\ AssistantMessage(r, conv'[r].iteration) \in Messages
           /\ conv'[r].messages = Append(conv[r].messages, AssistantMessage(r, conv'[r].iteration))
           /\ next'[r] = 1 /\ calls'[r] \in Seq(ToolNames)
           /\ requested' = requested \cup
                {[run |-> r, round |-> conv'[r].iteration, index |-> i,
                  tool |-> calls'[r][i]] : i \in DOMAIN calls'[r]}
           /\ ckpt' = ckpt /\ executed' = executed /\ unsaved' = unsaved /\ outcome' = outcome
<1> DEFINE state == NextRound(conv[r])
           m == AssistantMessage(r, state.iteration)
<1>1. state \in Conversations /\ state.messages = conv[r].messages
      /\ state.iteration = conv[r].iteration + 1 /\ state.iteration \in Nat
  BY NextRoundType DEF TypeOK, Conversations
<1>2. m \in Messages
  BY <1>1 DEF AssistantMessage, Messages
<1>3. PICK resp \in Responses :
        /\ calls' = [calls EXCEPT ![r] = resp.calls]
        /\ next' = [next EXCEPT ![r] = 1]
        /\ conv' = [conv EXCEPT ![r] = Say(state, AssistantMessage(r, state.iteration))]
        /\ requested' = requested \cup
             {[run |-> r, round |-> state.iteration, index |-> i,
               tool |-> resp.calls[i]] : i \in DOMAIN resp.calls}
  BY Zenon DEF ModelCallsTools
<1>4. conv'[r] = Say(state, m) /\ calls'[r] = resp.calls /\ next'[r] = 1
  BY <1>3 DEF TypeOK
<1>5. Say(state, m).messages = Append(state.messages, m) /\ Say(state, m).iteration = state.iteration
  BY <1>1, <1>2, SayType
<1>6. pc[r] = "loop" /\ pc'[r] = "tools" /\ conv[r].iteration < MaxIterations
  BY DEF ModelCallsTools, ModelsTurn, Go, TypeOK
<1>7. resp.calls \in Seq(ToolNames)
  BY ResponsesAssumption DEF ResponseType
<1>8. ckpt' = ckpt /\ executed' = executed /\ unsaved' = unsaved /\ outcome' = outcome
  BY DEF ModelCallsTools, shared
<1>9. conv'[r].iteration = state.iteration /\ conv'[r].messages = Append(conv[r].messages, m)
  BY <1>1, <1>4, <1>5
<1>10. requested' = requested \cup
                {[run |-> r, round |-> conv'[r].iteration, index |-> i,
                  tool |-> calls'[r][i]] : i \in DOMAIN calls'[r]}
  BY <1>3, <1>4, <1>9
<1> HIDE DEF state
<1> QED  BY <1>1, <1>2, <1>4, <1>6, <1>7, <1>8, <1>9, <1>10

\* The report of the call being handled, as a rejection or as a result.
ReportsOn(r, code) ==
    /\ pc[r] \in {"approval", "call"}
    /\ conv'[r].iteration = conv[r].iteration
    /\ ToolMessage(CurrentCall(r), code) \in Messages
    /\ conv'[r].messages = Append(conv[r].messages, ToolMessage(CurrentCall(r), code))
    /\ calls' = calls /\ ckpt' = ckpt /\ requested' = requested /\ unsaved' = unsaved
    /\ outcome' = outcome /\ next[r] \in DOMAIN calls[r] /\ CurrentCall(r) \in CallIds
    /\ IF code = "hitl_rejected"
       THEN pc[r] = "approval" /\ pc'[r] = "tools" /\ next'[r] = next[r] + 1 /\ executed' = executed
       ELSE /\ pc[r] = "call" /\ pc'[r] = "remember" /\ next'[r] = next[r]
            /\ code \in {"ok", "serialization_error"} => executed' = executed \cup {CurrentCall(r)}
            /\ executed' \in {executed, executed \cup {CurrentCall(r)}}

LEMMA ReportEffect ==
    ASSUME TypeOK, NEW r \in Runs, ApproverRejects(r) \/ CallTool(r)
    PROVE  \E code \in Codes : ReportsOn(r, code)
<1>1. /\ next[r] \in DOMAIN calls[r] /\ CurrentCall(r) \in CallIds /\ conv[r] \in Conversations
      /\ \A code \in Codes : ToolMessage(CurrentCall(r), code) \in Messages
  BY CurrentCallType, ToolMessageType DEF TypeOK, ApproverRejects, CallTool
<1>2. \A code \in Codes :
        /\ Say(conv[r], ToolMessage(CurrentCall(r), code)).iteration = conv[r].iteration
        /\ Say(conv[r], ToolMessage(CurrentCall(r), code)).messages
             = Append(conv[r].messages, ToolMessage(CurrentCall(r), code))
  BY <1>1, SayType
<1>3. CASE ApproverRejects(r)
  <2>1. conv'[r] = Say(conv[r], ToolMessage(CurrentCall(r), "hitl_rejected"))
    BY <1>3 DEF ApproverRejects, TypeOK
  <2>2. pc[r] = "approval" /\ pc'[r] = "tools" /\ next'[r] = next[r] + 1
    BY <1>3 DEF ApproverRejects, Advance, Go, TypeOK
  <2>3. calls' = calls /\ ckpt' = ckpt /\ requested' = requested /\ unsaved' = unsaved
        /\ outcome' = outcome /\ executed' = executed
    BY <1>3 DEF ApproverRejects, history
  <2>4. "hitl_rejected" \in Codes
    BY DEF Codes
  <2> QED  BY <1>1, <1>2, <2>1, <2>2, <2>3, <2>4 DEF ReportsOn
<1>4. CASE CallTool(r)
  <2>1. PICK o \in ToolOutcomes :
          /\ executed' = IF o = "invalid" THEN executed ELSE executed \cup {CurrentCall(r)}
          /\ conv' = [conv EXCEPT ![r] = Say(@, ToolMessage(CurrentCall(r), OutcomeCode(o)))]
    BY <1>4, Zenon DEF CallTool
  <2>2. conv'[r] = Say(conv[r], ToolMessage(CurrentCall(r), OutcomeCode(o)))
    BY <2>1 DEF TypeOK
  <2>3. OutcomeCode(o) \in Codes /\ OutcomeCode(o) # "hitl_rejected"
    BY OutcomeCodeType
  <2>4. OutcomeCode(o) \in {"ok", "serialization_error"} => o # "invalid"
    BY DEF OutcomeCode
  <2>5. pc[r] = "call" /\ pc'[r] = "remember"
    BY <1>4 DEF CallTool, Go, TypeOK
  <2>6. calls' = calls /\ ckpt' = ckpt /\ requested' = requested /\ unsaved' = unsaved
        /\ outcome' = outcome /\ next' = next
    BY <1>4 DEF CallTool, shared
  <2> QED  BY <1>1, <1>2, <2>1, <2>2, <2>3, <2>4, <2>5, <2>6 DEF ReportsOn
<1> QED  BY <1>3, <1>4

\* Saving changes no conversation, and the checkpoint of its thread only.
LEMMA SaveEffect ==
    ASSUME TypeOK, NEW r \in Runs, SaveRound(r) \/ SaveAnswer(r)
    PROVE  /\ conv' = conv /\ calls' = calls /\ requested' = requested /\ executed' = executed
           /\ next' = next /\ outcome' = outcome /\ thread[r] \in Threads
           /\ \/ pc[r] = "tools" /\ pc'[r] = "loop" /\ next[r] > Len(calls[r])
              \/ pc[r] = "answer" /\ pc'[r] = "return"
           /\ \A t \in Threads \ {thread[r]} : ckpt'[t] = ckpt[t]
           /\ \/ ckpt'[thread[r]] = conv[r] /\ unsaved' = unsaved \ {r}
              \/ ckpt'[thread[r]] \in {ckpt[thread[r]], Torn} /\ unsaved' = unsaved \cup {r}
<1>1. \/ pc[r] = "tools" /\ pc'[r] = "loop" /\ next[r] > Len(calls[r])
      \/ pc[r] = "answer" /\ pc'[r] = "return"
  BY DEF SaveRound, SaveAnswer, Saving, Go, TypeOK
<1>2. Save(r) /\ thread[r] \in Threads
  BY DEF SaveRound, SaveAnswer, TypeOK
<1>3. /\ \A t \in Threads \ {thread[r]} : ckpt'[t] = ckpt[t]
      /\ \/ ckpt'[thread[r]] = conv[r] /\ unsaved' = unsaved \ {r}
         \/ ckpt'[thread[r]] \in {ckpt[thread[r]], Torn} /\ unsaved' = unsaved \cup {r}
  BY <1>2 DEF Save, TypeOK
<1> QED  BY <1>1, <1>2, <1>3 DEF SaveRound, SaveAnswer

LEMMA LoadEffect ==
    ASSUME TypeOK, NEW r \in Runs, NEW t \in Threads, Load(r, t)
    PROVE  /\ pc[r] = "idle" /\ pc'[r] = "loop" /\ thread'[r] = t
           /\ ckpt[t] \in Conversations \cup {None} /\ conv'[r] = Resume(ckpt[t], r)
           /\ calls' = calls /\ ckpt' = ckpt /\ requested' = requested /\ executed' = executed
           /\ unsaved' = unsaved /\ outcome' = outcome
           /\ \A s \in Runs \ {r} : Untouched(s)
  BY DEF Load, Invoked, Go, TypeOK, shared, Untouched

LEMMA LoadFailsEffect ==
    ASSUME TypeOK, NEW r \in Runs, NEW t \in Threads, LoadFails(r, t)
    PROVE  /\ pc[r] = "idle" /\ pc'[r] = "done" /\ thread'[r] = t
           /\ conv' = conv /\ calls' = calls /\ ckpt' = ckpt /\ requested' = requested
           /\ executed' = executed /\ unsaved' = unsaved /\ overlapped' = overlapped
           /\ outcome'[r] = "checkpoint_load_error"
           /\ \A s \in Runs \ {r} : Untouched(s)
  BY DEF LoadFails, Fail, Invoked, Go, TypeOK, shared, history, Untouched

LEMMA CrashEffect ==
    ASSUME TypeOK, Crash
    PROVE  /\ conv' = conv /\ calls' = calls /\ requested' = requested /\ executed' = executed
           /\ next' = next /\ outcome' = outcome /\ unsaved' = unsaved /\ thread' = thread
           /\ overlapped' = overlapped
           /\ \A r \in Runs : pc'[r] = IF Active(r) THEN "crashed" ELSE pc[r]
           /\ \A t \in Threads : ckpt'[t] \in {ckpt[t], Torn}
  BY DEF Crash, TypeOK, history

LEMMA IdleEffect ==
    ASSUME UNCHANGED vars
    PROVE  /\ conv' = conv /\ calls' = calls /\ ckpt' = ckpt /\ requested' = requested
           /\ executed' = executed /\ unsaved' = unsaved /\ pc' = pc /\ next' = next
           /\ outcome' = outcome /\ thread' = thread /\ overlapped' = overlapped
  BY DEF vars, local, shared, history

\* A run that says a message holds what it held before, and the message.
LEMMA SpokenIn ==
    ASSUME TypeOK, NEW r \in Runs, NEW m \in Messages,
           conv'[r].messages = Append(conv[r].messages, m)
    PROVE  \A x : InTranscript(x, conv'[r]) <=> InTranscript(x, conv[r]) \/ x = m
<1>1. conv[r] \in Conversations
  BY DEF TypeOK
<1>2. PICK new : new = conv'[r]
  OBVIOUS
<1>3. \A x : InTranscript(x, new) <=> InTranscript(x, conv[r]) \/ x = m
  BY <1>1, <1>2, SaidIn
<1> QED  BY <1>2, <1>3

\* Whatever the steps do, the started runs go on: their iterations and what
\* they hold only grow.
LEMMA RunsGoOn ==
    ASSUME TypeOK, TypeOK', [Next]_vars
    PROVE  /\ requested \subseteq requested' /\ executed \subseteq executed'
           /\ \A s \in Runs : pc[s] # "idle" =>
                /\ pc'[s] # "idle" /\ conv'[s].iteration >= conv[s].iteration
                /\ \A x : InTranscript(x, conv[s]) => InTranscript(x, conv'[s])
<1>0. \A s \in Runs : conv[s] \in Conversations /\ conv[s].iteration \in Nat
  BY DEF TypeOK, Conversations
<1>1. CASE UNCHANGED vars
  BY <1>0, <1>1, IdleEffect
<1>2. CASE Crash
  BY <1>0, <1>2, CrashEffect
<1>3. ASSUME NEW r \in Runs, NEW t \in Threads, Load(r, t) \/ LoadFails(r, t)
      PROVE  /\ requested' = requested /\ executed' = executed
             /\ \A s \in Runs : pc[s] # "idle" => pc'[s] = pc[s] /\ conv'[s] = conv[s]
  BY <1>3, LoadEffect, LoadFailsEffect DEF Untouched
<1>4. ASSUME NEW r \in Runs, Step(r)
      PROVE  /\ requested \subseteq requested' /\ executed \subseteq executed'
             /\ pc'[r] # "idle" /\ conv'[r].iteration >= conv[r].iteration
             /\ \A x : InTranscript(x, conv[r]) => InTranscript(x, conv'[r])
  <2>1. CASE Silent(r)
    BY <1>0, <2>1, SilentEffect
  <2>2. CASE ModelFails(r)
    BY <1>0, <2>2, FailureEffect DEF InTranscript
  <2>3. CASE ModelAnswers(r) \/ ModelCallsTools(r)
    <3>1. /\ conv'[r].iteration = conv[r].iteration + 1 /\ pc'[r] \in {"answer", "tools"}
          /\ AssistantMessage(r, conv'[r].iteration) \in Messages
          /\ conv'[r].messages = Append(conv[r].messages, AssistantMessage(r, conv'[r].iteration))
          /\ requested \subseteq requested' /\ executed' = executed
      BY <2>3, AnswerEffect, AskEffect
    <3>3. \A x : InTranscript(x, conv[r]) => InTranscript(x, conv'[r])
      BY <3>1, SpokenIn
    <3>4. conv'[r].iteration >= conv[r].iteration
      BY <1>0, <3>1
    <3> QED  BY <3>1, <3>3, <3>4
  <2>4. CASE ApproverRejects(r) \/ CallTool(r)
    <3>1. PICK code \in Codes : ReportsOn(r, code)
      BY <2>4, ReportEffect
    <3>2. \A x : InTranscript(x, conv[r]) => InTranscript(x, conv'[r])
      BY <3>1, SpokenIn DEF ReportsOn
    <3> QED  BY <1>0, <3>1, <3>2 DEF ReportsOn
  <2>5. CASE SaveRound(r) \/ SaveAnswer(r)
    BY <1>0, <2>5, SaveEffect
  <2> QED  BY <1>4, <2>1, <2>2, <2>3, <2>4, <2>5, StepKinds DEF Speaking
<1>5. ASSUME NEW r \in Runs, Step(r), NEW s \in Runs \ {r} PROVE pc'[s] = pc[s] /\ conv'[s] = conv[s]
  BY <1>5, OthersStay DEF Untouched
<1> QED  BY <1>0, <1>1, <1>2, <1>3, <1>4, <1>5 DEF Next, Begin, Finished

-----------------------------------------------------------------------------
(* The calls of the round under way are the ones the model asked for.      *)
CallOf(r, i) == [run |-> r, round |-> conv[r].iteration, index |-> i, tool |-> calls[r][i]]
RequestsInv ==
    /\ \A r \in Runs : Handling(r) => \A i \in DOMAIN calls[r] : CallOf(r, i) \in requested
    /\ \A c \in requested :
         /\ pc[c.run] # "idle" /\ c.round <= conv[c.run].iteration
         /\ Handling(c.run) /\ c.round = conv[c.run].iteration =>
              c.index \in DOMAIN calls[c.run] /\ c.tool = calls[c.run][c.index]
         /\ pc[c.run] = "answer" => c.round # conv[c.run].iteration

\* A step keeps the invariant if it asks for nothing and moves no run into a
\* round or to an earlier one.
LEMMA RequestsFrame ==
    ASSUME TypeOK, TypeOK', RequestsInv, requested' = requested,
           \A s \in Runs : pc[s] # "idle" => /\ pc'[s] # "idle"
                                             /\ conv'[s].iteration >= conv[s].iteration,
           \A s \in Runs : Handling(s)' => /\ Handling(s) /\ calls'[s] = calls[s]
                                           /\ conv'[s].iteration = conv[s].iteration,
           \A s \in Runs : pc'[s] = "answer" => /\ pc[s] = "answer"
                                                /\ conv'[s].iteration = conv[s].iteration
    PROVE  RequestsInv'
<1>1. ASSUME NEW s \in Runs, Handling(s)', NEW i \in DOMAIN calls'[s]
      PROVE  CallOf(s, i)' \in requested'
  <2>1. CallOf(s, i)' = CallOf(s, i) /\ i \in DOMAIN calls[s]
    BY <1>1 DEF CallOf
  <2> QED  BY <1>1, <2>1 DEF RequestsInv
<1>2. ASSUME NEW c \in requested
      PROVE  /\ pc'[c.run] # "idle" /\ c.round <= conv'[c.run].iteration
             /\ Handling(c.run)' /\ c.round = conv'[c.run].iteration =>
                  c.index \in DOMAIN calls'[c.run] /\ c.tool = calls'[c.run][c.index]
             /\ pc'[c.run] = "answer" => c.round # conv'[c.run].iteration
  <2>1. c.run \in Runs /\ c.round \in Nat
    BY DEF TypeOK, CallIds
  <2>2. conv[c.run].iteration \in Nat /\ conv'[c.run].iteration \in Nat
    BY <2>1 DEF TypeOK, Conversations
  <2> QED  BY <2>1, <2>2 DEF RequestsInv
<1> QED  BY <1>1, <1>2 DEF RequestsInv

LEMMA RequestsAsk ==
    ASSUME TypeOK, TypeOK', RequestsInv, NEW r \in Runs, ModelCallsTools(r)
    PROVE  RequestsInv'
<1> DEFINE asked == {[run |-> r, round |-> conv'[r].iteration, index |-> i,
                      tool |-> calls'[r][i]] : i \in DOMAIN calls'[r]}
<1>1. /\ pc[r] = "loop" /\ pc'[r] = "tools" /\ conv'[r].iteration = conv[r].iteration + 1
      /\ requested' = requested \cup asked
  BY AskEffect
<1>2. \A s \in Runs \ {r} : Untouched(s)
  BY OthersStay DEF Step
<1>3. conv[r].iteration \in Nat
  BY DEF TypeOK, Conversations
<1>4. ASSUME NEW s \in Runs, Handling(s)', NEW i \in DOMAIN calls'[s]
      PROVE  CallOf(s, i)' \in requested'
  <2>1. CASE s = r
    BY <1>1, <2>1 DEF CallOf
  <2>2. CASE s # r
    <3>1. CallOf(s, i)' = CallOf(s, i) /\ i \in DOMAIN calls[s] /\ Handling(s)
      BY <1>2, <1>4, <2>2 DEF CallOf, Untouched, Handling
    <3> QED  BY <1>1, <3>1 DEF RequestsInv
  <2> QED  BY <2>1, <2>2
<1>5. ASSUME NEW c \in requested'
      PROVE  /\ pc'[c.run] # "idle" /\ c.round <= conv'[c.run].iteration
             /\ Handling(c.run)' /\ c.round = conv'[c.run].iteration =>
                  c.index \in DOMAIN calls'[c.run] /\ c.tool = calls'[c.run][c.index]
             /\ pc'[c.run] = "answer" => c.round # conv'[c.run].iteration
  <2>1. CASE c \in asked
    <3>1. PICK i \in DOMAIN calls'[r] :
            c = [run |-> r, round |-> conv'[r].iteration, index |-> i, tool |-> calls'[r][i]]
      BY <2>1
    <3>2. c.run = r /\ c.round = conv'[r].iteration /\ c.index = i /\ c.tool = calls'[r][i]
      BY <3>1
    <3> QED  BY <1>1, <1>3, <3>2
  <2>2. CASE c \in requested
    <3>1. c.run \in Runs /\ c.round \in Nat
      BY <2>2 DEF TypeOK, CallIds
    <3>2. pc[c.run] # "idle" /\ c.round <= conv[c.run].iteration
      BY <2>2 DEF RequestsInv
    <3>3. CASE c.run = r
      BY <1>1, <1>3, <3>1, <3>2, <3>3
    <3>4. CASE c.run # r
      BY <1>2, <2>2, <3>1, <3>4 DEF RequestsInv, Untouched, Handling
    <3> QED  BY <3>3, <3>4
  <2> QED  BY <1>1, <2>1, <2>2
<1> QED  BY <1>4, <1>5 DEF RequestsInv

LEMMA RequestsStep ==
    ASSUME TypeOK, TypeOK', RequestsInv, [Next]_vars
    PROVE  RequestsInv'
<1> USE DEF Handling
<1>0. \A s \in Runs : conv[s].iteration \in Nat
  BY DEF TypeOK, Conversations
<1>1. CASE UNCHANGED vars
  BY <1>0, <1>1, IdleEffect, RequestsFrame
<1>2. CASE Crash
  BY <1>0, <1>2, CrashEffect, RequestsFrame
<1>3. ASSUME NEW r \in Runs, NEW t \in Threads, Load(r, t) \/ LoadFails(r, t) PROVE RequestsInv'
  BY <1>0, <1>3, LoadEffect, LoadFailsEffect, RequestsFrame DEF Untouched
<1>4. ASSUME NEW r \in Runs, Step(r) PROVE RequestsInv'
  <2>1. \A s \in Runs \ {r} : Untouched(s)
    BY <1>4, OthersStay
  <2>2. CASE Silent(r)
    <3>1. /\ conv' = conv /\ calls' = calls /\ requested' = requested
          /\ pc'[r] \notin {"idle", "answer"} /\ (Handling(r)' <=> Handling(r))
      BY <2>2, SilentEffect
    <3> QED  BY <1>0, <2>1, <3>1, RequestsFrame DEF Untouched
  <2>3. CASE ModelFails(r)
    BY <1>0, <2>1, <2>3, FailureEffect, RequestsFrame DEF Untouched
  <2>4. CASE ModelAnswers(r)
    <3>1. /\ pc[r] = "loop" /\ pc'[r] = "answer" /\ calls' = calls /\ requested' = requested
          /\ conv'[r].iteration = conv[r].iteration + 1
      BY <2>4, AnswerEffect
    <3>2. ASSUME NEW c \in requested
          PROVE  /\ pc'[c.run] # "idle" /\ c.round <= conv'[c.run].iteration
                 /\ Handling(c.run)' /\ c.round = conv'[c.run].iteration =>
                      c.index \in DOMAIN calls'[c.run] /\ c.tool = calls'[c.run][c.index]
                 /\ pc'[c.run] = "answer" => c.round # conv'[c.run].iteration
      <4>1. c.run \in Runs /\ c.round \in Nat /\ c.round <= conv[c.run].iteration
        BY DEF TypeOK, CallIds, RequestsInv
      <4>2. CASE c.run = r
        BY <1>0, <3>1, <4>1, <4>2
      <4>3. CASE c.run # r
        BY <2>1, <3>1, <4>1, <4>3 DEF RequestsInv, Untouched
      <4> QED  BY <4>2, <4>3
    <3>3. ASSUME NEW s \in Runs, Handling(s)', NEW i \in DOMAIN calls'[s]
          PROVE  CallOf(s, i)' \in requested'
      <4>1. s # r
        BY <3>1, <3>3
      <4>2. CallOf(s, i)' = CallOf(s, i) /\ i \in DOMAIN calls[s] /\ Handling(s)
        BY <2>1, <3>3, <4>1 DEF CallOf, Untouched
      <4> QED  BY <3>1, <4>2 DEF RequestsInv
    <3> QED  BY <3>1, <3>2, <3>3 DEF RequestsInv
  <2>5. CASE ModelCallsTools(r)
    BY <2>5, RequestsAsk
  <2>6. CASE ApproverRejects(r) \/ CallTool(r)
    <3>1. PICK code \in Codes : ReportsOn(r, code)
      BY <2>6, ReportEffect
    <3>2. /\ conv'[r].iteration = conv[r].iteration /\ calls' = calls /\ requested' = requested
          /\ Handling(r) /\ pc'[r] \in {"tools", "remember"}
      BY <3>1 DEF ReportsOn
    <3> QED  BY <1>0, <2>1, <3>2, RequestsFrame DEF Untouched
  <2>7. CASE SaveRound(r) \/ SaveAnswer(r)
    <3>1. /\ conv' = conv /\ calls' = calls /\ requested' = requested
          /\ pc'[r] \in {"loop", "return"}
      BY <2>7, SaveEffect
    <3> QED  BY <1>0, <2>1, <3>1, RequestsFrame DEF Untouched
  <2> QED  BY <1>4, <2>2, <2>3, <2>4, <2>5, <2>6, <2>7, StepKinds DEF Speaking
<1> QED  BY <1>1, <1>2, <1>3, <1>4 DEF Next, Begin, Finished

LEMMA RequestsHold == Spec => []RequestsInv
<1>1. Init => RequestsInv
  BY DEF Init, RequestsInv, Handling
<1>2. TypeOK /\ TypeOK' /\ RequestsInv /\ [Next]_vars => RequestsInv'
  BY RequestsStep
<1> QED  BY <1>1, <1>2, TypeCorrect, PTL DEF Spec

(* What any copy holds of a run, the run said; and it has the turn in which *)
(* a call was asked for when it has the call's report.                      *)
Sourced(state) ==
    /\ \A r \in Runs : InTranscript(UserMessage(r), state) => pc[r] # "idle"
    /\ \A r \in Runs, k \in Nat : InTranscript(AssistantMessage(r, k), state) =>
         /\ pc[r] # "idle" /\ k <= conv[r].iteration
         /\ InTranscript(AssistantMessage(r, k), conv[r])
    /\ \A c \in CallIds, code \in Codes : InTranscript(ToolMessage(c, code), state) =>
         c \in requested /\ InTranscript(AssistantMessage(c.run, c.round), state)

(* The turn under way is in the copy of its own run only.                  *)
Private(r, state) == InRound(r) => ~InTranscript(AssistantMessage(r, conv[r].iteration), state)

SourcesInv ==
    /\ \A r \in Runs :
         /\ Sourced(conv[r])
         /\ InRound(r) \/ pc[r] = "return" =>
              InTranscript(AssistantMessage(r, conv[r].iteration), conv[r])
         /\ \A s \in Runs \ {r} : Private(r, conv[s])
    /\ \A t \in Threads : Saved(t) => Sourced(ckpt[t]) /\ \A r \in Runs : Private(r, ckpt[t])

LEMMA SourcedStays ==
    ASSUME TypeOK, TypeOK', [Next]_vars, NEW state, Sourced(state)
    PROVE  Sourced(state)'
<1>0. \A s \in Runs : conv[s].iteration \in Nat /\ conv'[s].iteration \in Nat
  BY DEF TypeOK, Conversations
<1> QED  BY <1>0, RunsGoOn DEF Sourced

\* A step that adds no message keeps the invariant, if no run enters a round.
LEMMA SourcesFrame ==
    ASSUME TypeOK, TypeOK', SourcesInv, [Next]_vars, conv' = conv,
           \A s \in Runs : InRound(s)' => InRound(s),
           \A s \in Runs : pc'[s] = "return" => InRound(s) \/ pc[s] = "return",
           \A t \in Threads :
              \/ ckpt'[t] \in {ckpt[t], Torn}
              \/ \E r \in Runs : ckpt'[t] = conv[r] /\ ~InRound(r)'
    PROVE  SourcesInv'
<1>1. ASSUME NEW r \in Runs
      PROVE  /\ Sourced(conv[r])'
             /\ InRound(r)' \/ pc'[r] = "return" =>
                  InTranscript(AssistantMessage(r, conv[r].iteration), conv[r])
             /\ \A s \in Runs \ {r} : Private(r, conv[s])'
  <2>1. PICK state : state = conv[r]
    OBVIOUS
  <2>2. Sourced(state)'
    BY <2>1, SourcedStays DEF SourcesInv
  <2>3. Sourced(conv[r])'
    BY <2>1, <2>2 DEF Sourced
  <2> QED  BY <2>3 DEF SourcesInv, Private
<1>2. ASSUME NEW t \in Threads, Saved(t)'
      PROVE  Sourced(ckpt[t])' /\ \A r \in Runs : Private(r, ckpt[t])'
  <2>1. PICK state : state = ckpt'[t]
    OBVIOUS
  <2>2. Sourced(state) /\ \A r \in Runs : InRound(r)' => ~InTranscript(AssistantMessage(r, conv[r].iteration), state)
    <3>1. CASE ckpt'[t] = ckpt[t]
      BY <1>2, <2>1, <3>1 DEF SourcesInv, Private, Saved
    <3>2. CASE \E s \in Runs : ckpt'[t] = conv[s] /\ ~InRound(s)'
      BY <2>1, <3>2 DEF SourcesInv, Private
    <3> QED  BY <1>2, <3>1, <3>2 DEF Saved
  <2>3. Sourced(state)'
    BY <2>2, SourcedStays
  <2> QED  BY <2>1, <2>2, <2>3 DEF Sourced, Private
<1> QED  BY <1>1, <1>2 DEF SourcesInv

\* A step that gives a run a copy of known sources keeps the invariant, if the
\* copy has no other run's turn under way.
LEMMA SourcesNewCopy ==
    ASSUME TypeOK, TypeOK', SourcesInv, [Next]_vars, NEW r \in Runs, ckpt' = ckpt,
           \A s \in Runs \ {r} : Untouched(s),
           Sourced(conv[r])',
           \A s \in Runs \ {r} : Private(s, conv[r])',
           \A x \in {conv[s] : s \in Runs \ {r}} \cup {ckpt[t] : t \in {u \in Threads : Saved(u)}} :
              InRound(r)' => ~InTranscript(AssistantMessage(r, conv'[r].iteration), x),
           InRound(r)' \/ pc'[r] = "return" =>
              InTranscript(AssistantMessage(r, conv'[r].iteration), conv'[r])
    PROVE  SourcesInv'
<1>1. ASSUME NEW s \in Runs \ {r} PROVE Sourced(conv[s])'
  <2>1. PICK state : state = conv[s]
    OBVIOUS
  <2>2. Sourced(state)'
    BY <2>1, SourcedStays DEF SourcesInv
  <2> QED  BY <2>1, <2>2 DEF Sourced, Untouched
<1>2. ASSUME NEW s \in Runs, NEW u \in Runs \ {s} PROVE Private(s, conv[u])'
  <2>1. CASE s = r
    BY <2>1 DEF Private, Untouched
  <2>2. CASE s # r /\ u = r
    BY <2>2
  <2>3. CASE s # r /\ u # r
    BY <2>3 DEF SourcesInv, Private, Untouched, InRound, Handling
  <2> QED  BY <2>1, <2>2, <2>3
<1>3. ASSUME NEW s \in Runs, InRound(s)' \/ pc'[s] = "return"
      PROVE  InTranscript(AssistantMessage(s, conv'[s].iteration), conv'[s])
  <2>1. CASE s = r
    BY <1>3, <2>1
  <2>2. CASE s # r
    BY <1>3, <2>2 DEF SourcesInv, Untouched, InRound, Handling
  <2> QED  BY <2>1, <2>2
<1>4. ASSUME NEW t \in Threads, Saved(t)'
      PROVE  Sourced(ckpt[t])' /\ \A s \in Runs : Private(s, ckpt[t])'
  <2>1. PICK state : state = ckpt[t]
    OBVIOUS
  <2>2. Saved(t)
    BY <1>4 DEF Saved
  <2>3. Sourced(state)'
    BY <2>1, <2>2, SourcedStays DEF SourcesInv
  <2>4. ASSUME NEW s \in Runs PROVE Private(s, ckpt[t])'
    <3>1. CASE s = r
      BY <2>2, <3>1 DEF Private
    <3>2. CASE s # r
      BY <2>2, <3>2 DEF SourcesInv, Private, Untouched, InRound, Handling
    <3> QED  BY <3>1, <3>2
  <2> QED  BY <2>1, <2>3, <2>4 DEF Sourced
<1> QED  BY <1>1, <1>2, <1>3, <1>4 DEF SourcesInv

LEMMA SourcesTurn ==
    ASSUME TypeOK, TypeOK', RequestsInv, SourcesInv, [Next]_vars, NEW r \in Runs,
           ModelAnswers(r) \/ ModelCallsTools(r)
    PROVE  SourcesInv'
<1> DEFINE k == conv'[r].iteration
           m == AssistantMessage(r, k)
<1>1. /\ k = conv[r].iteration + 1 /\ ckpt' = ckpt /\ pc'[r] # "idle"
      /\ m \in Messages /\ conv'[r].messages = Append(conv[r].messages, m)
  BY AnswerEffect, AskEffect
<1>2. \A s \in Runs \ {r} : Untouched(s)
  BY OthersStay DEF Step
<1>3. conv[r] \in Conversations /\ conv[r].iteration \in Nat /\ k \in Nat
  BY DEF TypeOK, Conversations
<1>4. \A x : InTranscript(x, conv'[r]) <=> InTranscript(x, conv[r]) \/ x = m
  BY <1>1, <1>3, SpokenIn
<1> HIDE DEF m, k
<1>5. Sourced(conv[r])'
  <2>1. PICK state : state = conv[r]
    OBVIOUS
  <2>2. Sourced(state)'
    BY <2>1, SourcedStays DEF SourcesInv
  <2>3. \A s : UserMessage(s) # m
    BY MessageKinds DEF m
  <2>4. \A c, code : ToolMessage(c, code) # m
    BY MessageKinds DEF m
  <2>5. \A s, l : AssistantMessage(s, l) = m => s = r /\ l = k
    BY MessageKinds DEF m
  <2> QED  BY <1>1, <1>3, <1>4, <2>1, <2>2, <2>3, <2>4, <2>5 DEF Sourced, k
<1>6. ASSUME NEW s \in Runs \ {r} PROVE Private(s, conv[r])'
  <2>1. InRound(s)' => /\ ~InTranscript(AssistantMessage(s, conv[s].iteration), conv[r])
                       /\ conv'[s] = conv[s]
    BY <1>2 DEF SourcesInv, Private, Untouched, InRound, Handling
  <2>2. AssistantMessage(s, conv[s].iteration) # m
    BY MessageKinds DEF m
  <2> QED  BY <1>4, <2>1, <2>2 DEF Private
<1>7. \A x \in {conv[s] : s \in Runs \ {r}} \cup {ckpt[t] : t \in {u \in Threads : Saved(u)}} :
        ~InTranscript(m, x)
  <2>1. ASSUME NEW x, Sourced(x) PROVE ~InTranscript(m, x)
    BY <1>1, <1>3, <2>1 DEF Sourced, m
  <2> QED  BY <2>1 DEF SourcesInv
<1>8. InTranscript(m, conv'[r])
  BY <1>4
<1> QED  BY <1>1, <1>2, <1>5, <1>6, <1>7, <1>8, SourcesNewCopy DEF m, k

LEMMA SourcesReport ==
    ASSUME TypeOK, TypeOK', RequestsInv, SourcesInv, [Next]_vars, NEW r \in Runs,
           ApproverRejects(r) \/ CallTool(r)
    PROVE  SourcesInv'
<1>1. PICK code \in Codes : ReportsOn(r, code)
  BY ReportEffect
<1> DEFINE m == ToolMessage(CurrentCall(r), code)
<1>2. /\ conv'[r].iteration = conv[r].iteration /\ ckpt' = ckpt /\ Handling(r)
      /\ m \in Messages /\ conv'[r].messages = Append(conv[r].messages, m)
      /\ next[r] \in DOMAIN calls[r] /\ requested' = requested
  BY <1>1 DEF ReportsOn, Handling
<1>3. \A s \in Runs \ {r} : Untouched(s)
  BY OthersStay DEF Step
<1>4. conv[r] \in Conversations
  BY DEF TypeOK
<1>5. \A x : InTranscript(x, conv'[r]) <=> InTranscript(x, conv[r]) \/ x = m
  BY <1>2, <1>4, SpokenIn
<1>6. /\ CurrentCall(r) \in requested
      /\ CurrentCall(r).run = r /\ CurrentCall(r).round = conv[r].iteration
  BY <1>2 DEF RequestsInv, CallOf, CurrentCall
<1>7. InTranscript(AssistantMessage(r, conv[r].iteration), conv[r])
  BY <1>2 DEF SourcesInv, InRound
<1> HIDE DEF m
<1>8. Sourced(conv[r])'
  <2>1. PICK state : state = conv[r]
    OBVIOUS
  <2>2. Sourced(state)'
    BY <2>1, SourcedStays DEF SourcesInv
  <2>3. \A s : UserMessage(s) # m
    BY MessageKinds DEF m
  <2>4. \A s, l : AssistantMessage(s, l) # m
    BY MessageKinds DEF m
  <2>5. \A c, x : ToolMessage(c, x) = m => c = CurrentCall(r)
    BY MessageKinds DEF m
  <2> QED  BY <1>2, <1>5, <1>6, <1>7, <2>1, <2>2, <2>3, <2>4, <2>5 DEF Sourced
<1>9. \A s \in Runs : AssistantMessage(s, conv[s].iteration) # m
  BY MessageKinds DEF m
<1>10. ASSUME NEW s \in Runs \ {r} PROVE Private(s, conv[r])'
  BY <1>3, <1>5, <1>9 DEF SourcesInv, Private, Untouched, InRound, Handling
<1>11. \A x \in {conv[s] : s \in Runs \ {r}} \cup {ckpt[t] : t \in {u \in Threads : Saved(u)}} :
         ~InTranscript(AssistantMessage(r, conv[r].iteration), x)
  BY <1>2 DEF SourcesInv, Private, InRound
<1> QED  BY <1>2, <1>3, <1>5, <1>7, <1>8, <1>10, <1>11, SourcesNewCopy

LEMMA SourcesLoad ==
    ASSUME TypeOK, TypeOK', SourcesInv, [Next]_vars, NEW r \in Runs, NEW t \in Threads, Load(r, t)
    PROVE  SourcesInv'
<1>1. /\ pc[r] = "idle" /\ pc'[r] = "loop" /\ ckpt' = ckpt /\ requested' = requested
      /\ ckpt[t] \in Conversations \cup {None} /\ conv'[r] = Resume(ckpt[t], r)
      /\ \A s \in Runs \ {r} : Untouched(s)
  BY LoadEffect
<1>2. \A x : InTranscript(x, conv'[r]) <=> \/ x = UserMessage(r)
                                           \/ ckpt[t] = None /\ x = SystemMessage
                                           \/ ckpt[t] # None /\ InTranscript(x, ckpt[t])
  BY <1>1, ResumedIn
<1>3. ckpt[t] # None => Saved(t)
  BY <1>1, MarkersAssumption DEF Saved
<1>4. \A s, k : AssistantMessage(s, k) # UserMessage(r) /\ AssistantMessage(s, k) # SystemMessage
  BY MessageKinds
<1>5. Sourced(conv[r])'
  <2>1. PICK state : state = ckpt[t]
    OBVIOUS
  <2>2. ckpt[t] # None => Sourced(state)'
    BY <1>3, <2>1, SourcedStays DEF SourcesInv
  <2>3. \A s : UserMessage(s) # SystemMessage /\ (UserMessage(s) = UserMessage(r) => s = r)
    BY MessageKinds
  <2>4. \A c, x : ToolMessage(c, x) # UserMessage(r) /\ ToolMessage(c, x) # SystemMessage
    BY MessageKinds
  <2> QED  BY <1>1, <1>2, <1>4, <2>1, <2>2, <2>3, <2>4 DEF Sourced
<1>6. ASSUME NEW s \in Runs \ {r} PROVE Private(s, conv[r])'
  BY <1>1, <1>2, <1>3, <1>4 DEF SourcesInv, Private, Untouched, InRound, Handling
<1>7. ~InRound(r)' /\ pc'[r] # "return"
  BY <1>1 DEF InRound, Handling
<1> QED  BY <1>1, <1>5, <1>6, <1>7, SourcesNewCopy

LEMMA SourcesFails ==
    ASSUME TypeOK, TypeOK', SourcesInv, [Next]_vars, NEW r \in Runs, ModelFails(r)
    PROVE  SourcesInv'
<1>1. /\ pc'[r] = "done" /\ ckpt' = ckpt /\ conv'[r].messages = conv[r].messages
  BY FailureEffect
<1>2. \A s \in Runs \ {r} : Untouched(s)
  BY OthersStay DEF Step
<1>3. \A x : InTranscript(x, conv'[r]) <=> InTranscript(x, conv[r])
  BY <1>1 DEF InTranscript
<1>4. Sourced(conv[r])'
  <2>1. PICK state : state = conv[r]
    OBVIOUS
  <2>2. Sourced(state)'
    BY <2>1, SourcedStays DEF SourcesInv
  <2> QED  BY <1>3, <2>1, <2>2 DEF Sourced
<1>5. ASSUME NEW s \in Runs \ {r} PROVE Private(s, conv[r])'
  BY <1>2, <1>3 DEF SourcesInv, Private, Untouched, InRound, Handling
<1>6. ~InRound(r)' /\ pc'[r] # "return"
  BY <1>1 DEF InRound, Handling
<1> QED  BY <1>1, <1>2, <1>4, <1>5, <1>6, SourcesNewCopy

LEMMA SourcesStep ==
    ASSUME TypeOK, TypeOK', RequestsInv, SourcesInv, [Next]_vars
    PROVE  SourcesInv'
<1>1. CASE UNCHANGED vars
  BY <1>1, IdleEffect, SourcesFrame DEF InRound, Handling
<1>2. CASE Crash
  BY <1>2, CrashEffect, SourcesFrame DEF InRound, Handling, Active, Ended
<1>3. ASSUME NEW r \in Runs, NEW t \in Threads, LoadFails(r, t) PROVE SourcesInv'
  BY <1>3, LoadFailsEffect, SourcesFrame DEF InRound, Handling, Untouched
<1>4. ASSUME NEW r \in Runs, Silent(r) PROVE SourcesInv'
  <2>1. \A s \in Runs \ {r} : pc'[s] = pc[s]
    BY <1>4, OthersStay DEF Step, Silent, Untouched
  <2>2. /\ conv' = conv /\ ckpt' = ckpt /\ pc'[r] \notin {"answer", "return"}
        /\ (Handling(r)' <=> Handling(r))
    BY <1>4, SilentEffect
  <2> QED  BY <2>1, <2>2, SourcesFrame DEF InRound, Handling
<1>5. ASSUME NEW r \in Runs, SaveRound(r) \/ SaveAnswer(r) PROVE SourcesInv'
  <2>1. \A s \in Runs \ {r} : pc'[s] = pc[s]
    BY <1>5, OthersStay DEF Step, Untouched
  <2>2. /\ conv' = conv /\ InRound(r) /\ pc'[r] \in {"loop", "return"}
        /\ \A t \in Threads : ckpt'[t] \in {ckpt[t], Torn} \/ ckpt'[t] = conv[r]
    BY <1>5, SaveEffect DEF InRound, Handling
  <2> QED  BY <2>1, <2>2, SourcesFrame DEF InRound, Handling
<1> QED  BY <1>1, <1>2, <1>3, <1>4, <1>5, SourcesLoad, SourcesFails, SourcesTurn, SourcesReport,
            StepKinds DEF Next, Begin, Finished, Speaking

LEMMA SourcesHold == Spec => []SourcesInv
<1>1. Init => SourcesInv
  <2>1. ASSUME Init, NEW r \in Runs, NEW x, InTranscript(x, conv[r]) PROVE x = SystemMessage
    BY <2>1 DEF Init, FreshConversation, InTranscript
  <2>2. \A s, k, c, code : /\ UserMessage(s) # SystemMessage /\ AssistantMessage(s, k) # SystemMessage
                           /\ ToolMessage(c, code) # SystemMessage
    BY MessageKinds
  <2>3. ASSUME Init, NEW r \in Runs
        PROVE  Sourced(conv[r]) /\ \A s \in Runs \ {r} : Private(r, conv[s])
    BY <2>1, <2>2, <2>3 DEF Sourced, Private
  <2>4. Init => \A t \in Threads : ~Saved(t)
    BY DEF Init, Saved
  <2>5. Init => \A r \in Runs : ~InRound(r) /\ pc[r] # "return"
    BY DEF Init, InRound, Handling
  <2> QED  BY <2>3, <2>4, <2>5 DEF SourcesInv
<1>2. TypeOK /\ TypeOK' /\ RequestsInv /\ SourcesInv /\ [Next]_vars => SourcesInv'
  BY SourcesStep
<1> QED  BY <1>1, <1>2, TypeCorrect, RequestsHold, PTL DEF Spec

\* A tool message of a conversation is one of the reports of its call.
LEMMA ReportIn ==
    ASSUME NEW state \in Conversations, NEW c
    PROVE  /\ IsFiniteSet(ToolMessagesFor(c, state))
           /\ \A i \in ToolMessagesFor(c, state) :
                c \in CallIds /\ \E code \in Codes : state.messages[i] = ToolMessage(c, code)
           /\ ToolMessagesFor(c, state) # {} =>
                c \in CallIds /\ \E code \in Codes : InTranscript(ToolMessage(c, code), state)
<1>1. state.messages \in Seq(Messages)
  BY DEF Conversations
<1>2. IsFiniteSet(ToolMessagesFor(c, state))
  <2>1. ToolMessagesFor(c, state) \subseteq 1..Len(state.messages)
    BY <1>1 DEF ToolMessagesFor
  <2> QED  BY <1>1, <2>1, FS_Interval, FS_Subset
<1>3. ASSUME NEW i \in ToolMessagesFor(c, state)
      PROVE  c \in CallIds /\ \E code \in Codes : state.messages[i] = ToolMessage(c, code)
  <2>1. i \in DOMAIN state.messages /\ state.messages[i].role = "tool" /\ state.messages[i].call = c
    BY DEF ToolMessagesFor
  <2>2. state.messages[i] \in Messages
    BY <1>1, <2>1
  <2>3. state.messages[i] \in [role : {"tool"}, call : CallIds, code : Codes]
    BY <2>1, <2>2 DEF Messages, SystemMessage
  <2> QED  BY <2>1, <2>3 DEF ToolMessage
<1>4. ASSUME ToolMessagesFor(c, state) # {}
      PROVE  c \in CallIds /\ \E code \in Codes : InTranscript(ToolMessage(c, code), state)
  <2>1. PICK i \in ToolMessagesFor(c, state) : TRUE
    BY <1>4
  <2>2. i \in DOMAIN state.messages
    BY DEF ToolMessagesFor
  <2> QED  BY <1>3, <2>1, <2>2 DEF InTranscript
<1> QED  BY <1>2, <1>3, <1>4

\* A message adds one to the reports of the call it reports.
LEMMA ReportsCounted ==
    ASSUME NEW state \in Conversations, NEW m \in Messages, NEW new,
           new.messages = Append(state.messages, m), NEW c
    PROVE  /\ m.role = "tool" /\ m.call = c =>
                Cardinality(ToolMessagesFor(c, new)) = Cardinality(ToolMessagesFor(c, state)) + 1
           /\ ~(m.role = "tool" /\ m.call = c) =>
                ToolMessagesFor(c, new) = ToolMessagesFor(c, state)
<1> DEFINE n == Len(state.messages) + 1
<1>1. state.messages \in Seq(Messages) /\ n \in Nat
  BY DEF Conversations
<1>2. /\ DOMAIN new.messages = DOMAIN state.messages \cup {n} /\ n \notin DOMAIN state.messages
      /\ \A i \in DOMAIN state.messages : new.messages[i] = state.messages[i]
      /\ new.messages[n] = m
  BY <1>1
<1> HIDE DEF n
<1>3. ASSUME m.role = "tool", m.call = c
      PROVE  Cardinality(ToolMessagesFor(c, new)) = Cardinality(ToolMessagesFor(c, state)) + 1
  <2>1. ToolMessagesFor(c, new) = ToolMessagesFor(c, state) \cup {n}
    BY <1>2, <1>3 DEF ToolMessagesFor
  <2>2. n \notin ToolMessagesFor(c, state)
    BY <1>2 DEF ToolMessagesFor
  <2> QED  BY <2>1, <2>2, ReportIn, FS_AddElement
<1>4. ASSUME ~(m.role = "tool" /\ m.call = c)
      PROVE  ToolMessagesFor(c, new) = ToolMessagesFor(c, state)
  BY <1>2, <1>4 DEF ToolMessagesFor
<1> QED  BY <1>3, <1>4

LEMMA ReportsSpoken ==
    ASSUME TypeOK, NEW r \in Runs, NEW m \in Messages,
           conv'[r].messages = Append(conv[r].messages, m), NEW c
    PROVE  /\ m.role = "tool" /\ m.call = c =>
                Cardinality(ToolMessagesFor(c, conv'[r])) = Cardinality(ToolMessagesFor(c, conv[r])) + 1
           /\ ~(m.role = "tool" /\ m.call = c) =>
                ToolMessagesFor(c, conv'[r]) = ToolMessagesFor(c, conv[r])
<1>1. conv[r] \in Conversations
  BY DEF TypeOK
<1>2. PICK new : new = conv'[r]
  OBVIOUS
<1>3. /\ m.role = "tool" /\ m.call = c =>
           Cardinality(ToolMessagesFor(c, new)) = Cardinality(ToolMessagesFor(c, conv[r])) + 1
      /\ ~(m.role = "tool" /\ m.call = c) =>
           ToolMessagesFor(c, new) = ToolMessagesFor(c, conv[r])
  BY <1>1, <1>2, ReportsCounted
<1> QED  BY <1>2, <1>3

\* The copies of a run hold no report of a call nobody asked for.
LEMMA NoReport ==
    ASSUME NEW state \in Conversations, Sourced(state), NEW c, c \notin requested
    PROVE  Cardinality(ToolMessagesFor(c, state)) = 0
<1>1. ToolMessagesFor(c, state) = {}
  BY ReportIn DEF Sourced
<1> QED  BY <1>1, FS_EmptySet

(* The calls of the round under way that have not been reported yet.       *)
Unreported(r, c) ==
    /\ Handling(r) /\ c.run = r /\ c.round = conv[r].iteration
    /\ IF pc[r] = "remember" THEN c.index > next[r] ELSE c.index >= next[r]
Reported(c, state, due) ==
    Cardinality(ToolMessagesFor(c, state)) =
        IF c.tool \in Tools /\ InTranscript(AssistantMessage(c.run, c.round), state) /\ due
        THEN 1 ELSE 0
RoundsInv ==
    /\ \A r \in Runs, c \in requested : Active(r) => Reported(c, conv[r], ~Unreported(r, c))
    /\ \A t \in Threads, c \in requested : Saved(t) => Reported(c, ckpt[t], TRUE)

\* A step that changes no conversation keeps the invariant, if it changes what
\* is unreported of registered calls in no active run.
LEMMA RoundsFrame ==
    ASSUME TypeOK, RoundsInv, conv' = conv, requested' = requested,
           \A s \in Runs : Active(s)' => Active(s),
           \A s \in Runs : Active(s)' => \A c \in requested : c.tool \in Tools =>
              (Unreported(s, c)' <=> Unreported(s, c)),
           \A t \in Threads :
              \/ ckpt'[t] \in {ckpt[t], Torn}
              \/ \E r \in Runs : /\ ckpt'[t] = conv[r] /\ Active(r)
                                 /\ \A c \in requested : ~Unreported(r, c)
    PROVE  RoundsInv'
<1>1. ASSUME NEW s \in Runs, NEW c \in requested, Active(s)'
      PROVE  Reported(c, conv[s], ~Unreported(s, c))'
  BY <1>1 DEF RoundsInv, Reported
<1>2. ASSUME NEW t \in Threads, NEW c \in requested, Saved(t)'
      PROVE  Reported(c, ckpt[t], TRUE)'
  <2>1. CASE ckpt'[t] = ckpt[t]
    BY <1>2, <2>1 DEF RoundsInv, Reported, Saved
  <2>2. CASE \E r \in Runs : /\ ckpt'[t] = conv[r] /\ Active(r)
                             /\ \A d \in requested : ~Unreported(r, d)
    BY <2>2 DEF RoundsInv, Reported
  <2> QED  BY <1>2, <2>1, <2>2 DEF Saved
<1> QED  BY <1>1, <1>2 DEF RoundsInv

\* A step that changes the conversation of one run keeps the invariant if the
\* new conversation, and the new requests, agree with it.
LEMMA RoundsNewCopy ==
    ASSUME TypeOK, RoundsInv, NEW r \in Runs, ckpt' = ckpt,
           \A s \in Runs \ {r} : Untouched(s),
           requested \subseteq requested',
           \A c \in requested' : Active(r)' => Reported(c, conv[r], ~Unreported(r, c))',
           \A c \in requested' \ requested :
              /\ \A s \in Runs \ {r} : Active(s) => /\ Cardinality(ToolMessagesFor(c, conv[s])) = 0
                                                    /\ ~InTranscript(AssistantMessage(c.run, c.round), conv[s])
              /\ \A t \in Threads : Saved(t) => /\ Cardinality(ToolMessagesFor(c, ckpt[t])) = 0
                                                /\ ~InTranscript(AssistantMessage(c.run, c.round), ckpt[t])
    PROVE  RoundsInv'
<1>1. ASSUME NEW s \in Runs \ {r}, NEW c \in requested', Active(s)'
      PROVE  Reported(c, conv[s], ~Unreported(s, c))'
  <2>1. Active(s) /\ conv'[s] = conv[s] /\ (Unreported(s, c)' <=> Unreported(s, c))
    BY <1>1 DEF Untouched, Active, Unreported, Handling
  <2>2. CASE c \in requested
    BY <2>1, <2>2 DEF RoundsInv, Reported
  <2>3. CASE c \notin requested
    BY <2>1, <2>3 DEF Reported
  <2> QED  BY <2>2, <2>3
<1>2. ASSUME NEW t \in Threads, NEW c \in requested', Saved(t)'
      PROVE  Reported(c, ckpt[t], TRUE)'
  <2>1. Saved(t)
    BY <1>2 DEF Saved
  <2>2. CASE c \in requested
    BY <2>1, <2>2 DEF RoundsInv, Reported
  <2>3. CASE c \notin requested
    BY <2>1, <2>3 DEF Reported
  <2> QED  BY <2>2, <2>3
<1> QED  BY <1>1, <1>2 DEF RoundsInv

LEMMA RoundsTurn ==
    ASSUME TypeOK, TypeOK', RequestsInv, RequestsInv', SourcesInv, RoundsInv, NEW r \in Runs,
           ModelAnswers(r) \/ ModelCallsTools(r)
    PROVE  RoundsInv'
<1> DEFINE k == conv'[r].iteration
           m == AssistantMessage(r, k)
<1>1. /\ k = conv[r].iteration + 1 /\ ckpt' = ckpt /\ pc[r] = "loop"
      /\ m \in Messages /\ conv'[r].messages = Append(conv[r].messages, m)
      /\ requested \subseteq requested'
  BY AnswerEffect, AskEffect
<1>2. \A c \in requested' \ requested : c.run = r /\ c.round = k
  BY AnswerEffect, AskEffect
<1>3. \A s \in Runs \ {r} : Untouched(s)
  BY OthersStay DEF Step
<1>4. conv[r] \in Conversations /\ conv[r].iteration \in Nat
  BY DEF TypeOK, Conversations
<1> HIDE DEF m
<1>5. \A x : InTranscript(x, conv'[r]) <=> InTranscript(x, conv[r]) \/ x = m
  BY <1>1, <1>4, SpokenIn
<1>6. m.role = "assistant"
  BY DEF AssistantMessage, m
<1>7. \A c : ToolMessagesFor(c, conv'[r]) = ToolMessagesFor(c, conv[r])
  BY <1>1, <1>4, <1>6, ReportsSpoken
<1>8. \A c : AssistantMessage(c.run, c.round) = m => c.run = r /\ c.round = k
  BY MessageKinds DEF m
<1> HIDE DEF k
<1>9. ASSUME NEW c \in requested PROVE Active(r)' => Reported(c, conv[r], ~Unreported(r, c))'
  <2>1. c.run = r => c.round <= conv[r].iteration /\ c.round \in Nat
    BY DEF RequestsInv, TypeOK, CallIds
  <2>2. ~(c.run = r /\ c.round = k)
    BY <1>1, <1>4, <2>1
  <2>3. ~Unreported(r, c) /\ ~Unreported(r, c)'
    BY <1>1, <2>2 DEF Unreported, Handling, k
  <2>4. Reported(c, conv[r], ~Unreported(r, c))
    BY <1>1 DEF RoundsInv, Active, Ended
  <2> QED  BY <1>5, <1>7, <1>8, <2>2, <2>3, <2>4 DEF Reported
<1>10. ASSUME NEW c \in requested' \ requested
       PROVE  /\ Active(r)' => Reported(c, conv[r], ~Unreported(r, c))'
              /\ \A s \in Runs : /\ Cardinality(ToolMessagesFor(c, conv[s])) = 0
                                 /\ ~InTranscript(AssistantMessage(c.run, c.round), conv[s])
              /\ \A t \in Threads : Saved(t) => /\ Cardinality(ToolMessagesFor(c, ckpt[t])) = 0
                                                /\ ~InTranscript(AssistantMessage(c.run, c.round), ckpt[t])
  <2>1. /\ ModelCallsTools(r) /\ c.run = r /\ c.round = k
    BY <1>2, AnswerEffect
  <2>2. pc'[r] = "tools" /\ next'[r] = 1
    BY <2>1, AskEffect
  <2>3. c.index \in Nat /\ c.index >= 1
    <3>1. c.index \in DOMAIN calls'[r] /\ calls'[r] \in Seq(ToolNames)
      BY <2>1, <2>2 DEF RequestsInv, Handling, TypeOK, k
    <3> QED  BY <3>1
  <2>4. Unreported(r, c)'
    BY <2>1, <2>2, <2>3 DEF Unreported, Handling, k
  <2>5. ASSUME NEW state \in Conversations, Sourced(state)
        PROVE  /\ Cardinality(ToolMessagesFor(c, state)) = 0
               /\ ~InTranscript(AssistantMessage(c.run, c.round), state)
    <3>1. k \in Nat /\ ~(k <= conv[r].iteration)
      BY <1>1, <1>4
    <3> QED  BY <2>1, <2>5, <3>1, NoReport DEF Sourced
  <2>6. \A s \in Runs : /\ Cardinality(ToolMessagesFor(c, conv[s])) = 0
                        /\ ~InTranscript(AssistantMessage(c.run, c.round), conv[s])
    BY <2>5 DEF TypeOK, SourcesInv
  <2>7. \A t \in Threads : Saved(t) => /\ Cardinality(ToolMessagesFor(c, ckpt[t])) = 0
                                       /\ ~InTranscript(AssistantMessage(c.run, c.round), ckpt[t])
    BY <2>5 DEF TypeOK, SourcesInv, Saved
  <2>8. Active(r)' => Reported(c, conv[r], ~Unreported(r, c))'
    BY <1>7, <2>4, <2>6 DEF Reported
  <2> QED  BY <2>6, <2>7, <2>8
<1> QED  BY <1>1, <1>3, <1>9, <1>10, RoundsNewCopy

LEMMA RoundsReport ==
    ASSUME TypeOK, TypeOK', GateInv, RequestsInv, SourcesInv, RoundsInv, NEW r \in Runs,
           ApproverRejects(r) \/ CallTool(r)
    PROVE  RoundsInv'
<1>1. PICK code \in Codes : ReportsOn(r, code)
  BY ReportEffect
<1> DEFINE call == CurrentCall(r)
           m == ToolMessage(call, code)
<1>2. /\ pc[r] \in {"approval", "call"}
      /\ conv'[r].iteration = conv[r].iteration /\ ckpt' = ckpt
      /\ m \in Messages /\ conv'[r].messages = Append(conv[r].messages, m)
      /\ next[r] \in DOMAIN calls[r] /\ requested' = requested /\ call \in CallIds
      /\ \/ pc'[r] = "tools" /\ next'[r] = next[r] + 1
         \/ pc'[r] = "remember" /\ next'[r] = next[r]
  BY <1>1 DEF ReportsOn
<1>3. \A s \in Runs \ {r} : Untouched(s)
  BY OthersStay DEF Step
<1>4. conv[r] \in Conversations /\ next[r] \in Nat
  BY DEF TypeOK
<1>5. \A c : InTranscript(AssistantMessage(c.run, c.round), conv'[r])
               <=> InTranscript(AssistantMessage(c.run, c.round), conv[r])
  <2>1. \A c : AssistantMessage(c.run, c.round) # m
    BY MessageKinds
  <2> HIDE DEF m
  <2> QED  BY <1>2, <1>4, <2>1, SpokenIn
<1>6. call.run = r /\ call.round = conv[r].iteration /\ call.index = next[r]
      /\ call.tool = calls[r][next[r]]
  BY DEF CurrentCall
<1>7. call.tool \in Tools
  BY <1>2 DEF GateInv, Cleared
<1>8. InTranscript(AssistantMessage(call.run, call.round), conv[r])
  BY <1>2, <1>6 DEF SourcesInv, InRound, Handling
<1>9. m.role = "tool" /\ m.call = call
  BY DEF ToolMessage
<1> HIDE DEF m, call
<1>10. ASSUME NEW c \in requested PROVE Reported(c, conv[r], ~Unreported(r, c))'
  <2>1. Reported(c, conv[r], ~Unreported(r, c))
    BY <1>2 DEF RoundsInv, Active, Ended
  <2>2. CASE c = call
    <3>1. Cardinality(ToolMessagesFor(c, conv'[r])) = Cardinality(ToolMessagesFor(c, conv[r])) + 1
      BY <1>2, <1>4, <1>9, <2>2, ReportsSpoken
    <3>2. Unreported(r, c) /\ ~Unreported(r, c)'
      BY <1>2, <1>4, <1>6, <2>2 DEF Unreported, Handling
    <3>3. Cardinality(ToolMessagesFor(c, conv[r])) = 0
      BY <2>1, <3>2 DEF Reported
    <3> QED  BY <1>5, <1>7, <1>8, <2>2, <3>1, <3>2, <3>3 DEF Reported
  <2>3. CASE c # call
    <3>1. ToolMessagesFor(c, conv'[r]) = ToolMessagesFor(c, conv[r])
      BY <1>2, <1>4, <1>9, <2>3, ReportsSpoken
    <3>2. c \in CallIds
      BY DEF TypeOK
    <3>3. ~(c.run = r /\ c.round = conv[r].iteration /\ c.index = next[r])
      <4>1. ASSUME c.run = r, c.round = conv[r].iteration, c.index = next[r]
            PROVE  c.tool = calls[r][next[r]]
        BY <1>2, <4>1 DEF RequestsInv, Handling
      <4> QED  BY <1>2, <1>6, <2>3, <3>2, <4>1 DEF CallIds
    <3>4. Unreported(r, c)' <=> Unreported(r, c)
      BY <1>2, <1>4, <3>2, <3>3 DEF Unreported, Handling, CallIds
    <3> QED  BY <1>5, <2>1, <3>1, <3>4 DEF Reported
  <2> QED  BY <2>2, <2>3
<1> QED  BY <1>2, <1>3, <1>10, RoundsNewCopy

LEMMA RoundsLoad ==
    ASSUME TypeOK, TypeOK', RoundsInv, NEW r \in Runs, NEW t \in Threads, Load(r, t)
    PROVE  RoundsInv'
<1>1. /\ pc'[r] = "loop" /\ ckpt' = ckpt /\ requested' = requested
      /\ ckpt[t] \in Conversations \cup {None} /\ conv'[r] = Resume(ckpt[t], r)
      /\ \A s \in Runs \ {r} : Untouched(s)
  BY LoadEffect
<1> DEFINE base == IF ckpt[t] = None THEN FreshConversation ELSE ckpt[t]
<1>2. FreshConversation \in Conversations /\ FreshConversation.messages = <<SystemMessage>>
  BY DEF FreshConversation, Conversations, Messages, SystemMessage
<1>3. base \in Conversations
  BY <1>1, <1>2
<1>4. UserMessage(r) \in Messages /\ UserMessage(r).role = "user"
  BY DEF UserMessage, Messages
<1>5. conv'[r].messages = Append(base.messages, UserMessage(r))
  BY <1>1, <1>3, <1>4, SayType DEF Resume
<1> HIDE DEF base
<1>6. \A c : ToolMessagesFor(c, conv'[r]) = ToolMessagesFor(c, base)
  BY <1>3, <1>4, <1>5, ReportsCounted
<1>7. \A c : /\ AssistantMessage(c.run, c.round) # UserMessage(r)
             /\ AssistantMessage(c.run, c.round) # SystemMessage
  BY MessageKinds
<1>8. \A c : InTranscript(AssistantMessage(c.run, c.round), conv'[r])
               <=> InTranscript(AssistantMessage(c.run, c.round), base)
  <2>1. PICK new : new = conv'[r]
    OBVIOUS
  <2>2. \A x : InTranscript(x, new) <=> InTranscript(x, base) \/ x = UserMessage(r)
    BY <1>3, <1>4, <1>5, <2>1, SaidIn
  <2> QED  BY <1>7, <2>1, <2>2
<1>9. ASSUME NEW c \in requested PROVE Reported(c, base, TRUE)
  <2>1. CASE ckpt[t] = None
    <3>1. SystemMessage.role = "system"
      BY DEF SystemMessage
    <3>2. ToolMessagesFor(c, base) = {}
      BY <1>2, <2>1, <3>1 DEF ToolMessagesFor, base
    <3>3. ~InTranscript(AssistantMessage(c.run, c.round), base)
      BY <1>2, <1>7, <2>1 DEF InTranscript, base
    <3> QED  BY <3>2, <3>3, FS_EmptySet DEF Reported
  <2>2. CASE ckpt[t] # None
    BY <1>1, <2>2, MarkersAssumption DEF RoundsInv, Saved, base
  <2> QED  BY <2>1, <2>2
<1>10. ASSUME NEW c \in requested PROVE Reported(c, conv[r], ~Unreported(r, c))'
  <2>1. ~Unreported(r, c)'
    BY <1>1 DEF Unreported, Handling
  <2> QED  BY <1>6, <1>8, <1>9, <2>1 DEF Reported
<1> QED  BY <1>1, <1>10, RoundsNewCopy

\* What a silent step passes over is not a registered call, or was reported.
LEMMA RoundsSilent ==
    ASSUME TypeOK, TypeOK', RequestsInv, RoundsInv, NEW r \in Runs, Silent(r)
    PROVE  RoundsInv'
<1>1. \A s \in Runs \ {r} : Untouched(s)
  BY OthersStay DEF Step, Silent
<1>2. /\ conv' = conv /\ calls' = calls /\ ckpt' = ckpt /\ requested' = requested
      /\ Active(r) /\ (Handling(r)' <=> Handling(r))
  BY SilentEffect
<1>3. ASSUME NEW c \in requested, c.tool \in Tools PROVE Unreported(r, c)' <=> Unreported(r, c)
  <2>1. c \in CallIds /\ next[r] \in Nat
    BY DEF TypeOK
  <2>2. CASE Handling(r) /\ c.run = r /\ c.round = conv[r].iteration
    <3>1. c.index = next[r] => c.tool = calls[r][next[r]]
      BY <2>2 DEF RequestsInv
    <3> QED  BY <1>2, <1>3, <2>1, <2>2, <3>1, SilentAdvance DEF Unreported, CallIds
  <2>3. CASE ~(Handling(r) /\ c.run = r /\ c.round = conv[r].iteration)
    BY <1>2, <2>3 DEF Unreported
  <2> QED  BY <2>2, <2>3
<1>4. ASSUME NEW s \in Runs \ {r}, NEW c PROVE Unreported(s, c)' <=> Unreported(s, c)
  BY <1>1 DEF Untouched, Unreported, Handling
<1>5. \A s \in Runs : Active(s)' => Active(s)
  BY <1>1, <1>2 DEF Untouched, Active
<1> QED  BY <1>2, <1>3, <1>4, <1>5, RoundsFrame

\* A round is saved after its last call was reported.
LEMMA RoundsSave ==
    ASSUME TypeOK, TypeOK', RequestsInv, RoundsInv, NEW r \in Runs, SaveRound(r) \/ SaveAnswer(r)
    PROVE  RoundsInv'
<1>1. \A s \in Runs \ {r} : Untouched(s)
  BY OthersStay DEF Step
<1>2. /\ conv' = conv /\ calls' = calls /\ requested' = requested
      /\ \/ pc[r] = "tools" /\ pc'[r] = "loop" /\ next[r] > Len(calls[r])
         \/ pc[r] = "answer" /\ pc'[r] = "return"
      /\ \A t \in Threads : ckpt'[t] \in {ckpt[t], Torn} \/ ckpt'[t] = conv[r]
  BY SaveEffect
<1>3. ASSUME NEW c \in requested PROVE ~Unreported(r, c)
  <2>1. CASE pc[r] = "tools" /\ next[r] > Len(calls[r])
    <3>1. calls[r] \in Seq(ToolNames) /\ next[r] \in Nat
      BY DEF TypeOK
    <3>2. c.run = r /\ c.round = conv[r].iteration => c.index \in DOMAIN calls[r]
      BY <2>1 DEF RequestsInv, Handling
    <3> QED  BY <2>1, <3>1, <3>2 DEF Unreported
  <2>2. CASE pc[r] = "answer"
    BY <2>2 DEF Unreported, Handling
  <2> QED  BY <1>2, <2>1, <2>2
<1>4. \A c : ~Unreported(r, c)'
  BY <1>2 DEF Unreported, Handling
<1>5. ASSUME NEW s \in Runs \ {r}, NEW c PROVE Unreported(s, c)' <=> Unreported(s, c)
  BY <1>1 DEF Untouched, Unreported, Handling
<1>6. Active(r) /\ \A s \in Runs : Active(s)' => Active(s)
  BY <1>1, <1>2 DEF Untouched, Active, Ended
<1> QED  BY <1>2, <1>3, <1>4, <1>5, <1>6, RoundsFrame

LEMMA RoundsStep ==
    ASSUME TypeOK, TypeOK', GateInv, RequestsInv, RequestsInv', SourcesInv, RoundsInv, [Next]_vars
    PROVE  RoundsInv'
<1>1. CASE UNCHANGED vars
  BY <1>1, IdleEffect, RoundsFrame DEF Active, Unreported, Handling
<1>2. CASE Crash
  <2>1. conv' = conv /\ requested' = requested /\ \A t \in Threads : ckpt'[t] \in {ckpt[t], Torn}
    BY <1>2, CrashEffect
  <2>2. \A s \in Runs : ~Active(s)'
    BY <1>2, CrashEffect DEF Active, Ended
  <2> QED  BY <2>1, <2>2, RoundsFrame
<1>3. ASSUME NEW r \in Runs, NEW t \in Threads, LoadFails(r, t) PROVE RoundsInv'
  <2>1. /\ ckpt' = ckpt /\ requested' = requested /\ ~Active(r)'
        /\ \A s \in Runs \ {r} : Untouched(s)
    BY <1>3, LoadFailsEffect DEF Active, Ended
  <2> QED  BY <2>1, RoundsNewCopy
<1>4. ASSUME NEW r \in Runs, ModelFails(r) PROVE RoundsInv'
  <2>1. ckpt' = ckpt /\ requested' = requested /\ ~Active(r)'
    BY <1>4, FailureEffect DEF Active, Ended
  <2>2. \A s \in Runs \ {r} : Untouched(s)
    BY <1>4, OthersStay DEF Step
  <2> QED  BY <2>1, <2>2, RoundsNewCopy
<1> QED  BY <1>1, <1>2, <1>3, <1>4, RoundsLoad, RoundsTurn, RoundsReport, RoundsSilent, RoundsSave,
            StepKinds DEF Next, Begin, Finished, Speaking

LEMMA RoundsKept == Spec => []RoundsInv
<1>1. Init => RoundsInv
  BY DEF Init, RoundsInv, Active, Saved
<1>2. TypeOK /\ TypeOK' /\ GateInv /\ RequestsInv /\ RequestsInv' /\ SourcesInv /\ RoundsInv
      /\ [Next]_vars => RoundsInv'
  BY RoundsStep
<1> QED  BY <1>1, <1>2, TypeCorrect, GateKept, RequestsHold, SourcesHold, PTL DEF Spec

\* A checkpoint holds exactly one report of each call of a registered tool
\* that the model asked for in a round it holds, and no other report: a round
\* is saved whole or not at all, whatever rejections, unknown tools, lost saves
\* and crashes come between its calls (graph.go:194-362).
THEOREM RoundsWhole == Spec => []RoundsSavedWhole
<1>1. RoundsInv => RoundsSavedWhole
  BY DEF RoundsInv, RoundsSavedWhole, Reported
<1> QED  BY <1>1, RoundsKept, PTL

-----------------------------------------------------------------------------
(* The transcripts tell the truth.  A call that was executed has its report *)
(* in the copy of its run, so it is not rejected later.                     *)

TellsTruth(state) ==
    \A c \in CallIds, code \in Codes : InTranscript(ToolMessage(c, code), state) =>
        /\ code \in {"ok", "serialization_error"} => c \in executed
        /\ code = "hitl_rejected" => c \notin executed
ReportsInv ==
    /\ \A r \in Runs : TellsTruth(conv[r])
    /\ \A t \in Threads : Saved(t) => TellsTruth(ckpt[t])
    /\ \A c \in executed : pc[c.run] # "idle"
         /\ \E code \in Codes : InTranscript(ToolMessage(c, code), conv[c.run])

\* A tool message of a conversation says of its call what the message says.
LEMMA TruthfulMessages ==
    ASSUME NEW state \in Conversations, TellsTruth(state)
    PROVE  TruthfulConversation(state)
<1>1. ASSUME NEW i \in DOMAIN state.messages, state.messages[i].role = "tool"
      PROVE  Truthful(state.messages[i])
  <2> DEFINE c == state.messages[i].call
  <2>1. i \in ToolMessagesFor(c, state)
    BY <1>1 DEF ToolMessagesFor
  <2>2. c \in CallIds /\ \E code \in Codes : state.messages[i] = ToolMessage(c, code)
    BY <2>1, ReportIn
  <2>3. PICK code \in Codes : state.messages[i] = ToolMessage(c, code)
    BY <2>2
  <2>4. InTranscript(ToolMessage(c, code), state)
    BY <2>3 DEF InTranscript
  <2>5. state.messages[i].code = code
    BY <2>3 DEF ToolMessage
  <2> QED  BY <2>2, <2>4, <2>5 DEF TellsTruth, Truthful
<1> QED  BY <1>1 DEF TruthfulConversation, Truthful

\* A report of a call counts as one of its tool messages.
LEMMA ReportCounts ==
    ASSUME NEW state \in Conversations, NEW c, NEW code, InTranscript(ToolMessage(c, code), state)
    PROVE  Cardinality(ToolMessagesFor(c, state)) # 0
<1>1. PICK i \in DOMAIN state.messages : state.messages[i] = ToolMessage(c, code)
  BY DEF InTranscript
<1>2. i \in ToolMessagesFor(c, state)
  BY <1>1 DEF ToolMessagesFor, ToolMessage
<1> QED  BY <1>2, ReportIn, FS_EmptySet

\* No copy holds a report of a call that waits for its approver or its tool.
LEMMA NoReportYet ==
    ASSUME TypeOK, RequestsInv, SourcesInv, RoundsInv, NEW r \in Runs, pc[r] \in {"approval", "call"}
    PROVE  /\ \A s \in Runs, code \in Codes :
                ~InTranscript(ToolMessage(CurrentCall(r), code), conv[s])
           /\ \A t \in Threads, code \in Codes : Saved(t) =>
                ~InTranscript(ToolMessage(CurrentCall(r), code), ckpt[t])
<1> DEFINE c == CurrentCall(r)
<1>1. next[r] \in DOMAIN calls[r] /\ next[r] \in Nat
  BY DEF TypeOK
<1>2. c \in CallIds /\ c.run = r /\ c.round = conv[r].iteration /\ c.index = next[r]
  BY <1>1, CurrentCallType DEF CurrentCall
<1>3. c \in requested
  BY <1>1 DEF RequestsInv, CallOf, CurrentCall, Handling
<1> HIDE DEF c
<1>4. \A code \in Codes : ~InTranscript(ToolMessage(c, code), conv[r])
  <2>1. Unreported(r, c)
    BY <1>1, <1>2 DEF Unreported, Handling
  <2>2. Cardinality(ToolMessagesFor(c, conv[r])) = 0
    BY <1>3, <2>1 DEF RoundsInv, Reported, Active, Ended
  <2> QED  BY <2>2, ReportCounts DEF TypeOK
<1>5. \A s \in Runs \ {r}, code \in Codes : ~InTranscript(ToolMessage(c, code), conv[s])
  BY <1>2 DEF SourcesInv, Sourced, Private, InRound, Handling
<1>6. \A t \in Threads, code \in Codes : Saved(t) => ~InTranscript(ToolMessage(c, code), ckpt[t])
  BY <1>2 DEF SourcesInv, Sourced, Private, InRound, Handling
<1> QED  BY <1>4, <1>5, <1>6 DEF c

\* A step that executes nothing keeps the truth of what it leaves alone.
LEMMA TruthStays ==
    ASSUME NEW state, TellsTruth(state), executed' = executed
    PROVE  TellsTruth(state)'
  BY DEF TellsTruth

\* What was executed stays reported.
LEMMA ExecutedReported ==
    ASSUME TypeOK, TypeOK', ReportsInv, [Next]_vars, NEW c \in executed
    PROVE  pc'[c.run] # "idle" /\ \E code \in Codes : InTranscript(ToolMessage(c, code), conv'[c.run])
<1>1. c.run \in Runs
  BY DEF TypeOK, CallIds
<1> QED  BY <1>1, RunsGoOn DEF ReportsInv

\* The steps that report nothing: each copy is an older one with a message
\* that is no report.
LEMMA ReportsFrame ==
    ASSUME TypeOK, TypeOK', ReportsInv, [Next]_vars, executed' = executed,
           \A r \in Runs : \A c \in CallIds, code \in Codes :
              InTranscript(ToolMessage(c, code), conv'[r]) =>
                 \/ InTranscript(ToolMessage(c, code), conv[r])
                 \/ \E t \in Threads : Saved(t) /\ InTranscript(ToolMessage(c, code), ckpt[t]),
           \A t \in Threads : ckpt'[t] \in {ckpt[t], Torn} \/ \E r \in Runs : ckpt'[t] = conv[r]
    PROVE  ReportsInv'
<1>1. \A r \in Runs : TellsTruth(conv[r])'
  BY DEF ReportsInv, TellsTruth
<1>2. \A t \in Threads : Saved(t)' => TellsTruth(ckpt[t])'
  <2>1. ASSUME NEW t \in Threads, Saved(t)' PROVE TellsTruth(ckpt[t])'
    <3>1. CASE ckpt'[t] = ckpt[t]
      BY <2>1, <3>1 DEF ReportsInv, TellsTruth, Saved
    <3>2. CASE \E r \in Runs : ckpt'[t] = conv[r]
      BY <3>2 DEF ReportsInv, TellsTruth
    <3> QED  BY <2>1, <3>1, <3>2 DEF Saved
  <2> QED  BY <2>1
<1> QED  BY <1>1, <1>2, ExecutedReported DEF ReportsInv

LEMMA ReportsReport ==
    ASSUME TypeOK, TypeOK', RequestsInv, SourcesInv, RoundsInv, ReportsInv, [Next]_vars,
           NEW r \in Runs, ApproverRejects(r) \/ CallTool(r)
    PROVE  ReportsInv'
<1>1. PICK code \in Codes : ReportsOn(r, code)
  BY ReportEffect
<1> DEFINE call == CurrentCall(r)
           m == ToolMessage(call, code)
<1>2. /\ pc[r] \in {"approval", "call"} /\ pc'[r] # "idle"
      /\ conv'[r].iteration = conv[r].iteration /\ ckpt' = ckpt
      /\ m \in Messages /\ conv'[r].messages = Append(conv[r].messages, m)
      /\ call \in CallIds
      /\ executed' \in {executed, executed \cup {call}}
      /\ code \in {"ok", "serialization_error"} => call \in executed'
      /\ code = "hitl_rejected" => executed' = executed
  BY <1>1 DEF ReportsOn
<1>3. \A s \in Runs \ {r} : Untouched(s)
  BY OthersStay DEF Step
<1>4. \A x : InTranscript(x, conv'[r]) <=> InTranscript(x, conv[r]) \/ x = m
  <2> HIDE DEF m
  <2> QED  BY <1>2, SpokenIn
<1>5. /\ \A s \in Runs, x \in Codes : ~InTranscript(ToolMessage(call, x), conv[s])
      /\ \A t \in Threads, x \in Codes : Saved(t) => ~InTranscript(ToolMessage(call, x), ckpt[t])
  BY <1>2, NoReportYet
<1>6. call.run = r
  BY DEF CurrentCall
<1>7. \A c, x : ToolMessage(c, x) = m => c = call /\ x = code
  BY MessageKinds
<1> HIDE DEF m, call
<1>8. call \notin executed
  BY <1>5, <1>6 DEF ReportsInv
<1>9. ASSUME NEW state, TellsTruth(state), \A x \in Codes : ~InTranscript(ToolMessage(call, x), state)
      PROVE  \A c \in CallIds, x \in Codes : InTranscript(ToolMessage(c, x), state) =>
               /\ x \in {"ok", "serialization_error"} => c \in executed'
               /\ x = "hitl_rejected" => c \notin executed'
  BY <1>2, <1>9 DEF TellsTruth
<1>10. \A s \in Runs \ {r} : TellsTruth(conv[s])'
  BY <1>3, <1>5, <1>9 DEF ReportsInv, TellsTruth, Untouched
<1>11. \A t \in Threads : Saved(t)' => TellsTruth(ckpt[t])'
  BY <1>2, <1>5, <1>9 DEF ReportsInv, TellsTruth, Saved
<1>12. TellsTruth(conv[r])'
  BY <1>2, <1>4, <1>5, <1>7, <1>8, <1>9 DEF ReportsInv, TellsTruth
<1>13. \A c \in executed' : pc'[c.run] # "idle"
         /\ \E x \in Codes : InTranscript(ToolMessage(c, x), conv'[c.run])
  <2>1. InTranscript(ToolMessage(call, code), conv'[r])
    BY <1>4 DEF m
  <2> QED  BY <1>2, <1>6, <2>1, ExecutedReported
<1> QED  BY <1>10, <1>11, <1>12, <1>13 DEF ReportsInv

LEMMA ReportsStep ==
    ASSUME TypeOK, TypeOK', RequestsInv, SourcesInv, RoundsInv, ReportsInv, [Next]_vars
    PROVE  ReportsInv'
<1>1. CASE UNCHANGED vars
  BY <1>1, IdleEffect, ReportsFrame
<1>2. CASE Crash
  BY <1>2, CrashEffect, ReportsFrame
<1>3. ASSUME NEW r \in Runs, NEW t \in Threads, LoadFails(r, t) PROVE ReportsInv'
  BY <1>3, LoadFailsEffect, ReportsFrame
<1>4. ASSUME NEW r \in Runs, NEW t \in Threads, Load(r, t) PROVE ReportsInv'
  <2>1. /\ ckpt' = ckpt /\ executed' = executed /\ \A s \in Runs \ {r} : Untouched(s)
        /\ ckpt[t] \in Conversations \cup {None} /\ conv'[r] = Resume(ckpt[t], r)
    BY <1>4, LoadEffect
  <2>2. \A c, code : ToolMessage(c, code) # UserMessage(r) /\ ToolMessage(c, code) # SystemMessage
    BY MessageKinds
  <2>3. \A c, code : InTranscript(ToolMessage(c, code), conv'[r]) =>
          Saved(t) /\ InTranscript(ToolMessage(c, code), ckpt[t])
    BY <2>1, <2>2, ResumedIn, MarkersAssumption DEF Saved
  <2> QED  BY <2>1, <2>3, ReportsFrame DEF Untouched
<1>5. ASSUME NEW r \in Runs, Step(r) PROVE ReportsInv'
  <2>1. \A s \in Runs \ {r} : conv'[s] = conv[s]
    BY <1>5, OthersStay DEF Untouched
  <2>2. CASE Silent(r)
    BY <2>2, SilentEffect, ReportsFrame
  <2>3. CASE ModelFails(r)
    <3>1. conv'[r].messages = conv[r].messages /\ ckpt' = ckpt /\ executed' = executed
      BY <2>3, FailureEffect
    <3>2. \A x : InTranscript(x, conv'[r]) <=> InTranscript(x, conv[r])
      BY <3>1 DEF InTranscript
    <3> QED  BY <2>1, <3>1, <3>2, ReportsFrame
  <2>4. CASE ModelAnswers(r) \/ ModelCallsTools(r)
    <3> DEFINE m == AssistantMessage(r, conv'[r].iteration)
    <3>1. /\ m \in Messages /\ conv'[r].messages = Append(conv[r].messages, m)
          /\ ckpt' = ckpt /\ executed' = executed
      BY <2>4, AnswerEffect, AskEffect
    <3>2. \A c, code : ToolMessage(c, code) # m
      BY MessageKinds
    <3> HIDE DEF m
    <3>3. \A c, code : InTranscript(ToolMessage(c, code), conv'[r])
                         <=> InTranscript(ToolMessage(c, code), conv[r])
      BY <3>1, <3>2, SpokenIn
    <3> QED  BY <2>1, <3>1, <3>3, ReportsFrame
  <2>5. CASE SaveRound(r) \/ SaveAnswer(r)
    BY <2>5, SaveEffect, ReportsFrame
  <2> QED  BY <1>5, <2>2, <2>3, <2>4, <2>5, ReportsReport, StepKinds DEF Speaking
<1> QED  BY <1>1, <1>2, <1>3, <1>4, <1>5 DEF Next, Begin, Finished

LEMMA ReportsKept == Spec => []ReportsInv
<1>1. Init => ReportsInv
  <2>1. ASSUME Init, NEW r \in Runs PROVE TellsTruth(conv[r])
    <3>1. \A x : InTranscript(x, conv[r]) => x = SystemMessage
      BY <2>1 DEF Init, FreshConversation, InTranscript
    <3>2. \A c, code : ToolMessage(c, code) # SystemMessage
      BY MessageKinds
    <3> QED  BY <3>1, <3>2 DEF TellsTruth
  <2>2. Init => executed = {} /\ \A t \in Threads : ~Saved(t)
    BY DEF Init, Saved
  <2> QED  BY <2>1, <2>2 DEF ReportsInv
<1>2. TypeOK /\ TypeOK' /\ RequestsInv /\ SourcesInv /\ RoundsInv /\ ReportsInv /\ [Next]_vars
        => ReportsInv'
  BY ReportsStep
<1> QED  BY <1>1, <1>2, TypeCorrect, RequestsHold, SourcesHold, RoundsKept, PTL DEF Spec

\* What any conversation or checkpoint tells the model about a tool call is
\* what happened: a call reported to have succeeded was made, a call reported
\* as rejected never was and never will be (graph.go:264-271, 336-353).
THEOREM TranscriptsTellTruth == Spec => []TranscriptTruthful
<1>1. TypeOK /\ ReportsInv => TranscriptTruthful
  BY TruthfulMessages DEF TypeOK, ReportsInv, TranscriptTruthful, Saved
<1> QED  BY <1>1, TypeCorrect, ReportsKept, PTL

-----------------------------------------------------------------------------
(* The budget.  A model call that fails is charged to the run's own copy,   *)
(* which ends with it, so only active runs count their turns exactly.       *)

BudgetInv ==
    /\ \A r \in Runs : Active(r) =>
         conv[r].iteration = AssistantTurns(conv[r]) /\ conv[r].iteration <= MaxIterations
    /\ BudgetMatchesTranscript

\* An assistant message adds a turn, and no other message does.
LEMMA TurnsCounted ==
    ASSUME NEW state \in Conversations, NEW m \in Messages, NEW new,
           new.messages = Append(state.messages, m)
    PROVE  /\ m.role = "assistant" => AssistantTurns(new) = AssistantTurns(state) + 1
           /\ m.role # "assistant" => AssistantTurns(new) = AssistantTurns(state)
<1> DEFINE n == Len(state.messages) + 1
           old == {i \in DOMAIN state.messages : state.messages[i].role = "assistant"}
           now == {i \in DOMAIN new.messages : new.messages[i].role = "assistant"}
<1>1. state.messages \in Seq(Messages) /\ n \in Nat
  BY DEF Conversations
<1>2. /\ DOMAIN new.messages = DOMAIN state.messages \cup {n} /\ n \notin DOMAIN state.messages
      /\ \A i \in DOMAIN state.messages : new.messages[i] = state.messages[i]
      /\ new.messages[n] = m
  BY <1>1
<1>3. IsFiniteSet(old)
  <2>1. old \subseteq 1..Len(state.messages) /\ Len(state.messages) \in Nat
    BY <1>1
  <2>2. IsFiniteSet(1..Len(state.messages))
    BY <2>1, FS_Interval
  <2> HIDE DEF old
  <2> QED  BY <2>1, <2>2, FS_Subset
<1> HIDE DEF n
<1>4. m.role = "assistant" => now = old \cup {n}
  BY <1>2
<1>5. m.role # "assistant" => now = old
  BY <1>2
<1>6. n \notin old
  BY <1>2
<1>7. AssistantTurns(new) = Cardinality(now) /\ AssistantTurns(state) = Cardinality(old)
  BY DEF AssistantTurns
<1> HIDE DEF old, now
<1> QED  BY <1>3, <1>4, <1>5, <1>6, <1>7, FS_AddElement

\* What a run starts from has the turns of the checkpoint.
LEMMA TurnsResumed ==
    ASSUME NEW saved \in Conversations \cup {None}, NEW r \in Runs, NEW new,
           new = Resume(saved, r)
    PROVE  AssistantTurns(new) = IF saved = None THEN 0 ELSE AssistantTurns(saved)
<1> DEFINE base == IF saved = None THEN FreshConversation ELSE saved
<1>1. FreshConversation \in Conversations /\ FreshConversation.messages = <<SystemMessage>>
  BY DEF FreshConversation, Conversations, Messages, SystemMessage
<1>2. base \in Conversations
  BY <1>1
<1>3. UserMessage(r) \in Messages /\ UserMessage(r).role = "user"
  BY DEF UserMessage, Messages
<1>4. new.messages = Append(base.messages, UserMessage(r))
  BY <1>2, <1>3, SayType DEF Resume
<1>5. AssistantTurns(FreshConversation) = 0
  <2>1. {i \in DOMAIN FreshConversation.messages :
           FreshConversation.messages[i].role = "assistant"} = {}
    BY <1>1 DEF SystemMessage
  <2> QED  BY <2>1, FS_EmptySet DEF AssistantTurns
<1> HIDE DEF base
<1>6. AssistantTurns(new) = AssistantTurns(base)
  BY <1>2, <1>3, <1>4, TurnsCounted
<1> QED  BY <1>5, <1>6 DEF base

\* A step that adds no turn to an active run keeps the invariant.
LEMMA BudgetFrame ==
    ASSUME TypeOK, BudgetInv,
           \A s \in Runs : Active(s)' =>
              /\ conv'[s].iteration = AssistantTurns(conv'[s])
              /\ conv'[s].iteration <= MaxIterations,
           \A t \in Threads :
              ckpt'[t] \in {ckpt[t], Torn} \/ \E r \in Runs : ckpt'[t] = conv[r] /\ Active(r)
    PROVE  BudgetInv'
<1>1. ASSUME NEW t \in Threads, Saved(t)'
      PROVE  ckpt'[t].iteration = AssistantTurns(ckpt'[t]) /\ ckpt'[t].iteration <= MaxIterations
  BY <1>1 DEF BudgetInv, BudgetMatchesTranscript, Saved
<1> QED  BY <1>1 DEF BudgetInv, BudgetMatchesTranscript

LEMMA BudgetStep ==
    ASSUME TypeOK, TypeOK', BudgetInv, [Next]_vars
    PROVE  BudgetInv'
<1>0. \A s \in Runs : Active(s) =>
        conv[s].iteration = AssistantTurns(conv[s]) /\ conv[s].iteration <= MaxIterations
  BY DEF BudgetInv
<1>1. CASE UNCHANGED vars
  BY <1>0, <1>1, IdleEffect, BudgetFrame DEF Active
<1>2. CASE Crash
  <2>1. \A s \in Runs : ~Active(s)'
    BY <1>2, CrashEffect DEF Active, Ended
  <2> QED  BY <1>2, <2>1, CrashEffect, BudgetFrame
<1>3. ASSUME NEW r \in Runs, NEW t \in Threads, LoadFails(r, t) PROVE BudgetInv'
  BY <1>0, <1>3, LoadFailsEffect, BudgetFrame DEF Active, Ended, Untouched
<1>4. ASSUME NEW r \in Runs, NEW t \in Threads, Load(r, t) PROVE BudgetInv'
  <2>1. /\ ckpt' = ckpt /\ \A s \in Runs \ {r} : Untouched(s)
        /\ ckpt[t] \in Conversations \cup {None} /\ conv'[r] = Resume(ckpt[t], r)
    BY <1>4, LoadEffect
  <2>2. /\ AssistantTurns(conv'[r]) = IF ckpt[t] = None THEN 0 ELSE AssistantTurns(ckpt[t])
        /\ conv'[r].iteration = IF ckpt[t] = None THEN 0 ELSE ckpt[t].iteration
    BY <2>1, TurnsResumed, ResumedIn
  <2>3. ckpt[t] # None => Saved(t)
    BY <2>1, MarkersAssumption DEF Saved
  <2>4. conv'[r].iteration = AssistantTurns(conv'[r]) /\ conv'[r].iteration <= MaxIterations
    BY <2>2, <2>3, BudgetAssumption DEF BudgetInv, BudgetMatchesTranscript
  <2> QED  BY <1>0, <2>1, <2>4, BudgetFrame DEF Untouched, Active
<1>5. ASSUME NEW r \in Runs, Step(r) PROVE BudgetInv'
  <2>1. \A s \in Runs \ {r} : Untouched(s)
    BY <1>5, OthersStay
  <2>2. CASE Silent(r)
    <3>1. conv' = conv /\ ckpt' = ckpt /\ Active(r)
      BY <2>2, SilentEffect
    <3> QED  BY <1>0, <2>1, <3>1, BudgetFrame DEF Untouched, Active
  <2>3. CASE ModelFails(r)
    <3>1. ckpt' = ckpt /\ ~Active(r)'
      BY <2>3, FailureEffect DEF Active, Ended
    <3> QED  BY <1>0, <2>1, <3>1, BudgetFrame DEF Untouched, Active
  <2>4. CASE ModelAnswers(r) \/ ModelCallsTools(r)
    <3> DEFINE m == AssistantMessage(r, conv'[r].iteration)
    <3>1. /\ m \in Messages /\ conv'[r].messages = Append(conv[r].messages, m)
          /\ ckpt' = ckpt /\ pc[r] = "loop" /\ conv[r].iteration < MaxIterations
          /\ conv'[r].iteration = conv[r].iteration + 1
      BY <2>4, AnswerEffect, AskEffect
    <3>2. m.role = "assistant" /\ conv[r] \in Conversations /\ conv[r].iteration \in Nat
      BY DEF AssistantMessage, TypeOK, Conversations
    <3> HIDE DEF m
    <3>3. AssistantTurns(conv'[r]) = AssistantTurns(conv[r]) + 1
      BY <3>1, <3>2, TurnsCounted
    <3>4. Active(r)
      BY <3>1 DEF Active, Ended
    <3>5. conv'[r].iteration = AssistantTurns(conv'[r]) /\ conv'[r].iteration <= MaxIterations
      BY <1>0, <3>1, <3>2, <3>3, <3>4, BudgetAssumption
    <3> QED  BY <1>0, <2>1, <3>1, <3>5, BudgetFrame DEF Untouched, Active
  <2>5. CASE ApproverRejects(r) \/ CallTool(r)
    <3>1. PICK code \in Codes : ReportsOn(r, code)
      BY <2>5, ReportEffect
    <3> DEFINE m == ToolMessage(CurrentCall(r), code)
    <3>2. /\ m \in Messages /\ conv'[r].messages = Append(conv[r].messages, m)
          /\ ckpt' = ckpt /\ pc[r] \in {"approval", "call"}
          /\ conv'[r].iteration = conv[r].iteration
      BY <3>1 DEF ReportsOn
    <3>3. m.role # "assistant" /\ conv[r] \in Conversations
      BY DEF ToolMessage, TypeOK
    <3> HIDE DEF m
    <3>4. AssistantTurns(conv'[r]) = AssistantTurns(conv[r])
      BY <3>2, <3>3, TurnsCounted
    <3>5. Active(r)
      BY <3>2 DEF Active, Ended
    <3> QED  BY <1>0, <2>1, <3>2, <3>4, <3>5, BudgetFrame DEF Untouched, Active
  <2>6. CASE SaveRound(r) \/ SaveAnswer(r)
    <3>1. /\ conv' = conv /\ Active(r)
          /\ \A t \in Threads : ckpt'[t] \in {ckpt[t], Torn} \/ ckpt'[t] = conv[r]
      BY <2>6, SaveEffect DEF Active, Ended
    <3> QED  BY <1>0, <2>1, <3>1, BudgetFrame DEF Untouched, Active
  <2> QED  BY <1>5, <2>2, <2>3, <2>4, <2>5, <2>6, StepKinds DEF Speaking
<1> QED  BY <1>1, <1>2, <1>3, <1>4, <1>5 DEF Next, Begin, Finished

\* The iterations a checkpoint has spent are the assistant turns it holds, and
\* never more than the bound: no run resets the budget of its thread, and a
\* failed model call or a lost save charges it nothing (graph.go:122-124, 161,
\* 183).
THEOREM BudgetMatches == Spec => []BudgetMatchesTranscript
<1>1. Init => BudgetInv
  BY DEF Init, BudgetInv, BudgetMatchesTranscript, Active, Saved
<1>2. TypeOK /\ TypeOK' /\ BudgetInv /\ [Next]_vars => BudgetInv'
  BY BudgetStep
<1>3. BudgetInv => BudgetMatchesTranscript
  BY DEF BudgetInv
<1> QED  BY <1>1, <1>2, <1>3, TypeCorrect, PTL DEF Spec

-----------------------------------------------------------------------------
(* Inputs are saved with a turn of the model that heard them.              *)

HeardIn(r, state) ==
    InTranscript(UserMessage(r), state) <=> \E k \in Nat : InTranscript(AssistantMessage(r, k), state)
InputsInv ==
    /\ \A r \in Runs : Active(r) =>
         /\ InTranscript(UserMessage(r), conv[r])
         /\ \A s \in Runs \ {r} : HeardIn(s, conv[r])
    /\ \A t \in Threads : Saved(t) => \A r \in Runs : HeardIn(r, ckpt[t])

\* The turns of a run in a conversation are the assistant messages it said.
LEMMA TurnsSaid ==
    ASSUME NEW state \in Conversations, NEW r \in Runs
    PROVE  TurnsOf(r, state) # {} <=> \E k \in Nat : InTranscript(AssistantMessage(r, k), state)
<1>1. state.messages \in Seq(Messages)
  BY DEF Conversations
<1>2. ASSUME NEW i \in TurnsOf(r, state)
      PROVE  \E k \in Nat : InTranscript(AssistantMessage(r, k), state)
  <2>1. i \in DOMAIN state.messages /\ state.messages[i].role = "assistant"
        /\ state.messages[i].run = r
    BY DEF TurnsOf
  <2>2. state.messages[i] \in Messages
    BY <1>1, <2>1
  <2>3. state.messages[i] \in [role : {"assistant"}, run : Runs, round : Nat]
    BY <2>1, <2>2 DEF Messages, SystemMessage
  <2>4. state.messages[i].round \in Nat
        /\ state.messages[i] = AssistantMessage(r, state.messages[i].round)
    BY <2>1, <2>3 DEF AssistantMessage
  <2> QED  BY <2>1, <2>4 DEF InTranscript
<1>3. ASSUME NEW k \in Nat, InTranscript(AssistantMessage(r, k), state)
      PROVE  TurnsOf(r, state) # {}
  <2>1. PICK i \in DOMAIN state.messages : state.messages[i] = AssistantMessage(r, k)
    BY <1>3 DEF InTranscript
  <2>2. i \in TurnsOf(r, state)
    BY <2>1 DEF TurnsOf, AssistantMessage
  <2> QED  BY <2>2
<1> QED  BY <1>2, <1>3

\* A step keeps the invariant if what it leaves in the copies of active runs
\* agrees with it, and it saves what the model has heard.
LEMMA InputsFrame ==
    ASSUME TypeOK, InputsInv,
           \A r \in Runs : Active(r)' =>
              /\ InTranscript(UserMessage(r), conv'[r])
              /\ \A s \in Runs \ {r} : HeardIn(s, conv'[r]),
           \A t \in Threads :
              \/ ckpt'[t] \in {ckpt[t], Torn}
              \/ \E r \in Runs : /\ ckpt'[t] = conv[r] /\ Active(r)
                                 /\ \E k \in Nat : InTranscript(AssistantMessage(r, k), conv[r])
    PROVE  InputsInv'
<1>1. ASSUME NEW t \in Threads, Saved(t)' PROVE \A r \in Runs : HeardIn(r, ckpt'[t])
  <2>1. CASE ckpt'[t] = ckpt[t]
    BY <1>1, <2>1 DEF InputsInv, Saved
  <2>2. CASE \E r \in Runs : /\ ckpt'[t] = conv[r] /\ Active(r)
                             /\ \E k \in Nat : InTranscript(AssistantMessage(r, k), conv[r])
    BY <2>2 DEF InputsInv, HeardIn
  <2> QED  BY <1>1, <2>1, <2>2 DEF Saved
<1> QED  BY <1>1 DEF InputsInv

\* What a run says itself changes nothing about the inputs of other runs.
LEMMA InputsSpeak ==
    ASSUME TypeOK, InputsInv, NEW r \in Runs, NEW m \in Messages, Active(r),
           conv'[r].messages = Append(conv[r].messages, m),
           \A s : UserMessage(s) # m, \A s \in Runs \ {r} : \A k : AssistantMessage(s, k) # m
    PROVE  /\ InTranscript(UserMessage(r), conv'[r])
           /\ \A s \in Runs \ {r} : HeardIn(s, conv'[r])
<1>1. conv[r] \in Conversations
  BY DEF TypeOK
<1>2. \A x : InTranscript(x, conv'[r]) <=> InTranscript(x, conv[r]) \/ x = m
  BY <1>1, SpokenIn
<1> QED  BY <1>2 DEF InputsInv, HeardIn

LEMMA InputsStep ==
    ASSUME TypeOK, TypeOK', SourcesInv, InputsInv, [Next]_vars
    PROVE  InputsInv'
<1>0. \A r \in Runs : Active(r) =>
        /\ InTranscript(UserMessage(r), conv[r])
        /\ \A s \in Runs \ {r} : HeardIn(s, conv[r])
  BY DEF InputsInv
<1>1. CASE UNCHANGED vars
  BY <1>0, <1>1, IdleEffect, InputsFrame DEF Active
<1>2. CASE Crash
  <2>1. \A s \in Runs : ~Active(s)'
    BY <1>2, CrashEffect DEF Active, Ended
  <2> QED  BY <1>2, <2>1, CrashEffect, InputsFrame
<1>3. ASSUME NEW r \in Runs, NEW t \in Threads, LoadFails(r, t) PROVE InputsInv'
  BY <1>0, <1>3, LoadFailsEffect, InputsFrame DEF Active, Ended, Untouched
<1>4. ASSUME NEW r \in Runs, NEW t \in Threads, Load(r, t) PROVE InputsInv'
  <2>1. /\ ckpt' = ckpt /\ \A s \in Runs \ {r} : Untouched(s)
        /\ ckpt[t] \in Conversations \cup {None} /\ conv'[r] = Resume(ckpt[t], r)
    BY <1>4, LoadEffect
  <2>2. \A x : InTranscript(x, conv'[r]) <=> \/ x = UserMessage(r)
                                             \/ ckpt[t] = None /\ x = SystemMessage
                                             \/ ckpt[t] # None /\ InTranscript(x, ckpt[t])
    BY <2>1, ResumedIn
  <2>3. ckpt[t] # None => Saved(t)
    BY <2>1, MarkersAssumption DEF Saved
  <2>4. \A s, k : /\ UserMessage(s) = UserMessage(r) => s = r
                  /\ UserMessage(s) # SystemMessage /\ AssistantMessage(s, k) # SystemMessage
                  /\ AssistantMessage(s, k) # UserMessage(r)
    BY MessageKinds
  <2>5. ASSUME NEW s \in Runs \ {r} PROVE HeardIn(s, conv'[r])
    BY <2>2, <2>3, <2>4 DEF InputsInv, HeardIn
  <2> QED  BY <1>0, <2>1, <2>2, <2>5, InputsFrame DEF Untouched, Active
<1>5. ASSUME NEW r \in Runs, Step(r) PROVE InputsInv'
  <2>1. \A s \in Runs \ {r} : Untouched(s)
    BY <1>5, OthersStay
  <2>2. CASE Silent(r)
    <3>1. conv' = conv /\ ckpt' = ckpt /\ Active(r)
      BY <2>2, SilentEffect
    <3> QED  BY <1>0, <2>1, <3>1, InputsFrame DEF Untouched, Active
  <2>3. CASE ModelFails(r)
    <3>1. ckpt' = ckpt /\ ~Active(r)'
      BY <2>3, FailureEffect DEF Active, Ended
    <3> QED  BY <1>0, <2>1, <3>1, InputsFrame DEF Untouched, Active
  <2>4. CASE ModelAnswers(r) \/ ModelCallsTools(r)
    <3> DEFINE m == AssistantMessage(r, conv'[r].iteration)
    <3>1. /\ m \in Messages /\ conv'[r].messages = Append(conv[r].messages, m)
          /\ ckpt' = ckpt /\ pc[r] = "loop"
      BY <2>4, AnswerEffect, AskEffect
    <3>2. (\A s : UserMessage(s) # m) /\ \A s \in Runs \ {r} : \A k : AssistantMessage(s, k) # m
      BY MessageKinds
    <3>3. Active(r)
      BY <3>1 DEF Active, Ended
    <3> HIDE DEF m
    <3>4. InTranscript(UserMessage(r), conv'[r]) /\ \A s \in Runs \ {r} : HeardIn(s, conv'[r])
      BY <3>1, <3>2, <3>3, InputsSpeak
    <3> QED  BY <1>0, <2>1, <3>1, <3>4, InputsFrame DEF Untouched, Active
  <2>5. CASE ApproverRejects(r) \/ CallTool(r)
    <3>1. PICK code \in Codes : ReportsOn(r, code)
      BY <2>5, ReportEffect
    <3> DEFINE m == ToolMessage(CurrentCall(r), code)
    <3>2. /\ m \in Messages /\ conv'[r].messages = Append(conv[r].messages, m)
          /\ ckpt' = ckpt /\ pc[r] \in {"approval", "call"}
      BY <3>1 DEF ReportsOn
    <3>3. (\A s : UserMessage(s) # m) /\ \A s \in Runs \ {r} : \A k : AssistantMessage(s, k) # m
      BY MessageKinds
    <3>4. Active(r)
      BY <3>2 DEF Active, Ended
    <3> HIDE DEF m
    <3>5. InTranscript(UserMessage(r), conv'[r]) /\ \A s \in Runs \ {r} : HeardIn(s, conv'[r])
      BY <3>2, <3>3, <3>4, InputsSpeak
    <3> QED  BY <1>0, <2>1, <3>2, <3>5, InputsFrame DEF Untouched, Active
  <2>6. CASE SaveRound(r) \/ SaveAnswer(r)
    <3>1. /\ conv' = conv /\ pc[r] \in {"tools", "answer"}
          /\ \A t \in Threads : ckpt'[t] \in {ckpt[t], Torn} \/ ckpt'[t] = conv[r]
      BY <2>6, SaveEffect
    <3>2. Active(r) /\ InRound(r)
      BY <3>1 DEF Active, Ended, InRound, Handling
    <3>3. \E k \in Nat : InTranscript(AssistantMessage(r, k), conv[r])
      BY <3>2 DEF SourcesInv, TypeOK, Conversations
    <3> QED  BY <1>0, <2>1, <3>1, <3>2, <3>3, InputsFrame DEF Untouched, Active
  <2> QED  BY <1>5, <2>2, <2>3, <2>4, <2>5, <2>6, StepKinds DEF Speaking
<1> QED  BY <1>1, <1>2, <1>3, <1>4, <1>5 DEF Next, Begin, Finished

LEMMA InputsKept == Spec => []InputsInv
<1>1. Init => InputsInv
  BY DEF Init, InputsInv, Active, Saved
<1>2. TypeOK /\ TypeOK' /\ SourcesInv /\ InputsInv /\ [Next]_vars => InputsInv'
  BY InputsStep
<1> QED  BY <1>1, <1>2, TypeCorrect, SourcesHold, PTL DEF Spec

-----------------------------------------------------------------------------
(* What is durable.  The work of a run up to the round under way is in the  *)
(* checkpoint of its thread, and in the copy of whatever run goes on from   *)
(* there, which will replace the checkpoint.                                *)

Behind(r) == InRound(r) \/ pc[r] = "crashed"
Settled(r, k) == IF Behind(r) THEN k < conv[r].iteration ELSE k <= conv[r].iteration
Work(r) ==
    {m \in Messages : InTranscript(m, conv[r])
       /\ \/ \E k \in Nat : Settled(r, k) /\ m = AssistantMessage(r, k)
          \/ \E c \in CallIds, code \in Codes :
                c.run = r /\ Settled(r, c.round) /\ m = ToolMessage(c, code)}
Stored(t) == IF ckpt[t] = None THEN FreshConversation ELSE ckpt[t]
Durable(r) ==
    \A m \in Work(r) :
        /\ ckpt[thread[r]] # Torn => InTranscript(m, Stored(thread[r]))
        /\ \A s \in Runs \ {r} : Active(s) /\ thread[s] = thread[r] => InTranscript(m, conv[s])
DurableInv ==
    \A r \in Runs : r \notin overlapped \cup unsaved /\ thread[r] \in Threads => Durable(r)
\* No step that leaves a run's copy alone, or adds a message of the round under
\* way to it, settles more of its work.
LEMMA WorkStays ==
    ASSUME TypeOK, NEW r \in Runs, conv'[r] = conv[r], Behind(r) => Behind(r)'
    PROVE  Work(r)' \subseteq Work(r)
<1>1. conv[r].iteration \in Nat /\ \A c \in CallIds : c.round \in Nat
  BY DEF TypeOK, Conversations, CallIds
<1>2. \A k \in Nat : Settled(r, k)' => Settled(r, k)
  BY <1>1 DEF Settled
<1> QED  BY <1>1, <1>2 DEF Work

\* The settled work of a run after it spoke is what it was.
LEMMA WorkSpoken ==
    ASSUME TypeOK, NEW r \in Runs, NEW m,
           \A x : InTranscript(x, conv'[r]) => InTranscript(x, conv[r]) \/ x = m,
           \A k \in Nat : Settled(r, k)' => Settled(r, k),
           \A k \in Nat : Settled(r, k)' => AssistantMessage(r, k) # m,
           \A c \in CallIds, code \in Codes :
              c.run = r /\ Settled(r, c.round)' => ToolMessage(c, code) # m
    PROVE  Work(r)' \subseteq Work(r)
<1>1. \A c \in CallIds : c.round \in Nat
  BY DEF CallIds
<1> QED  BY <1>1 DEF Work

LEMMA WorkTurn ==
    ASSUME TypeOK, NEW r \in Runs, ModelAnswers(r) \/ ModelCallsTools(r)
    PROVE  Work(r)' \subseteq Work(r)
<1> DEFINE m == AssistantMessage(r, conv'[r].iteration)
<1>1. /\ m \in Messages /\ conv'[r].messages = Append(conv[r].messages, m)
      /\ pc[r] = "loop" /\ pc'[r] \in {"answer", "tools"}
      /\ conv'[r].iteration = conv[r].iteration + 1
  BY AnswerEffect, AskEffect
<1>2. conv[r] \in Conversations /\ conv[r].iteration \in Nat
  BY DEF TypeOK, Conversations
<1>3. \A k : AssistantMessage(r, k) = m => k = conv'[r].iteration
  BY MessageKinds
<1>4. \A c, code : ToolMessage(c, code) # m
  BY MessageKinds
<1> HIDE DEF m
<1>5. \A x : InTranscript(x, conv'[r]) => InTranscript(x, conv[r]) \/ x = m
  BY <1>1, <1>2, SpokenIn
<1>6. Behind(r)' /\ ~Behind(r)
  BY <1>1 DEF Behind, InRound, Handling
<1>7. \A k \in Nat : Settled(r, k)' => Settled(r, k) /\ k # conv'[r].iteration
  BY <1>1, <1>2, <1>6 DEF Settled
<1> QED  BY <1>3, <1>4, <1>5, <1>7, WorkSpoken

LEMMA WorkReport ==
    ASSUME TypeOK, NEW r \in Runs, ApproverRejects(r) \/ CallTool(r)
    PROVE  Work(r)' \subseteq Work(r)
<1>1. PICK code \in Codes : ReportsOn(r, code)
  BY ReportEffect
<1> DEFINE m == ToolMessage(CurrentCall(r), code)
<1>2. /\ m \in Messages /\ conv'[r].messages = Append(conv[r].messages, m)
      /\ pc[r] \in {"approval", "call"} /\ pc'[r] \in {"tools", "remember"}
      /\ conv'[r].iteration = conv[r].iteration
  BY <1>1 DEF ReportsOn
<1>3. conv[r] \in Conversations /\ conv[r].iteration \in Nat
  BY DEF TypeOK, Conversations
<1>4. \A k : AssistantMessage(r, k) # m
  BY MessageKinds
<1>5. \A c, x : ToolMessage(c, x) = m => c.round = conv[r].iteration
  BY MessageKinds DEF CurrentCall
<1> HIDE DEF m
<1>6. \A x : InTranscript(x, conv'[r]) => InTranscript(x, conv[r]) \/ x = m
  BY <1>2, <1>3, SpokenIn
<1>7. Behind(r)' /\ Behind(r)
  BY <1>2 DEF Behind, InRound, Handling
<1>8. \A k \in Nat : Settled(r, k)' => Settled(r, k) /\ k # conv[r].iteration
  BY <1>2, <1>3, <1>7 DEF Settled
<1>9. \A c \in CallIds : c.round \in Nat
  BY DEF CallIds
<1> QED  BY <1>4, <1>5, <1>6, <1>8, <1>9, WorkSpoken

\* A failed model call is charged a round in which nothing was said.
LEMMA WorkFailure ==
    ASSUME TypeOK, RequestsInv, SourcesInv, NEW r \in Runs, ModelFails(r)
    PROVE  Work(r)' \subseteq Work(r)
<1>1. /\ pc[r] = "loop" /\ pc'[r] = "done" /\ conv'[r].messages = conv[r].messages
      /\ conv'[r].iteration = conv[r].iteration + 1
  BY FailureEffect
<1>2. \A x : InTranscript(x, conv'[r]) <=> InTranscript(x, conv[r])
  BY <1>1 DEF InTranscript
<1>3. ~Behind(r)
  BY <1>1 DEF Behind, InRound, Handling
<1>4. \A k \in Nat : InTranscript(AssistantMessage(r, k), conv[r]) => Settled(r, k)
  BY <1>3 DEF SourcesInv, Sourced, Settled
<1>5. \A c \in CallIds, code \in Codes :
        c.run = r /\ InTranscript(ToolMessage(c, code), conv[r]) => Settled(r, c.round)
  BY <1>3 DEF SourcesInv, Sourced, RequestsInv, Settled
<1> QED  BY <1>2, <1>4, <1>5 DEF Work

\* A run that was not started has done nothing, also when it starts.
LEMMA NoWork ==
    ASSUME TypeOK, RequestsInv, SourcesInv, NEW r \in Runs, pc[r] = "idle",
           \A x : InTranscript(x, conv'[r]) =>
              \/ InTranscript(x, conv[r]) \/ x = UserMessage(r) \/ x = SystemMessage
              \/ \E t \in Threads : Saved(t) /\ InTranscript(x, ckpt[t])
    PROVE  Work(r)' = {}
<1>1. \A k \in Nat : /\ ~InTranscript(AssistantMessage(r, k), conv[r])
                     /\ \A t \in Threads : Saved(t) => ~InTranscript(AssistantMessage(r, k), ckpt[t])
  BY DEF SourcesInv, Sourced
<1>2. \A c \in CallIds, code \in Codes : c.run = r =>
        /\ ~InTranscript(ToolMessage(c, code), conv[r])
        /\ \A t \in Threads : Saved(t) => ~InTranscript(ToolMessage(c, code), ckpt[t])
  BY DEF SourcesInv, Sourced, RequestsInv
<1>3. \A k, c, code : /\ AssistantMessage(r, k) # UserMessage(r) /\ AssistantMessage(r, k) # SystemMessage
                      /\ ToolMessage(c, code) # UserMessage(r) /\ ToolMessage(c, code) # SystemMessage
  BY MessageKinds
<1> QED  BY <1>1, <1>2, <1>3 DEF Work

\* A step that saves nothing, or fails to, keeps what is durable.
LEMMA DurableFrame ==
    ASSUME TypeOK, TypeOK', DurableInv, [Next]_vars,
           overlapped \subseteq overlapped', unsaved \subseteq unsaved',
           \A t \in Threads : ckpt'[t] \in {ckpt[t], Torn},
           \A s \in Runs : Active(s)' => Active(s) /\ thread'[s] = thread[s],
           \A r \in Runs \ (overlapped' \cup unsaved') :
              Work(r)' = {} \/ (Work(r)' \subseteq Work(r) /\ thread'[r] = thread[r])
    PROVE  DurableInv'
<1>1. ASSUME NEW r \in Runs, r \notin overlapped' \cup unsaved', thread'[r] \in Threads,
             NEW m \in Work(r)'
      PROVE  /\ ckpt'[thread'[r]] # Torn => InTranscript(m, Stored(thread[r])')
             /\ \A s \in Runs \ {r} : Active(s)' /\ thread'[s] = thread'[r] =>
                  InTranscript(m, conv'[s])
  <2>1. m \in Work(r) /\ thread'[r] = thread[r] /\ r \notin overlapped \cup unsaved
    BY <1>1
  <2>2. /\ ckpt[thread[r]] # Torn => InTranscript(m, Stored(thread[r]))
        /\ \A s \in Runs \ {r} : Active(s) /\ thread[s] = thread[r] => InTranscript(m, conv[s])
    BY <1>1, <2>1 DEF DurableInv, Durable
  <2>3. ckpt'[thread'[r]] # Torn => InTranscript(m, Stored(thread[r])')
    BY <1>1, <2>1, <2>2 DEF Stored
  <2>4. ASSUME NEW s \in Runs \ {r}, Active(s)', thread'[s] = thread'[r]
        PROVE  InTranscript(m, conv'[s])
    BY <2>1, <2>2, <2>4, RunsGoOn DEF Active
  <2> QED  BY <2>3, <2>4
<1> QED  BY <1>1 DEF DurableInv, Durable

\* A run that starts goes on from the work stored on its thread.
LEMMA DurableLoad ==
    ASSUME TypeOK, TypeOK', RequestsInv, SourcesInv, DurableInv, [Next]_vars,
           NEW r \in Runs, NEW t \in Threads, Load(r, t)
    PROVE  DurableInv'
<1>1. /\ pc[r] = "idle" /\ thread'[r] = t /\ ckpt' = ckpt /\ unsaved' = unsaved
      /\ ckpt[t] \in Conversations \cup {None} /\ conv'[r] = Resume(ckpt[t], r)
      /\ \A s \in Runs \ {r} : Untouched(s)
  BY LoadEffect
<1>2. overlapped \subseteq overlapped'
  BY DEF Load
<1>3. \A x : InTranscript(x, conv'[r]) <=> \/ x = UserMessage(r)
                                           \/ ckpt[t] = None /\ x = SystemMessage
                                           \/ ckpt[t] # None /\ InTranscript(x, ckpt[t])
  BY <1>1, ResumedIn
<1>4. ckpt[t] # Torn /\ (ckpt[t] # None => Saved(t))
  BY <1>1, MarkersAssumption DEF Saved, Load
<1>5. \A x : InTranscript(x, Stored(t)) => InTranscript(x, conv'[r])
  BY <1>3 DEF Stored, FreshConversation, InTranscript
<1>6. Work(r)' = {}
  BY <1>1, <1>3, <1>4, NoWork
<1>7. ASSUME NEW q \in Runs, q \notin overlapped' \cup unsaved', thread'[q] \in Threads,
             NEW m \in Work(q)'
      PROVE  /\ ckpt'[thread'[q]] # Torn => InTranscript(m, Stored(thread[q])')
             /\ \A s \in Runs \ {q} : Active(s)' /\ thread'[s] = thread'[q] =>
                  InTranscript(m, conv'[s])
  <2>1. q # r
    BY <1>6, <1>7
  <2>2. Untouched(q) /\ q \notin overlapped \cup unsaved
    BY <1>1, <1>2, <1>7, <2>1
  <2>3. Work(q)' \subseteq Work(q)
    BY <2>2, WorkStays DEF Untouched, Behind, InRound, Handling
  <2>4. /\ ckpt[thread[q]] # Torn => InTranscript(m, Stored(thread[q]))
        /\ \A s \in Runs \ {q} : Active(s) /\ thread[s] = thread[q] => InTranscript(m, conv[s])
    BY <1>7, <2>2, <2>3 DEF DurableInv, Durable, Untouched
  <2>5. ckpt'[thread'[q]] # Torn => InTranscript(m, Stored(thread[q])')
    BY <1>1, <2>2, <2>4 DEF Stored, Untouched
  <2>6. ASSUME NEW s \in Runs \ {q}, Active(s)', thread'[s] = thread'[q]
        PROVE  InTranscript(m, conv'[s])
    <3>1. CASE s = r
      <4>1. thread[q] = t
        BY <1>1, <2>2, <2>6, <3>1 DEF Untouched
      <4> QED  BY <1>4, <1>5, <2>4, <3>1, <4>1
    <3>2. CASE s # r
      BY <1>1, <2>2, <2>4, <2>6, <3>2 DEF Untouched, Active
    <3> QED  BY <3>1, <3>2
  <2> QED  BY <2>5, <2>6
<1> QED  BY <1>7 DEF DurableInv, Durable

\* A save replaces the checkpoint by a copy that holds the stored work of the
\* other runs, unless two runs overlapped on the thread.
LEMMA DurableSave ==
    ASSUME TypeOK, TypeOK', GrowthInv, DurableInv, [Next]_vars,
           NEW r \in Runs, SaveRound(r) \/ SaveAnswer(r)
    PROVE  DurableInv'
<1>1. /\ conv' = conv /\ thread[r] \in Threads /\ pc[r] \in {"tools", "answer"}
      /\ pc'[r] \in {"loop", "return"}
      /\ \A t \in Threads \ {thread[r]} : ckpt'[t] = ckpt[t]
      /\ \/ ckpt'[thread[r]] = conv[r] /\ unsaved' = unsaved \ {r}
         \/ ckpt'[thread[r]] \in {ckpt[thread[r]], Torn} /\ unsaved' = unsaved \cup {r}
  BY SaveEffect
<1>2. thread' = thread /\ overlapped' = overlapped /\ \A s \in Runs \ {r} : Untouched(s)
  BY OthersStay DEF Step
<1>3. Active(r) /\ \A s \in Runs : Active(s)' => Active(s)
  BY <1>1, <1>2 DEF Active, Ended, Untouched
<1>4. \A q \in Runs \ {r} : Work(q)' \subseteq Work(q)
  BY <1>2, WorkStays DEF Untouched, Behind, InRound, Handling
<1>5. CASE unsaved' = unsaved \cup {r} /\ ckpt'[thread[r]] \in {ckpt[thread[r]], Torn}
  BY <1>1, <1>2, <1>3, <1>4, <1>5, DurableFrame
<1>6. CASE unsaved' = unsaved \ {r} /\ ckpt'[thread[r]] = conv[r]
  <2>1. conv[r] # None /\ conv[r] \in Conversations
    BY MarkersAssumption DEF TypeOK
  <2>2. ASSUME NEW q \in Runs, q \notin overlapped' \cup unsaved', thread'[q] \in Threads,
               NEW m \in Work(q)'
        PROVE  /\ ckpt'[thread'[q]] # Torn => InTranscript(m, Stored(thread[q])')
               /\ \A s \in Runs \ {q} : Active(s)' /\ thread'[s] = thread'[q] =>
                    InTranscript(m, conv'[s])
    <3>1. CASE q = r
      <4>1. InTranscript(m, conv[r])
        BY <1>1, <2>2, <3>1 DEF Work
      <4>2. Stored(thread[q])' = conv[r]
        BY <1>2, <1>6, <2>1, <3>1 DEF Stored
      <4>3. \A s \in Runs \ {q} : ~(Active(s)' /\ thread'[s] = thread'[q])
        BY <1>2, <1>3, <2>2, <3>1 DEF GrowthInv, SharersOverlap
      <4> QED  BY <4>1, <4>2, <4>3
    <3>2. CASE q # r
      <4>1. m \in Work(q) /\ q \notin overlapped \cup unsaved /\ thread[q] \in Threads
        BY <1>2, <1>4, <1>6, <2>2, <3>2
      <4>2. /\ ckpt[thread[q]] # Torn => InTranscript(m, Stored(thread[q]))
            /\ \A s \in Runs \ {q} : Active(s) /\ thread[s] = thread[q] => InTranscript(m, conv[s])
        BY <4>1 DEF DurableInv, Durable
      <4>3. CASE thread[q] = thread[r]
        <5>1. InTranscript(m, conv[r])
          BY <1>3, <3>2, <4>2, <4>3
        <5>2. Stored(thread[q])' = conv[r]
          BY <1>2, <1>6, <2>1, <4>3 DEF Stored
        <5> QED  BY <1>1, <1>2, <1>3, <4>2, <5>1, <5>2
      <4>4. CASE thread[q] # thread[r]
        <5>1. ckpt'[thread[q]] = ckpt[thread[q]]
          BY <1>1, <4>1, <4>4
        <5>2. Stored(thread[q])' = Stored(thread[q])
          BY <1>2, <5>1 DEF Stored
        <5> QED  BY <1>1, <1>2, <1>3, <4>2, <5>1, <5>2
      <4> QED  BY <4>3, <4>4
    <3> QED  BY <3>1, <3>2
  <2> QED  BY <2>2 DEF DurableInv, Durable
<1> QED  BY <1>1, <1>5, <1>6

LEMMA DurableStep ==
    ASSUME TypeOK, TypeOK', GrowthInv, RequestsInv, SourcesInv, DurableInv, [Next]_vars
    PROVE  DurableInv'
<1>1. CASE UNCHANGED vars
  <2>1. \A r \in Runs : Work(r)' \subseteq Work(r)
    BY <1>1, IdleEffect, WorkStays DEF Behind, InRound, Handling
  <2> QED  BY <1>1, <2>1, IdleEffect, DurableFrame DEF Active
<1>2. CASE Crash
  <2>1. \A r \in Runs : Work(r)' \subseteq Work(r)
    BY <1>2, CrashEffect, WorkStays DEF Behind, InRound, Handling
  <2>2. \A s \in Runs : ~Active(s)'
    BY <1>2, CrashEffect DEF Active, Ended
  <2> QED  BY <1>2, <2>1, <2>2, CrashEffect, DurableFrame
<1>3. ASSUME NEW r \in Runs, NEW t \in Threads, LoadFails(r, t) PROVE DurableInv'
  <2>1. /\ pc[r] = "idle" /\ pc'[r] = "done" /\ conv' = conv /\ ckpt' = ckpt
        /\ unsaved' = unsaved /\ overlapped' = overlapped
        /\ \A s \in Runs \ {r} : Untouched(s)
    BY <1>3, LoadFailsEffect
  <2>2. Work(r)' = {}
    BY <2>1, NoWork
  <2>3. \A s \in Runs \ {r} : Work(s)' \subseteq Work(s)
    BY <2>1, WorkStays DEF Untouched, Behind, InRound, Handling
  <2> QED  BY <2>1, <2>2, <2>3, DurableFrame DEF Untouched, Active, Ended
<1>4. ASSUME NEW r \in Runs, Step(r), ~SaveRound(r), ~SaveAnswer(r) PROVE DurableInv'
  <2>1. thread' = thread /\ overlapped' = overlapped /\ \A s \in Runs \ {r} : Untouched(s)
    BY <1>4, OthersStay
  <2>2. \A s \in Runs \ {r} : Work(s)' \subseteq Work(s)
    BY <2>1, WorkStays DEF Untouched, Behind, InRound, Handling
  <2>3. ckpt' = ckpt /\ unsaved' = unsaved /\ Active(r) /\ Work(r)' \subseteq Work(r)
    <3>1. CASE Silent(r)
      <4>1. /\ conv' = conv /\ ckpt' = ckpt /\ unsaved' = unsaved /\ Active(r)
            /\ (Handling(r)' <=> Handling(r)) /\ pc[r] # "answer"
        BY <3>1, SilentEffect
      <4>2. Behind(r) => Behind(r)'
        BY <4>1 DEF Behind, InRound, Active, Ended
      <4> QED  BY <4>1, <4>2, WorkStays
    <3>2. CASE ModelFails(r)
      BY <3>2, FailureEffect, WorkFailure DEF Active, Ended
    <3>3. CASE ModelAnswers(r) \/ ModelCallsTools(r)
      BY <3>3, AnswerEffect, AskEffect, WorkTurn DEF Active, Ended
    <3>4. CASE ApproverRejects(r) \/ CallTool(r)
      BY <3>4, ReportEffect, WorkReport DEF ReportsOn, Active, Ended
    <3> QED  BY <1>4, <3>1, <3>2, <3>3, <3>4, StepKinds DEF Speaking
  <2>4. \A s \in Runs : Active(s)' => Active(s)
    BY <2>1, <2>3 DEF Untouched, Active
  <2> QED  BY <2>1, <2>2, <2>3, <2>4, DurableFrame
<1> QED  BY <1>1, <1>2, <1>3, <1>4, DurableLoad, DurableSave DEF Next, Begin, Finished

LEMMA DurableKept == Spec => []DurableInv
<1>1. Init => DurableInv
  <2>1. ASSUME Init, NEW r \in Runs PROVE Work(r) = {}
    <3>1. \A x : InTranscript(x, conv[r]) => x = SystemMessage
      BY <2>1 DEF Init, FreshConversation, InTranscript
    <3>2. \A k, c, code : AssistantMessage(r, k) # SystemMessage /\ ToolMessage(c, code) # SystemMessage
      BY MessageKinds
    <3> QED  BY <3>1, <3>2 DEF Work
  <2> QED  BY <2>1 DEF DurableInv, Durable
<1>2. TypeOK /\ TypeOK' /\ GrowthInv /\ RequestsInv /\ SourcesInv /\ DurableInv /\ [Next]_vars
        => DurableInv'
  BY DurableStep
<1> QED  BY <1>1, <1>2, TypeCorrect, GrowthKept, RequestsHold, SourcesHold, PTL DEF Spec

AnswersInv ==
    \A r \in Runs : outcome[r] = "final" =>
        pc[r] = "done" /\ InTranscript(AssistantMessage(r, conv[r].iteration), conv[r])

\* Only a run that was about to return its answer returns one.
LEMMA AnswersStep ==
    ASSUME TypeOK, TypeOK', SourcesInv, AnswersInv, [Next]_vars
    PROVE  AnswersInv'
<1>1. CASE UNCHANGED vars
  BY <1>1, IdleEffect DEF AnswersInv
<1>2. CASE Crash
  BY <1>2, CrashEffect DEF AnswersInv, Active, Ended
<1>3. ASSUME NEW r \in Runs, NEW t \in Threads, Load(r, t) \/ LoadFails(r, t) PROVE AnswersInv'
  <2>1. /\ pc[r] = "idle" /\ outcome'[r] \in {outcome[r], "checkpoint_load_error"}
        /\ \A s \in Runs \ {r} : Untouched(s)
    BY <1>3, LoadEffect, LoadFailsEffect
  <2> QED  BY <2>1 DEF AnswersInv, Untouched
<1>4. ASSUME NEW r \in Runs, Step(r) PROVE AnswersInv'
  <2>1. \A s \in Runs \ {r} : Untouched(s)
    BY <1>4, OthersStay
  <2>2. pc[r] # "done"
    BY <1>4 DEF Step, ModelFails, ModelAnswers, ModelCallsTools, ModelsTurn, ExceedIterations,
                SkipUnknown, StartCall, RequestApproval, HandlingCall, ApproverRejects,
                ApproverApproves, CallTool, Remember, SaveRound, SaveAnswer, Return
  <2>3. CASE Return(r)
    <3>1. pc[r] = "return" /\ pc'[r] = "done" /\ conv' = conv
      BY <2>3 DEF Return, Go, TypeOK
    <3> QED  BY <2>1, <3>1 DEF SourcesInv, AnswersInv, Untouched
  <2>4. CASE ~Return(r)
    <3>1. outcome'[r] = outcome[r] \/ outcome'[r] \in RunErrors
      <4>1. CASE ModelFails(r) \/ ExceedIterations(r)
        BY <4>1 DEF ModelFails, ExceedIterations, Fail, TypeOK, RunErrors
      <4>2. CASE ~(ModelFails(r) \/ ExceedIterations(r))
        BY <1>4, <2>4, <4>2 DEF Step, ModelAnswers, ModelCallsTools, SkipUnknown, StartCall,
           RequestApproval, ApproverRejects, ApproverApproves, CallTool, Remember, SaveRound,
           SaveAnswer
      <4> QED  BY <4>1, <4>2
    <3> QED  BY <2>1, <2>2, <3>1 DEF AnswersInv, Untouched, RunErrors
  <2> QED  BY <2>3, <2>4
<1> QED  BY <1>1, <1>2, <1>3, <1>4 DEF Next, Begin, Finished

LEMMA AnswersKept == Spec => []AnswersInv
<1>1. Init => AnswersInv
  <2>1. Init => \A r \in Runs : outcome[r] # "final"
    BY MarkersAssumption DEF Init
  <2> QED  BY <2>1 DEF AnswersInv
<1>2. TypeOK /\ TypeOK' /\ SourcesInv /\ AnswersInv /\ [Next]_vars => AnswersInv'
  BY AnswersStep
<1> QED  BY <1>1, <1>2, TypeCorrect, SourcesHold, PTL DEF Spec

\* Once Invoke has returned an answer, the input and the answer are in the
\* checkpoint of the thread, and stay there through later runs, failures and
\* crashes, unless the last Save failed, the caller overlapped runs, or a later
\* Save left the file destroyed (graph.go:171).
THEOREM AnswersDurable == Spec => []AnsweredRunsDurable
<1>1. ASSUME TypeOK, RequestsInv, SourcesInv, InputsInv, DurableInv, AnswersInv,
             NEW r \in Runs, outcome[r] = "final", r \notin overlapped \cup unsaved,
             ckpt[thread[r]] # Torn
      PROVE  /\ InCheckpoint(UserMessage(r), thread[r])
             /\ InCheckpoint(AssistantMessage(r, conv[r].iteration), thread[r])
  <2> DEFINE k == conv[r].iteration
             m == AssistantMessage(r, k)
  <2>1. pc[r] = "done" /\ InTranscript(m, conv[r])
    BY <1>1 DEF AnswersInv
  <2>2. k \in Nat /\ thread[r] \in Threads
    BY <1>1, <2>1 DEF TypeOK, Conversations
  <2>3. k \in Nat /\ m \in Messages /\ thread[r] \in Threads
    BY <2>2 DEF Messages, AssistantMessage
  <2>4. Settled(r, k)
    BY <2>1, <2>3 DEF Settled, Behind, InRound, Handling
  <2>5. m \in Work(r)
    BY <2>1, <2>3, <2>4 DEF Work
  <2>6. InTranscript(m, Stored(thread[r]))
    BY <1>1, <2>3, <2>5 DEF DurableInv, Durable
  <2>7. m # SystemMessage
    BY MessageKinds
  <2>8. ckpt[thread[r]] # None
    BY <2>6, <2>7 DEF Stored, FreshConversation, InTranscript
  <2>9. Saved(thread[r]) /\ InTranscript(m, ckpt[thread[r]])
    BY <1>1, <2>6, <2>8 DEF Saved, Stored
  <2>10. InTranscript(UserMessage(r), ckpt[thread[r]])
    BY <1>1, <2>3, <2>9 DEF InputsInv, HeardIn
  <2> QED  BY <2>9, <2>10 DEF InCheckpoint
<1>2. TypeOK /\ RequestsInv /\ SourcesInv /\ InputsInv /\ DurableInv /\ AnswersInv
        => AnsweredRunsDurable
  BY <1>1 DEF AnsweredRunsDurable
<1> QED  BY <1>2, TypeCorrect, RequestsHold, SourcesHold, InputsKept, DurableKept, AnswersKept, PTL

\* The executed calls of a run of which its checkpoint holds no report are of
\* the round it was in when it ended, whatever happened to other rounds; a run
\* that returned has none (graph.go:194-362).
LEMMA LostIsUnsettled ==
    ASSUME TypeOK, RequestsInv, SourcesInv, ReportsInv, DurableInv,
           NEW r \in Runs \ (overlapped \cup unsaved), Whole(thread[r]), NEW c \in LostCalls(r)
    PROVE  Behind(r) /\ c.round = conv[r].iteration
<1>1. c \in executed /\ c.run = r /\ \A code \in Codes : ~InCheckpoint(ToolMessage(c, code), thread[r])
  BY DEF LostCalls
<1>2. c \in CallIds /\ c.round \in Nat
  BY <1>1 DEF TypeOK, CallIds
<1>3. pc[r] # "idle" /\ \E code \in Codes : InTranscript(ToolMessage(c, code), conv[r])
  BY <1>1 DEF ReportsInv
<1>4. PICK code \in Codes : InTranscript(ToolMessage(c, code), conv[r])
  BY <1>3
<1>5. thread[r] \in Threads /\ ckpt[thread[r]] # Torn /\ conv[r].iteration \in Nat
  BY <1>3 DEF TypeOK, Whole, Conversations
<1>6. c.round <= conv[r].iteration
  BY <1>1, <1>2, <1>4 DEF SourcesInv, Sourced, RequestsInv
<1>7. ASSUME Settled(r, c.round) PROVE FALSE
  <2>1. ToolMessage(c, code) \in Work(r)
    BY <1>1, <1>2, <1>4, <1>7, ToolMessageType DEF Work
  <2>2. InTranscript(ToolMessage(c, code), Stored(thread[r]))
    BY <1>5, <2>1 DEF DurableInv, Durable
  <2>3. ToolMessage(c, code) # SystemMessage
    BY MessageKinds
  <2>4. ckpt[thread[r]] # None
    BY <2>2, <2>3 DEF Stored, FreshConversation, InTranscript
  <2>5. InCheckpoint(ToolMessage(c, code), thread[r])
    BY <1>5, <2>2, <2>4 DEF InCheckpoint, Saved, Stored
  <2> QED  BY <1>1, <2>5
<1> QED  BY <1>2, <1>5, <1>6, <1>7 DEF Settled

\* A run that ends without its whole work saved leaves no trace in the
\* checkpoint of at most one round of executed tool calls, and a run that
\* returned, with an answer or an error, of none (graph.go:194-362).
THEOREM OneRoundLost == Spec => []AtMostOneRoundLost
<1>1. TypeOK /\ RequestsInv /\ SourcesInv /\ ReportsInv /\ DurableInv => AtMostOneRoundLost
  <2>1. \A r \in Runs : Behind(r) => pc[r] # "done"
    BY DEF Behind, InRound, Handling
  <2> QED  BY <2>1, LostIsUnsettled DEF AtMostOneRoundLost
<1> QED  BY <1>1, TypeCorrect, RequestsHold, SourcesHold, ReportsKept, DurableKept, PTL

\* An input is in a checkpoint only together with a turn of the model that
\* heard it, and the input of a run that returned is there exactly if the model
\* took a turn in that run, failed saves, overlaps and destroyed files apart
\* (graph.go:154, 171, 360).
THEOREM InputsSaved == Spec => []InputsSavedWithATurn
<1>1. ASSUME TypeOK, InputsInv, NEW t \in Threads, NEW r \in Runs, Saved(t)
      PROVE  InTranscript(UserMessage(r), ckpt[t]) <=> TurnsOf(r, ckpt[t]) # {}
  <2>1. ckpt[t] \in Conversations
    BY <1>1 DEF TypeOK, Saved
  <2> QED  BY <1>1, <2>1, TurnsSaid DEF InputsInv, HeardIn
<1>2. ASSUME TypeOK, SourcesInv, InputsInv, DurableInv,
             NEW r \in Runs \ (overlapped \cup unsaved), pc[r] = "done", ckpt[thread[r]] # Torn
      PROVE  InCheckpoint(UserMessage(r), thread[r]) <=> TurnsOf(r, conv[r]) # {}
  <2> DEFINE t == thread[r]
  <2>1. t \in Threads /\ conv[r] \in Conversations
    BY <1>2 DEF TypeOK
  <2>2. TurnsOf(r, conv[r]) # {} <=> \E k \in Nat : InTranscript(AssistantMessage(r, k), conv[r])
    BY <2>1, TurnsSaid
  <2>3. ASSUME InCheckpoint(UserMessage(r), t)
        PROVE  \E k \in Nat : InTranscript(AssistantMessage(r, k), conv[r])
    BY <1>2, <2>1, <2>3 DEF InCheckpoint, InputsInv, HeardIn, SourcesInv, Sourced
  <2>4. ASSUME NEW k \in Nat, InTranscript(AssistantMessage(r, k), conv[r])
        PROVE  InCheckpoint(UserMessage(r), t)
    <3>1. AssistantMessage(r, k) \in Messages
      BY DEF AssistantMessage, Messages
    <3>2. Settled(r, k)
      BY <1>2, <2>4 DEF SourcesInv, Sourced, Settled, Behind, InRound, Handling
    <3>3. AssistantMessage(r, k) \in Work(r)
      BY <2>4, <3>1, <3>2 DEF Work
    <3>4. InTranscript(AssistantMessage(r, k), Stored(t))
      BY <1>2, <2>1, <3>3 DEF DurableInv, Durable
    <3>5. AssistantMessage(r, k) # SystemMessage
      BY MessageKinds
    <3>6. ckpt[t] # None
      BY <3>4, <3>5 DEF Stored, FreshConversation, InTranscript
    <3>7. Saved(t) /\ InTranscript(AssistantMessage(r, k), ckpt[t])
      BY <1>2, <3>4, <3>6 DEF Saved, Stored
    <3> QED  BY <1>2, <2>1, <3>7 DEF InputsInv, HeardIn, InCheckpoint
  <2> QED  BY <2>2, <2>3, <2>4
<1>3. TypeOK /\ SourcesInv /\ InputsInv /\ DurableInv => InputsSavedWithATurn
  BY <1>1, <1>2 DEF InputsSavedWithATurn
<1> QED  BY <1>3, TypeCorrect, SourcesHold, InputsKept, DurableKept, PTL
=============================================================================
