---------------------------- MODULE ModelAdapters ----------------------------
(***************************************************************************)
(* What a run says to a model and what it takes as the model's answer: the *)
(* translation of llms/anthropic (tool results become blocks of their own) *)
(* and of llms/openai (every message goes out as it is), which groq and    *)
(* ollama use too.  They keep no state; they are read here on the states   *)
(* of AgentRun, in which a run is about to call its model.                 *)
(***************************************************************************)
EXTENDS AgentRun, Selections

(***************************************************************************)
(* The JSON text of a tool message, as the adapter reads it back.  A       *)
(* result that could not be marshalled has a hand-made text, which names   *)
(* the tool and leaves out the id of the call.                             *)
(***************************************************************************)
\* Mutant: a rejection is written like a result.
ToolPayload_RejectedIsOk(m) ==
    [id |-> IF m.code = "serialization_error" THEN None ELSE m.call,
     ok |-> m.code \in {"ok", "hitl_rejected"}]
ToolPayload(m) ==
    [id |-> IF m.code = "serialization_error" THEN None ELSE m.call,
     ok |-> m.code = "ok"]

(***************************************************************************)
(* Requests.  A "text" is a message of the conversation; a "tool_result"   *)
(* tells how the call with that id went, and an "anonymous" one how some   *)
(* call went.                                                              *)
(***************************************************************************)
Text(role) == [type |-> "text", role |-> role]
ToolBlock(p) ==
    IF p.id = None THEN [type |-> "anonymous", ok |-> p.ok]
    ELSE [type |-> "tool_result", id |-> p.id, ok |-> p.ok]
Block(m) == IF m.role = "tool" THEN ToolBlock(ToolPayload(m)) ELSE Text(m.role)
Blocks(messages) == [i \in DOMAIN messages |-> Block(messages[i])]

\* The system messages are taken out of their places and put first.
AnthropicRequest(messages) ==
    LET others == Messages \ {SystemMessage}
    IN  Blocks(Selected(messages, {SystemMessage})) \o Blocks(Selected(messages, others))

\* The content of a tool message is its JSON text, unread.
OpenAIRequest(messages) == Blocks(messages)

Requests(messages) == {AnthropicRequest(messages), OpenAIRequest(messages)}

(***************************************************************************)
(* Answers: blocks, each a text or a call.  A text beside a call is        *)
(* dropped.                                                                *)
(***************************************************************************)
TextBlock == "text_block"
Called(blocks) == LET IsCall(b) == b # TextBlock IN SelectSeq(blocks, IsCall)
ModelAnswer(blocks) ==
    [content |-> Called(blocks) = <<>> /\ blocks # <<>>, calls |-> Called(blocks)]

-----------------------------------------------------------------------------
ResultBlocks == [type : {"tool_result"}, id : CallIds, ok : BOOLEAN]
AnonymousBlocks == [type : {"anonymous"}, ok : BOOLEAN]
Precedes(c, d) ==
    c.run = d.run => c.round < d.round \/ (c.round = d.round /\ c.index < d.index)

\* Whatever adapter it uses, a model about to be called is told of every call
\* of a registered tool made in the conversation, once and in order, under the
\* id of the call; it is told "ok" only of calls that were carried out and, if
\* gated, approved; and it is told without an id only of calls that were
\* carried out (anthropic.go:83-112, 175-209; openai.go:34-40; graph.go:426-432).
ModelHearsTheTruth ==
    \A r \in Runs : pc[r] = "loop" => \A request \in Requests(conv[r].messages) :
        LET told == Selected(request, ResultBlocks)
            ids == {told[i].id : i \in DOMAIN told}
            made == {c \in requested :
                        c.tool \in Tools /\ InTranscript(AssistantMessage(c.run, c.round), conv[r])}
        IN  /\ \A i, j \in DOMAIN told : i < j => Precedes(told[i].id, told[j].id)
            /\ ids \subseteq made
            /\ Len(told) + Len(Selected(request, AnonymousBlocks)) = Cardinality(made)
            /\ \A i \in DOMAIN told : told[i].ok =>
                  /\ told[i].id \in executed
                  /\ told[i].id.tool \in Gated => told[i].id \in approved
            /\ made \ ids \subseteq executed
=============================================================================
