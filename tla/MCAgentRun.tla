----------------------------- MODULE MCAgentRun -----------------------------
(* Constants of the model-checking instances of AgentRun.                  *)
EXTENDS ModelAdapters

CONSTANTS r1, r2, t1, t2, read, execute, ghost

\* The runs are alike: no property tells which run is which.
RunSymmetry == Permutations(Runs)

\* What the runs of several callers are told apart by: no guard and none of
\* their properties reads the counters, the events, the memory or the audit log.
RunView == <<pc, thread, conv, calls, next, outcome, ckpt, history>>

TwoTools == {read, execute}
ThreeNames == {read, execute, ghost}

Answer == [content |-> TRUE, calls |-> <<>>]
Ask(s) == [content |-> FALSE, calls |-> s]
Chatty(s) == [content |-> TRUE, calls |-> s]

\* What the adapters make of any answer of up to two blocks, and what a model
\* of the caller's own may say beside a call.
RichResponses ==
    {Chatty(<<read>>)}
        \cup {ModelAnswer(blocks) : blocks \in BoundedSeq(ThreeNames \cup {TextBlock}, 2)}
ShortResponses == {Answer, Ask(<<read>>), Ask(<<execute>>)}
MixedResponses == {Answer, Ask(<<ghost>>), Ask(<<execute, read>>)}

\* What consoleApprover and the HTTP approver return.
BuiltinReplies ==
    {[decision |-> "approved", err |-> FALSE], [decision |-> "rejected", err |-> TRUE],
     [decision |-> "modify", err |-> TRUE], [decision |-> "cancelled", err |-> TRUE]}

YesOrNo == {[decision |-> "approved", err |-> FALSE], [decision |-> "rejected", err |-> TRUE]}

AllOutcomes == {"ok", "error", "invalid", "unserializable"}
=============================================================================
