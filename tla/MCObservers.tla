---------------------------- MODULE MCObservers -----------------------------
(* Constants of the model-checking instance of Observers.                  *)
EXTENDS Observers

CONSTANTS r1, r2, t1, t2, read, execute

Answer == [content |-> TRUE, calls |-> <<>>]
Ask(s) == [content |-> FALSE, calls |-> s]
FewResponses == {Answer, Ask(<<execute>>)}
YesOrNo == {[decision |-> "approved", err |-> FALSE], [decision |-> "rejected", err |-> TRUE]}

OwnThreads == [r \in Runs |-> IF r = r1 THEN t1 ELSE t2]

\* Loggers at work while the channels are wide and not yet read, and consumers
\* that follow closely while nothing is logged.
LoggingOrStreaming ==
    {[logger |-> kind, capacity |-> 32, listening |-> {}] : kind \in {"json", "context", "simple"}}
        \cup {[logger |-> "noop", capacity |-> 2, listening |-> Runs]}
=============================================================================
