--------------------------- MODULE KeyValueStore ---------------------------
(***************************************************************************)
(* What a store of keyed values promises to its callers (interface         *)
(* memory.Store, and agent.Checkpointer without List): an entry holds the  *)
(* value of the last Put that took effect on it.  A Put takes effect at    *)
(* one instant between its call and its answer; one that fails or dies may *)
(* have done so, or have left an entry that can no longer be read.  A List *)
(* may miss, or not miss, the keys that were put while it ran.             *)
(***************************************************************************)
EXTENDS Naturals

CONSTANTS
    Ops,       \* the calls made in a behaviour; a value is the Put that brought it
    Entries,   \* pairs of a namespace and a key
    Requests,  \* the requests: [kind, entry, json]
    Nothing,   \* no request, no answer, no value
    Broken     \* a value that can no longer be read

VARIABLES
    phase,   \* of a call: "idle", "called", "applied", "done", "lost"
    call,    \* the request of each call
    seen,    \* the entries there were when it was made
    result,  \* its answer
    table    \* the value of each entry

vars == <<phase, call, seen, result, table>>

Ok(v) == [status |-> "ok", value |-> v]
Error == [status |-> "error", value |-> Nothing]
Present == {e \in Entries : table[e] # Nothing}

Init ==
    /\ phase = [o \in Ops |-> "idle"]
    /\ call = [o \in Ops |-> Nothing]
    /\ seen = [o \in Ops |-> {}]
    /\ result = [o \in Ops |-> Nothing]
    /\ table = [e \in Entries |-> Nothing]

Begin(o) ==
    /\ phase[o] = "idle"
    /\ phase' = [phase EXCEPT ![o] = "called"]
    /\ \E c \in Requests : call' = [call EXCEPT ![o] = c]
    /\ seen' = [seen EXCEPT ![o] = Present]
    /\ UNCHANGED <<result, table>>

Pending(o, kind) == phase[o] \in {"called", "applied"} /\ call[o].kind = kind
Entry(o) == call[o].entry
Namespace(e) == e[1]

Answer(o, r) ==
    /\ result' = [result EXCEPT ![o] = r]
    /\ phase' = [phase EXCEPT ![o] = "done"]
    /\ UNCHANGED <<call, seen>>

TakesEffect(o) ==
    /\ Pending(o, "put") /\ phase[o] = "called"
    /\ table' = [table EXCEPT ![Entry(o)] = o]
    /\ phase' = [phase EXCEPT ![o] = "applied"]
    /\ UNCHANGED <<call, seen, result>>

Put(o) ==
    /\ Pending(o, "put")
    /\ table' = IF phase[o] = "applied" THEN table ELSE [table EXCEPT ![Entry(o)] = o]
    /\ Answer(o, Ok(Nothing))

Get(o) ==
    /\ Pending(o, "get")
    /\ table[Entry(o)] # Broken
    /\ Answer(o, Ok(table[Entry(o)]))
    /\ UNCHANGED table

List(o) ==
    /\ Pending(o, "list")
    /\ LET here(S) == {e \in S : Namespace(e) = Namespace(Entry(o))}
       IN  \E listed \in SUBSET here(Present) :
             here(seen[o]) \subseteq listed /\ Answer(o, Ok(listed))
    /\ UNCHANGED table

\* What may have become of the entry of a Put that failed or died.
Aftermath(o) == {table[Entry(o)], o, Broken}

Fail(o) ==
    /\ phase[o] \in {"called", "applied"}
    /\ \/ UNCHANGED table
       \/ /\ Pending(o, "put")
          /\ \E v \in Aftermath(o) : table' = [table EXCEPT ![Entry(o)] = v]
    /\ Answer(o, Error)

\* The process dies: the entries of the calls it was making are in doubt.
Crash ==
    /\ phase' = [o \in Ops |-> IF phase[o] \in {"called", "applied"} THEN "lost" ELSE phase[o]]
    /\ \A e \in Entries :
         \/ table'[e] = table[e]
         \/ \E o \in Ops : Pending(o, "put") /\ Entry(o) = e /\ table'[e] \in Aftermath(o)
    /\ DOMAIN table' = Entries
    /\ UNCHANGED <<call, seen, result>>

Next == (\E o \in Ops : Begin(o) \/ TakesEffect(o) \/ Put(o) \/ Get(o) \/ List(o) \/ Fail(o)) \/ Crash

Spec == Init /\ [][Next]_vars
=============================================================================
