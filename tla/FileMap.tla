------------------------------ MODULE FileMap ------------------------------
(***************************************************************************)
(* What a file backend promises to its callers (tools/builtin/fs,          *)
(* interface Backend): a map from paths to contents on which every call    *)
(* takes effect at one instant, or fails and changes nothing.  A call that *)
(* a crash cuts short has no answer.  Nothing is promised of a file that   *)
(* two calls change at once: the map forgets it and what was said of it.   *)
(***************************************************************************)
EXTENDS Naturals, Sequences

CONSTANTS
    Ops,      \* the calls made in a behaviour
    Paths,
    Calls,    \* the requests: [kind : Kinds, path : Paths]
    Nothing   \* no request, no answer, no file

Kinds == {"write", "edit", "read", "list"}

VARIABLES
    call,    \* the request of each call
    result,  \* its answer
    files,   \* the content of each path: the calls whose text it is made of
    raced    \* the paths of which nothing is promised any more

vars == <<call, result, files, raced>>

Ok(v) == [status |-> "ok", value |-> v]
Error == [status |-> "error", value |-> <<>>]

Init ==
    /\ call = [o \in Ops |-> Nothing]
    /\ result = [o \in Ops |-> Nothing]
    /\ files = [p \in Paths |-> Nothing]
    /\ raced = {}

Begin(o) ==
    /\ call[o] = Nothing
    /\ \E c \in Calls : call' = [call EXCEPT ![o] = c]
    /\ UNCHANGED <<result, files, raced>>

Changes(c) == c # Nothing /\ c.kind \in {"write", "edit"}
Of(c, p) == c # Nothing /\ c.kind # "list" /\ c.path = p

\* A call to change a file while another one is about to do so.
Race(o) ==
    /\ call[o] = Nothing
    /\ \E c \in Calls, u \in Ops :
         /\ Changes(c) /\ Changes(call[u]) /\ Of(call[u], c.path)
         /\ result[u] = Nothing
         /\ call' = [call EXCEPT ![o] = c]
         /\ raced' = raced \cup {c.path}
         /\ files' = [files EXCEPT ![c.path] = Nothing]
         /\ result' = [v \in Ops |-> IF Of(call[v], c.path) THEN Nothing ELSE result[v]]

Pending(o, kind) == call[o] # Nothing /\ result[o] = Nothing /\ call[o].kind = kind
Answer(o, r) == result' = [result EXCEPT ![o] = r] /\ UNCHANGED <<call, raced>>
Text(p) == IF files[p] = Nothing THEN <<>> ELSE files[p]

Write(o) ==
    /\ Pending(o, "write")
    /\ files' = [files EXCEPT ![call[o].path] = <<o>>]
    /\ Answer(o, Ok(<<>>))

Edit(o) ==
    /\ Pending(o, "edit")
    /\ files' = [files EXCEPT ![call[o].path] = Append(Text(call[o].path), o)]
    /\ Answer(o, Ok(<<>>))

Read(o) ==
    /\ Pending(o, "read")
    /\ files[call[o].path] # Nothing
    /\ Answer(o, Ok(files[call[o].path]))
    /\ UNCHANGED files

List(o) ==
    /\ Pending(o, "list")
    /\ \E forgotten \in SUBSET raced :
         Answer(o, Ok({p \in Paths : files[p] # Nothing} \cup forgotten))
    /\ UNCHANGED files

Fail(o) ==
    /\ \E kind \in Kinds : Pending(o, kind)
    /\ Answer(o, Error)
    /\ UNCHANGED files

Next == \E o \in Ops : \/ Begin(o) \/ Race(o)
                       \/ Write(o) \/ Edit(o) \/ Read(o) \/ List(o) \/ Fail(o)

Spec == Init /\ [][Next]_vars
=============================================================================
