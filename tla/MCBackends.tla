----------------------------- MODULE MCBackends -----------------------------
(* Constants of the model-checking instances of Backends.                  *)
EXTENDS Backends

CONSTANTS o1, o2, o3, p1, p2, dots

Requests(kinds, paths) == [kind : kinds, path : paths]
AllRequests == Requests({"write", "edit", "read", "list"}, {p1})
    \cup Requests({"write", "edit"}, {p2})
    \cup Requests({"write"}, {dots})
OneFile == Requests({"write", "edit", "read"}, {p1})
=============================================================================
