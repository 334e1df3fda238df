----------------------------- MODULE MCSandbox -----------------------------
(* Constants of the model-checking instances of Sandbox.                   *)
EXTENDS Sandbox

CONSTANTS c1, c2, pinned, other

\* Everything required, and everything there.
Strict == [commands |-> {"ls"}, maxArgs |-> 1, maxArgLength |-> 2, mode |-> "docker",
           timeout |-> 2, verifyTimeout |-> 2, maxOutput |-> 2, workDir |-> "safe",
           image |-> pinned, allowlist |-> TRUE, allowed |-> {pinned}, signed |-> TRUE,
           seccomp |-> TRUE, profile |-> "safe", rootless |-> TRUE,
           nonRoot |-> TRUE, user |-> TRUE]

\* Strict with one thing changed, or lacking, at a time.
SomeConfigs ==
    {Strict} \cup {[Strict EXCEPT !.mode = m] : m \in {"process", "gvisor", "vm"}}
        \cup {[Strict EXCEPT !.image = i] : i \in {other, None}}
        \cup {[Strict EXCEPT !.allowlist = FALSE, !.image = other],
              [Strict EXCEPT !.signed = FALSE],
              [Strict EXCEPT !.profile = "none"],
              [Strict EXCEPT !.seccomp = FALSE, !.profile = "unsafe"],
              [Strict EXCEPT !.rootless = FALSE, !.verifyTimeout = 0],
              [Strict EXCEPT !.user = FALSE],
              [Strict EXCEPT !.workDir = "unsafe"],
              [Strict EXCEPT !.mode = "process", !.workDir = "none", !.maxArgs = 0,
                             !.maxOutput = 0, !.timeout = 0]}

SomeCommands ==
    {[word |-> "ls", args |-> 1, longest |-> 2, safe |-> TRUE],
     [word |-> "ls", args |-> 2, longest |-> 2, safe |-> TRUE],
     [word |-> "ls", args |-> 1, longest |-> 3, safe |-> FALSE],
     [word |-> "rm", args |-> 0, longest |-> 0, safe |-> TRUE]}

AllTools == {"docker", "cosign"}
SomeHosts ==
    {[rootless |-> TRUE, signed |-> {pinned}, installed |-> AllTools],
     [rootless |-> FALSE, signed |-> {pinned, other}, installed |-> AllTools],
     [rootless |-> TRUE, signed |-> {}, installed |-> {"docker"}],
     [rootless |-> TRUE, signed |-> {other}, installed |-> {}]}
=============================================================================
