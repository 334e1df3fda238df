------------------------------ MODULE Sandbox ------------------------------
(***************************************************************************)
(* The execute tool and SandboxBackend.Execute (tools/builtin/execute.go,  *)
(* sandbox.go): the gates between a command and a process or a container.  *)
(*                                                                         *)
(* The execute tools of several agents may share a SandboxBackend.  One    *)
(* that is made with a configuration gives it to the backend, which reads  *)
(* its configuration again at every gate.  Between the gates lie calls of  *)
(* docker and cosign, during which time passes and other calls proceed.    *)
(***************************************************************************)
EXTENDS Integers, FiniteSets

CONSTANTS
    Calls,        \* the calls of execute
    Commands,     \* [word, args, longest, safe]: first word, number of arguments,
                  \* length of the longest, is it free of shell syntax and ".."?
    Configs,      \* the values of ExecuteConfig in this instance
    Hosts,        \* [rootless, signed, installed]: the machine, as docker and cosign see it
    Sizes,        \* the sizes of a command's output
    Notice,       \* the size of "...output truncated..."
    InspectTime,  \* the time docker info is given (5 s)
    MaxTools,     \* bound on the execute tools made
    Quiet,        \* are tools made only while no command executes?
    None          \* no image, no deadline, no command, no answer

Modes == {"process", "docker", "gvisor"}
Container == {"docker", "gvisor"}
Paths == {"none", "safe", "unsafe"}

ASSUME BoundsAssumption == InspectTime \in Nat /\ MaxTools \in Nat /\ Notice \in Nat
ASSUME SizesAssumption == Sizes \subseteq Nat /\ Quiet \in BOOLEAN
ASSUME CommandsAssumption ==
    \A x \in Commands : x.args \in Nat /\ x.longest \in Nat /\ x.safe \in BOOLEAN
ASSUME ConfigsAssumption ==
    \A k \in Configs :
        /\ {k.maxArgs, k.maxArgLength, k.timeout, k.verifyTimeout, k.maxOutput} \subseteq Nat
        /\ {k.seccomp, k.rootless, k.nonRoot, k.user, k.signed, k.allowlist} \subseteq BOOLEAN
        /\ k.workDir \in Paths /\ k.profile \in Paths

VARIABLES
    config,    \* SandboxBackend.config
    tools,     \* how many execute tools have been made
    host,      \* the machine
    pc,        \* where each call is
    command,   \* its command
    mode,      \* local: the isolation mode it read
    left,      \* what is left of its timeout, None without one
    check,     \* what is left of the time of the check it waits for
    launched,  \* what it started: mode, image and options
    result,    \* its answer
    began      \* history: the configuration when it began

vars == <<config, tools, host, pc, command, mode, left, check, launched, result, began>>
locals == <<command, mode, left, began>>

Error(size) == [status |-> "error", output |-> size]
Ok(size) == [status |-> "ok", output |-> size]
Busy(c) == pc[c] \notin {"idle", "done"}
Go(c, l) == pc' = [pc EXCEPT ![c] = l]
Return(c, r) == result' = [result EXCEPT ![c] = r] /\ Go(c, "done")
Refuse(c) == Return(c, Error(0))

Init ==
    /\ config \in Configs
    /\ host \in Hosts
    /\ tools = 0
    /\ pc = [c \in Calls |-> "idle"]
    /\ command = [c \in Calls |-> None]
    /\ mode = [c \in Calls |-> None]
    /\ left = [c \in Calls |-> None]
    /\ check = [c \in Calls |-> None]
    /\ launched = [c \in Calls |-> None]
    /\ result = [c \in Calls |-> None]
    /\ began = [c \in Calls |-> None]

\* NewExecuteToolWithConfig on this backend, with a configuration; without
\* one it leaves the backend alone.
MakeTool ==
    /\ tools < MaxTools
    /\ Quiet => \A c \in Calls : ~Busy(c)
    /\ tools' = tools + 1
    /\ config' \in Configs
    /\ UNCHANGED <<host, pc, command, mode, left, check, launched, result, began>>

-----------------------------------------------------------------------------
(* Execute.                                                                *)

Limited(n, limit) == limit > 0 => n <= limit

Admits(k, x) ==
    /\ x.safe
    /\ x.word \in k.commands
    /\ Limited(x.args, k.maxArgs)
    /\ Limited(x.longest, k.maxArgLength)

\* Mutant: the call is given no deadline.
Timer_Unset(t) == None
Timer(t) == IF t > 0 THEN t ELSE None

Execute(c) ==
    /\ pc[c] = "idle"
    /\ \E x \in Commands :
         /\ command' = [command EXCEPT ![c] = x]
         /\ began' = [began EXCEPT ![c] = config]
         /\ IF Admits(config, x)
            THEN /\ mode' = [mode EXCEPT ![c] = config.mode]
                 /\ left' = [left EXCEPT ![c] = Timer(config.timeout)]
                 /\ Go(c, IF config.mode \in Container THEN "policy" ELSE "build")
                 /\ UNCHANGED result
            ELSE Refuse(c) /\ UNCHANGED <<mode, left>>
    /\ UNCHANGED <<config, tools, host, check, launched>>

\* The context of a check ends with its own time and with that of the call.
Expired(c) == (left[c] # None /\ left[c] <= 0) \/ (check[c] # None /\ check[c] <= 0)

\* validateContainerPolicy and the start of docker info.
Policy(c) ==
    /\ pc[c] = "policy"
    /\ \/ /\ config.seccomp /\ config.profile = "none"
          /\ Refuse(c) /\ UNCHANGED check
       \/ /\ ~(config.seccomp /\ config.profile = "none")
          /\ \/ ~config.rootless /\ Go(c, "signature") /\ UNCHANGED <<result, check>>
             \/ /\ config.rootless /\ "docker" \notin host.installed
                /\ Refuse(c) /\ UNCHANGED check
             \/ /\ config.rootless /\ "docker" \in host.installed
                /\ check' = [check EXCEPT ![c] = InspectTime]
                /\ Go(c, "inspecting") /\ UNCHANGED result
    /\ UNCHANGED <<config, tools, host, locals, launched>>

Checked(c, passed, then) ==
    /\ ~Expired(c)
    /\ check' = [check EXCEPT ![c] = None]
    /\ IF passed THEN Go(c, then) /\ UNCHANGED result ELSE Refuse(c)
    /\ UNCHANGED <<config, tools, host, locals, launched>>

Inspected(c) == pc[c] = "inspecting" /\ Checked(c, host.rootless, "signature")

\* verifyImageSignature.  Mutant: a missing cosign is no reason to refuse.
Signature_Lenient(c) ==
    /\ pc[c] = "signature"
    /\ IF config.signed /\ "cosign" \in host.installed
       THEN check' = [check EXCEPT ![c] = Timer(config.verifyTimeout)] /\ Go(c, "verifying")
       ELSE Go(c, "build") /\ UNCHANGED check
    /\ UNCHANGED <<config, tools, host, locals, launched, result>>
Signature(c) ==
    /\ pc[c] = "signature"
    /\ \/ ~config.signed /\ Go(c, "build") /\ UNCHANGED <<result, check>>
       \/ config.signed /\ "cosign" \notin host.installed /\ Refuse(c) /\ UNCHANGED check
       \/ /\ config.signed /\ "cosign" \in host.installed
          /\ check' = [check EXCEPT ![c] = Timer(config.verifyTimeout)]
          /\ Go(c, "verifying") /\ UNCHANGED result
    /\ UNCHANGED <<config, tools, host, locals, launched>>

Verified(c) == pc[c] = "verifying" /\ Checked(c, config.image \in host.signed, "build")

\* docker info or cosign fails, or is killed when its context ends.
CheckFails(c) ==
    /\ pc[c] \in {"inspecting", "verifying"}
    /\ check' = [check EXCEPT ![c] = None]
    /\ Refuse(c)
    /\ UNCHANGED <<config, tools, host, locals, launched>>

\* buildProcessCommand and buildContainerCommand.
Buildable(k, m) ==
    /\ m \in Modes
    /\ k.workDir # "unsafe"
    /\ m \in Container =>
         /\ "docker" \in host.installed
         /\ k.image # None
         /\ k.allowlist => k.image \in k.allowed
         /\ k.nonRoot => k.user
         /\ k.profile # "unsafe"

Options(k) ==
    (IF k.nonRoot THEN {"user"} ELSE {}) \cup (IF k.profile = "safe" THEN {"seccomp"} ELSE {})

Launch(k, m) ==
    [mode |-> m, image |-> IF m \in Container THEN k.image ELSE None,
     options |-> IF m \in Container THEN Options(k) ELSE {}]

\* A command whose context has ended is not started.
Build(c) ==
    /\ pc[c] = "build"
    /\ IF Buildable(config, mode[c]) /\ ~Expired(c)
       THEN /\ launched' = [launched EXCEPT ![c] = Launch(config, mode[c])]
            /\ Go(c, "running") /\ UNCHANGED result
       ELSE Refuse(c) /\ UNCHANGED launched
    /\ UNCHANGED <<config, tools, host, locals, check>>

Truncated(size) ==
    IF config.maxOutput > 0 /\ size > config.maxOutput THEN config.maxOutput + Notice ELSE size

\* The command ends, or is killed when its context does.
CommandEnds(c) ==
    /\ pc[c] = "running"
    /\ \E size \in Sizes :
         \/ ~Expired(c) /\ Return(c, Ok(Truncated(size)))
         \/ Return(c, Error(Truncated(size)))
    /\ UNCHANGED <<config, tools, host, locals, check, launched>>

-----------------------------------------------------------------------------
(* Time passes while calls wait; what has run out ends at once.            *)
Later(t) == IF t = None THEN None ELSE t - 1

Tick ==
    /\ \E c \in Calls : Busy(c) /\ (left[c] # None \/ check[c] # None)
    /\ \A c \in Calls : Busy(c) => ~Expired(c)
    /\ left' = [c \in Calls |-> IF Busy(c) THEN Later(left[c]) ELSE left[c]]
    /\ check' = [c \in Calls |-> Later(check[c])]
    /\ UNCHANGED <<config, tools, host, pc, command, mode, launched, result, began>>

Gate(c) ==
    \/ Policy(c) \/ Inspected(c) \/ Signature(c) \/ Verified(c) \/ CheckFails(c) \/ Build(c)

Step(c) == Gate(c) \/ CommandEnds(c)

Finished == (\A c \in Calls : pc[c] = "done") /\ UNCHANGED vars

Next == (\E c \in Calls : Execute(c) \/ Step(c)) \/ MakeTool \/ Tick \/ Finished

Spec == Init /\ [][Next]_vars

\* The steps of Execute are taken, time passes, and a process whose context
\* has ended is killed; that it ends by itself before that is not assumed.
FairSpec ==
    /\ Spec
    /\ WF_vars(Tick)
    /\ \A c \in Calls :
         /\ WF_vars(pc[c] \in {"policy", "signature", "build"} /\ Gate(c))
         /\ WF_vars(Expired(c) /\ Step(c))

-----------------------------------------------------------------------------
\* Every variable holds values of its kind; an answer comes with the end of
\* its call.
TypeOK ==
    /\ config \in Configs /\ host \in Hosts /\ tools \in 0..MaxTools
    /\ pc \in [Calls -> {"idle", "policy", "inspecting", "signature", "verifying",
                         "build", "running", "done"}]
    /\ \A c \in Calls : pc[c] # "idle" => command[c] \in Commands /\ began[c] \in Configs
    /\ \A c \in Calls : pc[c] = "running" => launched[c] # None
    /\ \A c \in Calls : check[c] # None => pc[c] \in {"inspecting", "verifying"}
    /\ \A c \in Calls : pc[c] = "done" <=> result[c] # None

\* Whatever was started satisfies, as a whole, the configuration the call
\* began with: every gate was passed, and it is the image that was verified
\* and listed that runs (sandbox.go:153-227, 248-340).  It needs a backend
\* that is not given another configuration in the middle of a call.
Obeys(l, k, x) ==
    /\ Admits(k, x)
    /\ l.mode = k.mode /\ k.workDir # "unsafe"
    /\ l.mode \in Container =>
         /\ l.image = k.image
         /\ k.rootless => host.rootless
         /\ k.signed => l.image \in host.signed
         /\ k.allowlist => l.image \in k.allowed
         /\ k.nonRoot => "user" \in l.options
         /\ k.seccomp => "seccomp" \in l.options
LaunchesObeyTheirConfig ==
    \A c \in Calls : launched[c] # None => Obeys(launched[c], began[c], command[c])

\* A call with a timeout returns, whatever docker, cosign and the command do;
\* the checks that come before the command have timeouts of their own, inside
\* that of the call (sandbox.go:186-203, 363-369, 492-494).
CallsReturn == \A c \in Calls : (Busy(c) /\ began[c].timeout > 0) ~> pc[c] = "done"
=============================================================================
