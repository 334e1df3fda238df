--------------------------- MODULE SandboxProofs ----------------------------
(***************************************************************************)
(* Theorems about the gates of the execute tool, for every value of the    *)
(* constants of Sandbox: any number of calls that interleave, any commands *)
(* and any configurations.                                                 *)
(***************************************************************************)
EXTENDS Sandbox, TLAPS

Positions == {"idle", "policy", "inspecting", "signature", "verifying", "build", "running", "done"}

LocalsOK ==
    /\ config \in Configs
    /\ pc \in [Calls -> Positions]
    /\ DOMAIN command = Calls /\ DOMAIN mode = Calls
    /\ DOMAIN launched = Calls /\ DOMAIN began = Calls

\* What the gates a call has passed have established.
CheckedBefore(c) == mode[c] \in Container => ~(config.seccomp /\ config.profile = "none")
InspectedBefore(c) == mode[c] \in Container /\ config.rootless => host.rootless
VerifiedBefore(c) == mode[c] \in Container /\ config.signed => config.image \in host.signed

AtBuild == {"build", "running"}
PastPolicy == {"inspecting", "signature", "verifying"} \cup AtBuild
PastInspection == {"signature", "verifying"} \cup AtBuild

\* A call that is under way goes by the configuration it began with, as no
\* tool was made since, and has passed the gates before the one it is at.
GatesInv ==
    \A c \in Calls :
        /\ Busy(c) => /\ began[c] = config /\ mode[c] = config.mode
                      /\ Admits(config, command[c])
        /\ pc[c] \in PastPolicy => CheckedBefore(c)
        /\ pc[c] \in PastInspection => InspectedBefore(c)
        /\ pc[c] \in AtBuild => VerifiedBefore(c)
        /\ pc[c] = "idle" => launched[c] = None
        /\ launched[c] # None => Obeys(launched[c], began[c], command[c])

SandboxInv == LocalsOK /\ GatesInv

-----------------------------------------------------------------------------
\* A step of one call that only takes it from one gate to the next, or ends it.
LEMMA GateKeeps ==
    ASSUME SandboxInv, NEW c \in Calls, Busy(c), NEW then \in Positions \ {"idle"},
           pc' = [pc EXCEPT ![c] = then],
           UNCHANGED <<config, host, command, mode, launched, began>>,
           then \in PastPolicy => CheckedBefore(c),
           then \in PastInspection => InspectedBefore(c),
           then \in AtBuild => VerifiedBefore(c)
    PROVE  SandboxInv'
<1>1. LocalsOK'
  BY DEF SandboxInv, LocalsOK
<1>2. pc'[c] = then /\ \A d \in Calls : d # c => pc'[d] = pc[d]
  BY DEF SandboxInv, LocalsOK
<1>3. \A d \in Calls : /\ CheckedBefore(d)' = CheckedBefore(d)
                       /\ InspectedBefore(d)' = InspectedBefore(d)
                       /\ VerifiedBefore(d)' = VerifiedBefore(d)
                       /\ Obeys(launched[d], began[d], command[d])'
                            = Obeys(launched[d], began[d], command[d])
                       /\ Busy(d)' => Busy(d)
  BY <1>2 DEF CheckedBefore, InspectedBefore, VerifiedBefore, Obeys, Busy
<1>4. GatesInv'
  BY <1>2, <1>3 DEF SandboxInv, GatesInv
<1> QED  BY <1>1, <1>4 DEF SandboxInv

LEMMA ExecuteKeeps ==
    ASSUME SandboxInv, NEW c \in Calls, Execute(c)
    PROVE  SandboxInv'
<1>1. PICK x \in Commands :
         /\ command' = [command EXCEPT ![c] = x]
         /\ began' = [began EXCEPT ![c] = config]
         /\ IF Admits(config, x)
            THEN /\ mode' = [mode EXCEPT ![c] = config.mode]
                 /\ Go(c, IF config.mode \in Container THEN "policy" ELSE "build")
            ELSE Refuse(c) /\ UNCHANGED mode
  BY DEF Execute
<1>2. pc[c] = "idle" /\ UNCHANGED <<config, host, launched>>
  BY DEF Execute
<1>3. PICK then \in {"policy", "build", "done"} :
         /\ pc' = [pc EXCEPT ![c] = then]
         /\ then # "done" => /\ Admits(config, x) /\ mode' = [mode EXCEPT ![c] = config.mode]
                             /\ then = "build" => config.mode \notin Container
         /\ then = "done" => mode' = mode
  BY <1>1 DEF Go, Refuse, Return
<1>4. LocalsOK'
  BY <1>1, <1>2, <1>3 DEF SandboxInv, LocalsOK, Positions
<1>5. ASSUME NEW d \in Calls, d # c
      PROVE  /\ pc'[d] = pc[d] /\ command'[d] = command[d] /\ began'[d] = began[d]
             /\ mode'[d] = mode[d]
  BY <1>1, <1>3, <1>5 DEF SandboxInv, LocalsOK
<1>6. /\ pc'[c] = then /\ command'[c] = x /\ began'[c] = config /\ launched'[c] = None
      /\ then # "done" => mode'[c] = config.mode
  BY <1>1, <1>2, <1>3 DEF SandboxInv, LocalsOK, GatesInv
<1>7. GatesInv'
  <2> SUFFICES ASSUME NEW d \in Calls
               PROVE  /\ Busy(d)' => /\ began'[d] = config' /\ mode'[d] = config'.mode
                                     /\ Admits(config', command'[d])
                      /\ pc'[d] \in PastPolicy => CheckedBefore(d)'
                      /\ pc'[d] \in PastInspection => InspectedBefore(d)'
                      /\ pc'[d] \in AtBuild => VerifiedBefore(d)'
                      /\ pc'[d] = "idle" => launched'[d] = None
                      /\ launched'[d] # None => Obeys(launched[d], began[d], command[d])'
    BY DEF GatesInv
  <2>1. CASE d = c
    BY <1>2, <1>3, <1>6, <2>1
       DEF Busy, PastPolicy, PastInspection, AtBuild, CheckedBefore, InspectedBefore, VerifiedBefore
  <2>2. CASE d # c
    BY <1>2, <1>5, <2>2
       DEF SandboxInv, GatesInv, Busy, CheckedBefore, InspectedBefore, VerifiedBefore, Obeys
  <2> QED  BY <2>1, <2>2
<1> QED  BY <1>4, <1>7 DEF SandboxInv

\* What is started by a call that has passed its gates obeys its configuration.
LEMMA BuiltObeys ==
    ASSUME SandboxInv, NEW c \in Calls, pc[c] = "build", Buildable(config, mode[c])
    PROVE  Obeys(Launch(config, mode[c]), began[c], command[c])
<1>1. /\ began[c] = config /\ mode[c] = config.mode /\ Admits(config, command[c])
      /\ CheckedBefore(c) /\ InspectedBefore(c) /\ VerifiedBefore(c)
  BY DEF SandboxInv, GatesInv, Busy, PastPolicy, PastInspection, AtBuild
<1> DEFINE l == Launch(config, mode[c])
<1>2. /\ l.mode = mode[c]
      /\ mode[c] \in Container => l.image = config.image /\ l.options = Options(config)
  BY DEF Launch
<1>3. config.workDir # "unsafe"
  BY DEF Buildable
<1>4. ASSUME mode[c] \in Container
      PROVE  /\ config.allowlist => config.image \in config.allowed
             /\ config.nonRoot => "user" \in Options(config)
             /\ config.seccomp => "seccomp" \in Options(config)
  <2>1. config.profile \in Paths
    BY ConfigsAssumption DEF SandboxInv, LocalsOK
  <2>2. config.profile # "unsafe" /\ (config.allowlist => config.image \in config.allowed)
    BY <1>4 DEF Buildable
  <2> QED  BY <1>1, <1>4, <2>1, <2>2 DEF CheckedBefore, Paths, Options
<1> HIDE DEF l
<1>5. Obeys(l, config, command[c])
  BY <1>1, <1>2, <1>3, <1>4 DEF Obeys, InspectedBefore, VerifiedBefore
<1> QED  BY <1>1, <1>5 DEF l

LEMMA BuildKeeps ==
    ASSUME SandboxInv, NEW c \in Calls, Build(c)
    PROVE  SandboxInv'
<1>1. /\ pc[c] = "build" /\ Busy(c)
      /\ UNCHANGED <<config, host, command, mode, began>>
  BY DEF Build, Busy, locals
<1>2. CASE launched' = launched
  <2>1. PICK then \in {"running", "done"} : pc' = [pc EXCEPT ![c] = then]
    BY DEF Build, Go, Refuse, Return
  <2>2. CheckedBefore(c) /\ InspectedBefore(c) /\ VerifiedBefore(c)
    BY <1>1 DEF SandboxInv, GatesInv, PastPolicy, PastInspection, AtBuild
  <2> QED  BY <1>1, <1>2, <2>1, <2>2, GateKeeps DEF Positions
<1>3. CASE launched' # launched
  <2>1. /\ Buildable(config, mode[c]) /\ pc' = [pc EXCEPT ![c] = "running"]
        /\ launched' = [launched EXCEPT ![c] = Launch(config, mode[c])]
    BY <1>3 DEF Build, Go, Refuse
  <2>2. Obeys(Launch(config, mode[c]), began[c], command[c])
    BY <1>1, <2>1, BuiltObeys
  <2>3. LocalsOK'
    BY <1>1, <2>1 DEF SandboxInv, LocalsOK, Positions
  <2>4. /\ pc'[c] = "running" /\ launched'[c] = Launch(config, mode[c])
        /\ \A d \in Calls : d # c => pc'[d] = pc[d] /\ launched'[d] = launched[d]
    BY <2>1 DEF SandboxInv, LocalsOK
  <2>5. \A d \in Calls : /\ CheckedBefore(d)' = CheckedBefore(d)
                         /\ InspectedBefore(d)' = InspectedBefore(d)
                         /\ VerifiedBefore(d)' = VerifiedBefore(d)
                         /\ Busy(d)' = Busy(d)
    BY <1>1, <2>4 DEF CheckedBefore, InspectedBefore, VerifiedBefore, Busy
  <2>6. \A d \in Calls : Obeys(launched[d], began[d], command[d])'
                           = Obeys(launched'[d], began[d], command[d])
    BY <1>1 DEF Obeys
  <2>7. CheckedBefore(c) /\ InspectedBefore(c) /\ VerifiedBefore(c)
    BY <1>1 DEF SandboxInv, GatesInv, PastPolicy, PastInspection, AtBuild
  <2>8. GatesInv'
    BY <1>1, <2>2, <2>4, <2>5, <2>6, <2>7 DEF SandboxInv, GatesInv
  <2> QED  BY <2>3, <2>8 DEF SandboxInv
<1> QED  BY <1>2, <1>3

LEMMA SandboxStep ==
    ASSUME Quiet, SandboxInv, [Next]_vars
    PROVE  SandboxInv'
<1>1. ASSUME NEW c \in Calls, Policy(c) PROVE SandboxInv'
  <2>1. /\ Busy(c) /\ pc[c] = "policy"
        /\ UNCHANGED <<config, host, command, mode, launched, began>>
    BY <1>1 DEF Policy, Busy, locals
  <2>2. PICK then \in {"done", "signature", "inspecting"} :
           /\ pc' = [pc EXCEPT ![c] = then]
           /\ then # "done" => ~(config.seccomp /\ config.profile = "none")
           /\ then = "signature" => ~config.rootless
    BY <1>1 DEF Policy, Go, Refuse, Return
  <2> QED  BY <2>1, <2>2, GateKeeps
           DEF Positions, PastPolicy, PastInspection, AtBuild, CheckedBefore, InspectedBefore
<1>2. ASSUME NEW c \in Calls, Inspected(c) PROVE SandboxInv'
  <2>1. /\ Busy(c) /\ pc[c] = "inspecting" /\ CheckedBefore(c)
        /\ UNCHANGED <<config, host, command, mode, launched, began>>
    BY <1>2 DEF Inspected, Checked, Busy, locals, SandboxInv, GatesInv, PastPolicy
  <2>2. PICK then \in {"done", "signature"} :
           pc' = [pc EXCEPT ![c] = then] /\ (then = "signature" => host.rootless)
    BY <1>2 DEF Inspected, Checked, Go, Refuse, Return
  <2> QED  BY <2>1, <2>2, GateKeeps
           DEF Positions, PastPolicy, PastInspection, AtBuild, InspectedBefore
<1>3. ASSUME NEW c \in Calls, Signature(c) PROVE SandboxInv'
  <2>1. /\ Busy(c) /\ pc[c] = "signature" /\ CheckedBefore(c) /\ InspectedBefore(c)
        /\ UNCHANGED <<config, host, command, mode, launched, began>>
    BY <1>3 DEF Signature, Busy, locals, SandboxInv, GatesInv, PastPolicy, PastInspection
  <2>2. PICK then \in {"done", "build", "verifying"} :
           pc' = [pc EXCEPT ![c] = then] /\ (then = "build" => ~config.signed)
    BY <1>3 DEF Signature, Go, Refuse, Return
  <2> QED  BY <2>1, <2>2, GateKeeps
           DEF Positions, PastPolicy, PastInspection, AtBuild, VerifiedBefore
<1>4. ASSUME NEW c \in Calls, Verified(c) PROVE SandboxInv'
  <2>1. /\ Busy(c) /\ pc[c] = "verifying" /\ CheckedBefore(c) /\ InspectedBefore(c)
        /\ UNCHANGED <<config, host, command, mode, launched, began>>
    BY <1>4 DEF Verified, Checked, Busy, locals, SandboxInv, GatesInv, PastPolicy, PastInspection
  <2>2. PICK then \in {"done", "build"} :
           pc' = [pc EXCEPT ![c] = then] /\ (then = "build" => config.image \in host.signed)
    BY <1>4 DEF Verified, Checked, Go, Refuse, Return
  <2> QED  BY <2>1, <2>2, GateKeeps
           DEF Positions, PastPolicy, PastInspection, AtBuild, VerifiedBefore
<1>5. ASSUME NEW c \in Calls, CheckFails(c) \/ CommandEnds(c) PROVE SandboxInv'
  <2>1. /\ Busy(c) /\ pc' = [pc EXCEPT ![c] = "done"]
        /\ UNCHANGED <<config, host, command, mode, launched, began>>
    BY <1>5 DEF CheckFails, CommandEnds, Busy, locals, Go, Refuse, Return
  <2> QED  BY <2>1, GateKeeps DEF Positions, PastPolicy, PastInspection, AtBuild
<1>6. CASE MakeTool
  <2>1. /\ \A c \in Calls : ~Busy(c)
        /\ config' \in Configs
        /\ UNCHANGED <<host, pc, command, mode, launched, began>>
    BY <1>6 DEF MakeTool
  <2>2. LocalsOK'
    BY <2>1 DEF SandboxInv, LocalsOK
  <2>3. \A c \in Calls : /\ ~Busy(c)' /\ pc[c] \notin PastPolicy /\ pc[c] \notin PastInspection
                         /\ pc[c] \notin AtBuild
    BY <2>1 DEF Busy, PastPolicy, PastInspection, AtBuild
  <2>4. \A c \in Calls : Obeys(launched[c], began[c], command[c])'
                           = Obeys(launched[c], began[c], command[c])
    BY <2>1 DEF Obeys
  <2> QED  BY <2>1, <2>2, <2>3, <2>4 DEF SandboxInv, GatesInv
<1>7. CASE Tick \/ UNCHANGED vars
  <2>1. UNCHANGED <<config, host, pc, command, mode, launched, began>>
    BY <1>7 DEF Tick, vars
  <2>2. \A d \in Calls : /\ CheckedBefore(d)' = CheckedBefore(d)
                         /\ InspectedBefore(d)' = InspectedBefore(d)
                         /\ VerifiedBefore(d)' = VerifiedBefore(d)
                         /\ Obeys(launched[d], began[d], command[d])'
                              = Obeys(launched[d], began[d], command[d])
                         /\ Busy(d)' = Busy(d)
    BY <2>1 DEF CheckedBefore, InspectedBefore, VerifiedBefore, Obeys, Busy
  <2> QED  BY <2>1, <2>2 DEF SandboxInv, LocalsOK, GatesInv
<1> QED  BY <1>1, <1>2, <1>3, <1>4, <1>5, <1>6, <1>7, ExecuteKeeps, BuildKeeps
         DEF Next, Step, Gate, Finished

\* Whatever execute starts satisfies, as a whole, the configuration its call
\* began with: every gate was passed, and it is the image that was verified
\* and listed that runs, however calls interleave at the gates.  It needs a
\* backend that is not given another configuration in the middle of a call,
\* which is what Quiet says (sandbox.go:153-227, 248-340).
THEOREM LaunchesObey ==
    ASSUME Quiet
    PROVE  Spec => []LaunchesObeyTheirConfig
<1>1. Init => SandboxInv
  BY DEF Init, SandboxInv, LocalsOK, GatesInv, Busy, Positions, PastPolicy, PastInspection, AtBuild
<1>2. SandboxInv /\ [Next]_vars => SandboxInv'
  BY SandboxStep
<1>3. SandboxInv => LaunchesObeyTheirConfig
  BY DEF SandboxInv, GatesInv, LaunchesObeyTheirConfig
<1> QED  BY <1>1, <1>2, <1>3, PTL DEF Spec

=============================================================================
