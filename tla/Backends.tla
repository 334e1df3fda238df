------------------------------ MODULE Backends ------------------------------
(***************************************************************************)
(* The two file backends (tools/builtin/fs/disk.go, inmemory.go) under the *)
(* ls, read_file, write_file and edit_file tools.                          *)
(*                                                                         *)
(* The calls of one run follow one another, but the runs of an agent share *)
(* its backend.  DiskBackend takes no lock: its calls interleave at their  *)
(* system calls.  A path names an inode, and so does path + ".tmp"; a      *)
(* content is the sequence of the calls whose text it holds.  An inode is  *)
(* named after the call that created it.                                   *)
(***************************************************************************)
EXTENDS Naturals, SequencesExt

CONSTANTS
    Ops, Paths, Calls, Nothing,
    Configured, \* the backends an agent may be given: "disk", "memory"
    Unsafe,     \* the paths safePath refuses
    Faults,     \* subset of {"write", "crash"}
    Mix         \* the tail of a longer content that a shorter one did not cover

Kinds == {"write", "edit", "read", "list"}

ASSUME BackendAssumption == Configured \subseteq {"disk", "memory"}
ASSUME CallsAssumption == Calls \subseteq [kind : Kinds, path : Paths]
ASSUME PathsAssumption == Unsafe \subseteq Paths /\ Mix \notin Ops
ASSUME FaultsAssumption == Faults \subseteq {"write", "crash"}

Contents == Seq(Ops \cup {Mix})
ASSUME NothingAssumption == Nothing \notin Ops /\ Nothing \notin Calls /\ Nothing \notin Contents

VARIABLES
    backend, \* the backend of the agent
    pc,      \* the system call each call is at
    call,    \* its request
    text,    \* the content it is about to write
    fd,      \* the inode it has open
    result,  \* its answer
    data,    \* the content of each inode
    file,    \* the inode each path names
    tmp,     \* the inode each path + ".tmp" names
    raced    \* history: the paths on disk that two calls changed at once

vars == <<backend, pc, call, text, fd, result, data, file, tmp, raced>>

Ok(v) == [status |-> "ok", value |-> v]
Error == [status |-> "error", value |-> <<>>]

Init ==
    /\ backend \in Configured
    /\ pc = [o \in Ops |-> "idle"]
    /\ call = [o \in Ops |-> Nothing]
    /\ text = [o \in Ops |-> <<>>]
    /\ fd = [o \in Ops |-> Nothing]
    /\ result = [o \in Ops |-> Nothing]
    /\ data = [o \in Ops |-> <<>>]
    /\ file = [p \in Paths |-> Nothing]
    /\ tmp = [p \in Paths |-> Nothing]
    /\ raced = {}

Go(o, l) == pc' = [pc EXCEPT ![o] = l] /\ UNCHANGED <<backend, raced>>
Path(o) == call[o].path
Busy(o) == pc[o] \notin {"idle", "done", "lost"}
At(o, l, kinds) == pc[o] = l /\ call[o].kind \in kinds
Changes(c) == c.kind \in {"write", "edit"}
Content(p) == IF file[p] = Nothing THEN <<>> ELSE data[file[p]]
Listing == {p \in Paths : file[p] # Nothing}

BeingChanged(p) == \E u \in Ops : Busy(u) /\ Changes(call[u]) /\ Path(u) = p

\* A tool handler calls its backend.
Begin(o) ==
    /\ pc[o] = "idle"
    /\ \E c \in Calls :
         /\ call' = [call EXCEPT ![o] = c]
         /\ raced' = raced \cup
                (IF backend = "disk" /\ Changes(c) /\ BeingChanged(c.path) THEN {c.path} ELSE {})
    /\ pc' = [pc EXCEPT ![o] = "start"] /\ UNCHANGED backend
    /\ UNCHANGED <<text, fd, result, data, file, tmp>>

Return(o, r) == result' = [result EXCEPT ![o] = r] /\ Go(o, "done")

-----------------------------------------------------------------------------
(* InMemoryBackend: one critical section per call.                         *)

InMemory(o) == backend = "memory" /\ pc[o] = "start"

Put(o, c) ==
    /\ data' = [data EXCEPT ![o] = c]
    /\ file' = [file EXCEPT ![Path(o)] = o]
    /\ Return(o, Ok(<<>>))
    /\ UNCHANGED <<call, text, fd, tmp>>

MemoryWrite(o) == InMemory(o) /\ call[o].kind = "write" /\ Put(o, <<o>>)

MemoryEdit(o) ==
    InMemory(o) /\ call[o].kind = "edit" /\ Put(o, Append(Content(Path(o)), o))

MemoryRead(o) ==
    /\ InMemory(o) /\ call[o].kind = "read"
    /\ Return(o, IF file[Path(o)] = Nothing THEN Error ELSE Ok(Content(Path(o))))
    /\ UNCHANGED <<call, text, fd, data, file, tmp>>

MemoryList(o) ==
    /\ InMemory(o) /\ call[o].kind = "list"
    /\ Return(o, Ok(Listing))
    /\ UNCHANGED <<call, text, fd, data, file, tmp>>

-----------------------------------------------------------------------------
(* DiskBackend.                                                            *)

OnDisk(o) == backend = "disk" /\ pc[o] = "start" /\ Path(o) \notin Unsafe

RefusePath(o) ==
    /\ backend = "disk" /\ pc[o] = "start" /\ Path(o) \in Unsafe
    /\ Return(o, Error)
    /\ UNCHANGED <<call, text, fd, data, file, tmp>>

\* ReadDir.  It also shows the temporary files, which the tools do not tell
\* from the others; the answer here is the part of it that names files.
DiskList(o) ==
    /\ OnDisk(o) /\ call[o].kind = "list"
    /\ Return(o, Ok(Listing))
    /\ UNCHANGED <<call, text, fd, data, file, tmp>>

\* ReadFile, for Read and for Edit: open, then read.
OpenFile(o) ==
    /\ OnDisk(o) /\ call[o].kind \in {"read", "edit"}
    /\ file[Path(o)] # Nothing
    /\ fd' = [fd EXCEPT ![o] = file[Path(o)]]
    /\ Go(o, "reading")
    /\ UNCHANGED <<call, text, result, data, file, tmp>>

NoSuchFile(o) ==
    /\ OnDisk(o) /\ file[Path(o)] = Nothing
    /\ \/ call[o].kind = "read" /\ Return(o, Error) /\ UNCHANGED text
       \/ /\ call[o].kind = "edit"
          /\ text' = [text EXCEPT ![o] = <<o>>]
          /\ Go(o, "compose") /\ UNCHANGED result
    /\ UNCHANGED <<call, fd, data, file, tmp>>

ReadFile(o) ==
    /\ At(o, "reading", {"read"})
    /\ Return(o, Ok(data[fd[o]]))
    /\ UNCHANGED <<call, text, fd, data, file, tmp>>

ReadForEdit(o) ==
    /\ At(o, "reading", {"edit"})
    /\ text' = [text EXCEPT ![o] = Append(data[fd[o]], o)]
    /\ Go(o, "compose")
    /\ UNCHANGED <<call, fd, result, data, file, tmp>>

ComposeWrite(o) ==
    /\ OnDisk(o) /\ call[o].kind = "write"
    /\ text' = [text EXCEPT ![o] = <<o>>]
    /\ Go(o, "compose")
    /\ UNCHANGED <<call, fd, result, data, file, tmp>>

\* os.WriteFile opens with O_CREATE and O_TRUNC: the inode that path + ".tmp"
\* names, emptied, or a new one.
\* Mutant: the file itself is opened.
OpenTmp_InPlace(o) ==
    /\ pc[o] = "compose"
    /\ LET inode == IF file[Path(o)] = Nothing THEN o ELSE file[Path(o)] IN
         /\ fd' = [fd EXCEPT ![o] = inode]
         /\ tmp' = [tmp EXCEPT ![Path(o)] = inode]
         /\ data' = [data EXCEPT ![inode] = <<>>]
    /\ Go(o, "opened")
    /\ UNCHANGED <<call, text, result, file>>
OpenTmp(o) ==
    /\ pc[o] = "compose"
    /\ LET inode == IF tmp[Path(o)] = Nothing THEN o ELSE tmp[Path(o)] IN
         /\ fd' = [fd EXCEPT ![o] = inode]
         /\ tmp' = [tmp EXCEPT ![Path(o)] = inode]
         /\ data' = [data EXCEPT ![inode] = <<>>]
    /\ Go(o, "opened")
    /\ UNCHANGED <<call, text, result, file>>

\* Written from the start of the file, over whatever another call has put
\* there since it was emptied: of a longer text, the tail stays.
WriteTmp(o) ==
    /\ pc[o] = "opened"
    /\ \E tail \in IF data[fd[o]] = <<>> THEN {<<>>} ELSE {<<>>, <<Mix>>} :
         data' = [data EXCEPT ![fd[o]] = text[o] \o tail]
    /\ Go(o, "written")
    /\ UNCHANGED <<call, text, fd, result, file, tmp>>

\* Opening or writing the temporary file fails; it stays where it is.
WriteFails(o) ==
    /\ "write" \in Faults
    /\ pc[o] \in {"compose", "opened"}
    /\ Return(o, Error)
    /\ UNCHANGED <<call, text, fd, data, file, tmp>>

\* Mutant: the temporary file is linked, not renamed.
Rename_Links(o) ==
    /\ pc[o] = "written"
    /\ file' = [file EXCEPT ![Path(o)] = fd[o]]
    /\ Return(o, Ok(<<>>))
    /\ UNCHANGED <<call, text, fd, data, tmp>>
\* Rename moves whatever inode path + ".tmp" names now.
Rename(o) ==
    /\ pc[o] = "written"
    /\ IF tmp[Path(o)] = Nothing
       THEN Return(o, Error) /\ UNCHANGED <<file, tmp>>
       ELSE /\ file' = [file EXCEPT ![Path(o)] = tmp[Path(o)]]
            /\ tmp' = [tmp EXCEPT ![Path(o)] = Nothing]
            /\ Return(o, Ok(<<>>))
    /\ UNCHANGED <<call, text, fd, data>>

\* The process dies; another one continues on the same directory.
Crash ==
    /\ "crash" \in Faults /\ backend = "disk"
    /\ \E o \in Ops : Busy(o)
    /\ pc' = [o \in Ops |-> IF Busy(o) THEN "lost" ELSE pc[o]]
    /\ UNCHANGED <<backend, call, text, fd, result, data, file, tmp, raced>>

-----------------------------------------------------------------------------
Memory(o) == MemoryWrite(o) \/ MemoryEdit(o) \/ MemoryRead(o) \/ MemoryList(o)

Disk(o) ==
    \/ RefusePath(o) \/ DiskList(o)
    \/ OpenFile(o) \/ NoSuchFile(o) \/ ReadFile(o)
    \/ ReadForEdit(o) \/ ComposeWrite(o)
    \/ OpenTmp(o) \/ WriteTmp(o) \/ WriteFails(o) \/ Rename(o)

Finished == (\A o \in Ops : ~Busy(o) /\ pc[o] # "idle") /\ UNCHANGED vars

Next == (\E o \in Ops : Begin(o) \/ Memory(o) \/ Disk(o)) \/ Crash \/ Finished

Spec == Init /\ [][Next]_vars

-----------------------------------------------------------------------------
\* Every variable holds values of its kind; a listing is a set of paths.
TypeOK ==
    /\ backend \in Configured
    /\ pc \in [Ops -> {"idle", "start", "reading", "compose", "opened", "written",
                       "done", "lost"}]
    /\ call \in [Ops -> Calls \cup {Nothing}]
    /\ text \in [Ops -> Contents]
    /\ fd \in [Ops -> Ops \cup {Nothing}]
    /\ \A o \in Ops : pc[o] = "done" <=> result[o] # Nothing
    /\ data \in [Ops -> Contents]
    /\ file \in [Paths -> Ops \cup {Nothing}]
    /\ tmp \in [Paths -> Ops \cup {Nothing}]
    /\ raced \subseteq Paths

Whole(content) == content # <<>> /\ Mix \notin ToSet(content)
ReadAnswers(o) == At(o, "done", {"read"}) /\ result[o].status = "ok"

\* What the comment at disk.go:72 says, "atomic write": no read ever returns
\* anything but a whole text.
WritesAreAtomic == \A o \in Ops : ReadAnswers(o) => Whole(result[o].value)

\* A temporary file stays behind only where a call failed or died (disk.go:73).
StraysExplained ==
    \A p \in Paths : tmp[p] # Nothing =>
        \E o \in Ops : /\ pc[o] \in {"opened", "written", "lost", "done"} /\ Path(o) = p
                       /\ pc[o] = "done" => result[o] = Error

\* The answers as FileMap gives them: a read of the disk takes effect when it
\* opens the file, since an inode that has a name is never written to again,
\* unless its path was raced for; then FileMap has forgotten the answer.
Answered(o) ==
    IF call[o] # Nothing /\ call[o].kind # "list" /\ Path(o) \in raced THEN Nothing
    ELSE IF fd[o] # Nothing /\ call[o].kind = "read" THEN Ok(data[fd[o]]) ELSE result[o]

Answers == [o \in Ops |-> Answered(o)]
Files == [p \in Paths |->
            IF file[p] = Nothing \/ p \in raced THEN Nothing ELSE data[file[p]]]
Map == INSTANCE FileMap WITH result <- Answers, files <- Files

\* Both backends behave like a map of files on which every call takes effect
\* at one instant; DiskBackend up to the files that two calls change at once.
ActsAsFileMap == Map!Spec
=============================================================================
